---------------------------- MODULE SignInProofs ----------------------------
(***************************************************************************)
(* Proofs about SignIn, for any number of sign-ins, nodes and handlers.    *)
(***************************************************************************)
EXTENDS SignIn, TLAPS

----------------------------------------------------------------------------
(* The inductive invariant *)

(* The drawing lock is with the post or the redraw that goes on, and a     *)
(* handler that is there is some sign-in's.                                *)
Locks ==
  /\ \A i \in Id : raising[i] \in {"free", "refused", "posting"} <=> drawing = i
  /\ \A t \in Task : task[t].at = "updating" <=> drawing = t
  /\ \A t \in Task : task[t].at # "free" => task[t].id \in Id

(* A sign-in that is not registered yet is as it was at first.             *)
Fresh ==
  \A i \in Id : raising[i] \notin {"posting", "over"} =>
    /\ i \notin entries /\ shown[i] = "nothing" /\ stage[i] = First(i)
    /\ \A t \in Task : task[t].at # "free" => task[t].id # i

(* While its card is posted, a sign-in is registered, and what was clicked *)
(* meanwhile is still to be drawn.                                         *)
Posting ==
  \A i \in Id : raising[i] = "posting" =>
    /\ i \in entries /\ i \notin undrawn
    /\ shown[i] \in {"nothing", First(i)}
    /\ Owed(i) \/ stage[i] = First(i)

(* What a redraw is about to show is the stage, unless another is owed.    *)
DrawsLatest ==
  \A t \in Task : task[t].at = "updating" /\ task[t].id \in entries =>
    Owed(task[t].id) \/ task[t].seen = stage[task[t].id]

(* When a sign-in was let in, no other of its node went on, and none has   *)
(* since but by being revived.                                             *)
LetIn ==
  \A i \in Id : raising[i] = "free" =>
    \A j \in entries \ revived : NodeOf[j] = NodeOf[i] => stage[j] \in Ended

SInv ==
  /\ TypeOK /\ Locks /\ Fresh /\ Posting
  /\ DrawsLatest /\ LatestShown /\ EndIsDrawn
  /\ LetIn /\ OneUnlessRevived

----------------------------------------------------------------------------
(* Steps of `raise` *)

(* What the conjuncts about redraws say depends on nothing else.           *)
LEMMA SameOwed ==
  ASSUME UNCHANGED task
  PROVE  \A i \in Id : Owed(i)' <=> Owed(i)
  BY DEF Owed

LEMMA RaiseInv ==
  ASSUME SInv, NEW i \in Id, Raise(i)
  PROVE  SInv'
<1> USE DEF SInv
<1>1. /\ raising[i] = "no" /\ raising'[i] = "waiting"
      /\ \A j \in Id \ {i} : raising'[j] = raising[j]
      /\ raising' \in [Id -> {"no", "waiting", "free", "refused", "posting", "over"}]
      /\ UNCHANGED <<entries, stage, shown, asking, drawing, task, undrawn, revived>>
  BY DEF Raise, TypeOK
<1>2. \A j \in Id : Owed(j)' <=> Owed(j)
  BY <1>1, SameOwed
<1>3. \A j \in Id : /\ raising'[j] \in {"free", "posting"} <=> raising[j] \in {"free", "posting"}
                    /\ raising'[j] \in {"free", "refused", "posting"}
                         <=> raising[j] \in {"free", "refused", "posting"}
                    /\ raising'[j] = "free" <=> raising[j] = "free"
                    /\ raising'[j] = "posting" <=> raising[j] = "posting"
                    /\ raising'[j] \in {"posting", "over"} <=> raising[j] \in {"posting", "over"}
  BY <1>1
<1>4. \A j \in Id : InProgress(j)' <=> InProgress(j)
  BY <1>1, <1>3 DEF InProgress
<1>5. TypeOK'
  BY <1>1 DEF TypeOK
<1>6. Locks'
  BY <1>1, <1>3 DEF Locks
<1>7. Fresh'
  BY <1>1, <1>3 DEF Fresh, First
<1>8. Posting'
  BY <1>1, <1>2, <1>3 DEF Posting, First
<1>9. DrawsLatest'
  BY <1>1, <1>2 DEF DrawsLatest, TypeOK
<1>10. LatestShown'
  BY <1>1, <1>2, <1>4 DEF LatestShown, TypeOK
<1>11. EndIsDrawn'
  BY <1>1, <1>2 DEF EndIsDrawn, TypeOK
<1>12. LetIn'
  BY <1>1, <1>3 DEF LetIn
<1>13. OneUnlessRevived'
  BY <1>1 DEF OneUnlessRevived
<1> QED  BY <1>5, <1>6, <1>7, <1>8, <1>9, <1>10, <1>11, <1>12, <1>13

LEMMA RaiseLocksInv ==
  ASSUME SInv, NEW i \in Id, RaiseLocks(i)
  PROVE  SInv'
<1> USE DEF SInv
<1>1. /\ raising[i] = "waiting" /\ raising'[i] \in {"refused", "free"}
      /\ raising'[i] = "free" => ~Busy(NodeOf[i])
      /\ \A j \in Id \ {i} : raising'[j] = raising[j]
      /\ raising' \in [Id -> {"no", "waiting", "free", "refused", "posting", "over"}]
      /\ drawing = Nobody /\ drawing' = i
      /\ UNCHANGED <<entries, stage, shown, asking, task, undrawn, revived>>
  BY DEF RaiseLocks, MayDraw, TypeOK
<1>2. \A j \in Id : Owed(j)' <=> Owed(j)
  BY <1>1, SameOwed
<1>3. /\ \A j \in Id : raising[j] \notin {"free", "refused", "posting"}
      /\ \A t \in Task : task[t].at # "updating"
  BY <1>1, TaskAssumption DEF Locks
<1>4. i \notin entries
  BY <1>1 DEF Fresh
<1>5. TypeOK'
  BY <1>1 DEF TypeOK
<1>6. Locks'
  BY <1>1, <1>3, TaskAssumption DEF Locks
<1>7. Fresh'
  BY <1>1 DEF Fresh, First
<1>8. Posting'
  BY <1>1, <1>3 DEF Posting
<1>9. DrawsLatest'
  BY <1>1, <1>3 DEF DrawsLatest
<1>10. LatestShown'
  <2>1. \A j \in entries : ~InProgress(j)
    BY <1>3 DEF InProgress, TypeOK
  <2> QED  BY <1>1, <1>2, <2>1 DEF LatestShown, TypeOK
<1>11. EndIsDrawn'
  BY <1>1, <1>2 DEF EndIsDrawn, TypeOK
<1>12. LetIn'
  <2> SUFFICES ASSUME NEW k \in Id, raising'[k] = "free",
                      NEW j \in entries \ revived, NodeOf[j] = NodeOf[k]
               PROVE  stage[j] \in Ended
    BY <1>1 DEF LetIn
  <2>1. k = i
    BY <1>1, <1>3
  <2>2. stage[j] \in Stage /\ stage[j] \notin Going
    BY <1>1, <2>1 DEF Busy, TypeOK
  <2> QED  BY <2>2 DEF Stage
<1>13. OneUnlessRevived'
  BY <1>1 DEF OneUnlessRevived
<1> QED  BY <1>5, <1>6, <1>7, <1>8, <1>9, <1>10, <1>11, <1>12, <1>13

LEMMA RegistersInv ==
  ASSUME SInv, NEW i \in Id, Registers(i)
  PROVE  SInv'
<1> USE DEF SInv
<1>1. /\ raising[i] = "free" /\ raising'[i] = "posting"
      /\ \A j \in Id \ {i} : raising'[j] = raising[j]
      /\ raising' \in [Id -> {"no", "waiting", "free", "refused", "posting", "over"}]
      /\ entries' = entries \cup {i}
      /\ UNCHANGED <<stage, shown, asking, drawing, task, undrawn, revived>>
  BY DEF Registers, TypeOK
<1>2. \A j \in Id : Owed(j)' <=> Owed(j)
  BY <1>1, SameOwed
<1>3. /\ drawing = i
      /\ \A j \in Id \ {i} : raising[j] \notin {"free", "refused", "posting"}
      /\ \A t \in Task : task[t].at # "updating"
  BY <1>1, TaskAssumption DEF Locks
<1>4. i \notin entries /\ i \notin undrawn /\ stage[i] = First(i) /\ shown[i] = "nothing"
  BY <1>1 DEF Fresh, TypeOK
<1>5. First(i) \in Going /\ First(i) \notin Ended
  BY DEF First, Going, Ended
<1>6. TypeOK'
  BY <1>1 DEF TypeOK
<1>7. Locks'
  BY <1>1 DEF Locks
<1>8. Fresh'
  BY <1>1 DEF Fresh, First
<1>9. Posting'
  BY <1>1, <1>3, <1>4 DEF Posting, First
<1>10. DrawsLatest'
  BY <1>1, <1>3 DEF DrawsLatest
<1>11. LatestShown'
  <2>1. InProgress(i)'
    BY <1>1 DEF InProgress
  <2>2. \A j \in entries : ~InProgress(j)
    BY <1>3, <1>4 DEF InProgress, TypeOK
  <2> QED  BY <1>1, <1>2, <2>1, <2>2 DEF LatestShown, TypeOK
<1>12. EndIsDrawn'
  BY <1>1, <1>2, <1>4, <1>5 DEF EndIsDrawn, TypeOK
<1>13. LetIn'
  BY <1>1, <1>3 DEF LetIn
<1>14. OneUnlessRevived'
  <2>1. \A j \in entries \ revived : NodeOf[j] = NodeOf[i] => stage[j] \notin Going
    BY <1>1 DEF LetIn, Going, Ended
  <2> QED  BY <1>1, <2>1 DEF OneUnlessRevived
<1> QED  BY <1>6, <1>7, <1>8, <1>9, <1>10, <1>11, <1>12, <1>13, <1>14

LEMMA AppearsInv ==
  ASSUME SInv, NEW i \in Id, Appears(i)
  PROVE  SInv'
<1> USE DEF SInv
<1>1. /\ raising[i] = "posting" /\ shown'[i] = First(i)
      /\ \A j \in Id \ {i} : shown'[j] = shown[j]
      /\ shown' \in [Id -> Stage \cup {"nothing"}]
      /\ UNCHANGED <<raising, entries, stage, asking, drawing, task, undrawn, revived>>
  <2>1. First(i) \in Stage
    BY DEF First, Stage, Going
  <2> QED  BY <2>1 DEF Appears, TypeOK
<1>2. \A j \in Id : Owed(j)' <=> Owed(j)
  BY <1>1, SameOwed
<1>3. \A j \in Id : InProgress(j)' <=> InProgress(j)
  BY <1>1 DEF InProgress
<1>4. TypeOK'
  BY <1>1 DEF TypeOK
<1>5. Locks'
  BY <1>1 DEF Locks
<1>6. Fresh'
  BY <1>1 DEF Fresh, First
<1>7. Posting'
  BY <1>1, <1>2 DEF Posting, First
<1>8. DrawsLatest'
  BY <1>1, <1>2 DEF DrawsLatest, TypeOK
<1>9. LatestShown'
  <2>1. InProgress(i)
    BY <1>1 DEF InProgress
  <2> QED  BY <1>1, <1>2, <1>3, <2>1 DEF LatestShown, TypeOK
<1>10. EndIsDrawn'
  BY <1>1, <1>2 DEF EndIsDrawn, TypeOK
<1>11. LetIn' /\ OneUnlessRevived'
  BY <1>1 DEF LetIn, OneUnlessRevived
<1> QED  BY <1>4, <1>5, <1>6, <1>7, <1>8, <1>9, <1>10, <1>11

LEMMA RaiseEndsInv ==
  ASSUME SInv, NEW i \in Id, RaiseEnds(i)
  PROVE  SInv'
<1> USE DEF SInv
<1>1. /\ raising[i] \in {"posting", "refused"} /\ raising'[i] = "over"
      /\ \A j \in Id \ {i} : raising'[j] = raising[j]
      /\ raising' \in [Id -> {"no", "waiting", "free", "refused", "posting", "over"}]
      /\ drawing' = Nobody
      /\ \/ raising[i] = "posting" /\ shown[i] # "nothing" /\ entries' = entries
         \/ entries' = entries \ {i}
      /\ asking' \subseteq asking
      /\ UNCHANGED <<stage, shown, task, undrawn, revived>>
  BY DEF RaiseEnds, TypeOK
<1>2. \A j \in Id : Owed(j)' <=> Owed(j)
  BY <1>1, SameOwed
<1>3. /\ drawing = i
      /\ \A j \in Id \ {i} : raising[j] \notin {"free", "refused", "posting"}
      /\ \A t \in Task : task[t].at # "updating"
  BY <1>1, TaskAssumption DEF Locks
<1>4. i \notin undrawn
  BY <1>1 DEF Fresh, Posting, TypeOK
<1>5. entries' \subseteq entries
  BY <1>1
<1>6. TypeOK'
  BY <1>1, <1>4 DEF TypeOK
<1>7. Locks'
  BY <1>1, <1>3, TaskAssumption DEF Locks
<1>8. Fresh'
  BY <1>1, <1>5 DEF Fresh, First
<1>9. Posting'
  BY <1>1, <1>3 DEF Posting
<1>10. DrawsLatest'
  BY <1>1, <1>3 DEF DrawsLatest
<1>11. LatestShown'
  <2> SUFFICES ASSUME NEW j \in entries' \ undrawn, ~Owed(j)
               PROVE  shown[j] = stage[j]
    BY <1>1, <1>2, <1>5 DEF LatestShown, TypeOK
  <2>1. CASE j = i
    BY <2>1, <1>1 DEF Posting, TypeOK
  <2>2. CASE j # i
    <3>1. j \in Id /\ ~InProgress(j)
      BY <2>2, <1>3, <1>5 DEF InProgress, TypeOK
    <3> QED  BY <3>1, <1>5 DEF LatestShown
  <2> QED  BY <2>1, <2>2
<1>12. EndIsDrawn'
  BY <1>1, <1>2, <1>5 DEF EndIsDrawn, TypeOK
<1>13. LetIn'
  BY <1>1, <1>3 DEF LetIn
<1>14. OneUnlessRevived'
  BY <1>1, <1>5 DEF OneUnlessRevived
<1> QED  BY <1>6, <1>7, <1>8, <1>9, <1>10, <1>11, <1>12, <1>13, <1>14

----------------------------------------------------------------------------
(* Reports and clicks *)

(* A handler that moves a sign-in on and is yet to draw it.                *)
LEMMA MovedInv ==
  ASSUME SInv, NEW t \in Task, NEW i \in entries, NEW run \in Handler, NEW to \in Stage,
         raising[i] \in {"posting", "over"},
         task[t].at = "free",
         run.id = i, run.at \in {"answering", "redrawing"},
         task' = [task EXCEPT ![t] = run],
         Moves(i, to), asking' \subseteq asking,
         UNCHANGED <<raising, entries, shown, drawing, undrawn>>
  PROVE  SInv'
<1> USE DEF SInv
<1>1. i \in Id
  BY DEF TypeOK
<1>2. /\ task' \in [Task -> Handler] /\ task'[t] = run
      /\ \A u \in Task \ {t} : task'[u] = task[u]
  BY DEF TypeOK
<1>3. /\ stage' \in [Id -> Stage] /\ stage'[i] = to
      /\ \A j \in Id \ {i} : stage'[j] = stage[j]
  BY <1>1 DEF Moves, TypeOK
<1>4. /\ revived \subseteq revived' /\ revived' \subseteq revived \cup {i}
      /\ stage[i] \in Ended /\ to \in Going => i \in revived'
  BY DEF Moves
<1>5. Owed(i)' /\ \A j \in Id \ {i} : Owed(j)' <=> Owed(j)
  <2>1. Owed(i)'
    BY <1>2 DEF Owed
  <2>2. ASSUME NEW j \in Id \ {i} PROVE Owed(j)' <=> Owed(j)
    BY <1>2 DEF Owed
  <2> QED  BY <2>1, <2>2
<1>6. \A j \in Id : InProgress(j)' <=> InProgress(j)
  <2> SUFFICES ASSUME NEW j \in Id PROVE InProgress(j)' <=> InProgress(j)
    OBVIOUS
  <2> QED  BY <1>2 DEF InProgress
<1>7. stage[i] \in Stage /\ to \in Going \cup Ended /\ stage[i] \in Going \cup Ended
  BY <1>1 DEF TypeOK, Stage
<1>8. TypeOK'
  BY <1>1, <1>2, <1>3, <1>4 DEF TypeOK
<1>9. Locks'
  BY <1>1, <1>2 DEF Locks
<1>10. Fresh'
  BY <1>2, <1>3 DEF Fresh, First
<1>11. Posting'
  BY <1>3, <1>5 DEF Posting, First
<1>12. DrawsLatest'
  <2>1. ASSUME NEW u \in Task, NEW j \in entries,
               task'[u].at = "updating", task'[u].id = j, ~Owed(j)'
        PROVE  task'[u].seen = stage'[j]
    <3>1. u # t /\ j # i /\ task'[u] = task[u] /\ j \in Id
      BY <2>1, <1>2, <1>5 DEF TypeOK
    <3>2. task[u].seen = stage[j]
      BY <2>1, <3>1, <1>5 DEF DrawsLatest
    <3> QED  BY <3>1, <3>2, <1>3
  <2> QED  BY <2>1 DEF DrawsLatest
<1>13. LatestShown'
  BY <1>3, <1>5, <1>6 DEF LatestShown, TypeOK
<1>14. EndIsDrawn'
  BY <1>3, <1>5 DEF EndIsDrawn, TypeOK
<1>15. \A j \in entries \ revived' : /\ stage'[j] \in Going => stage[j] \in Going
                                     /\ stage[j] \in Ended => stage'[j] \in Ended
  BY <1>3, <1>4, <1>7 DEF TypeOK
<1>16. LetIn' /\ OneUnlessRevived'
  BY <1>4, <1>15 DEF LetIn, OneUnlessRevived
<1> QED  BY <1>8, <1>9, <1>10, <1>11, <1>12, <1>13, <1>14, <1>16

(* What enters a task is a handler. *)
LEMMA EntersHandler ==
  ASSUME SInv, NEW t \in Task, NEW i \in Id, NEW of \in {"report", "click"},
         NEW at \in {"answering", "redrawing"}, Enters(t, of, i, at)
  PROVE  /\ task[t].at = "free"
         /\ \E run \in Handler : run.id = i /\ run.at = at /\ task' = [task EXCEPT ![t] = run]
<1> DEFINE run == [task[t] EXCEPT !.of = of, !.id = i, !.at = at]
<1>1. task[t] \in Handler
  BY DEF SInv, TypeOK
<1>2. run \in Handler /\ run.id = i /\ run.at = at
  BY <1>1 DEF Handler
<1>3. task' = [task EXCEPT ![t] = run] /\ task[t].at = "free"
  BY DEF Enters
<1> QED  BY <1>2, <1>3

(* Who is in the list was registered. *)
LEMMA Registered ==
  ASSUME SInv, NEW i \in entries
  PROVE  i \in Id /\ raising[i] \in {"posting", "over"}
  BY DEF SInv, TypeOK, Fresh

LEMMA SettleInv ==
  ASSUME SInv, NEW t \in Task, NEW i \in Id, NEW report \in Report, Settle(t, i, report)
  PROVE  SInv'
<1>1. asking' \subseteq asking /\ UNCHANGED <<raising, entries, shown, drawing, undrawn>>
  BY DEF Settle
<1>2. CASE i \in entries
  <2>1. Enters(t, "report", i, Then(report)) /\ Moves(i, After(i, report))
    BY <1>2 DEF Settle
  <2>2. Then(report) \in {"answering", "redrawing"}
    BY DEF Then
  <2>3. After(i, report) \in Stage
    BY DEF After, Report, Stage, Going, Ended, SInv, TypeOK
  <2> QED  BY <1>1, <1>2, <2>1, <2>2, <2>3, EntersHandler, Registered, MovedInv
<1>3. CASE i \notin entries
  <2>1. UNCHANGED <<task, stage, revived>>
    BY <1>3 DEF Settle
  <2> QED  BY <1>1, <2>1 DEF SInv, TypeOK, Locks, Fresh, First, Posting, DrawsLatest,
               LatestShown, EndIsDrawn, LetIn, OneUnlessRevived, Owed, InProgress
<1> QED  BY <1>2, <1>3

LEMMA ClickInv ==
  ASSUME SInv, NEW t \in Task, NEW i \in Id,
         Approve(t, i) \/ Deny(t, i) \/ SubmitCode(t, i)
  PROVE  SInv'
<1>1. PICK to \in {"starting", "denied", "working"} :
        /\ i \in entries /\ Enters(t, "click", i, "answering") /\ Moves(i, to)
        /\ asking' \subseteq asking
        /\ UNCHANGED <<raising, entries, shown, drawing, undrawn>>
  BY DEF Approve, Deny, SubmitCode
<1>2. to \in Stage
  BY DEF Stage, Going, Ended
<1> QED  BY <1>1, <1>2, EntersHandler, Registered, MovedInv

LEMMA AnsweredInv ==
  ASSUME SInv, NEW t \in Task, Answered(t)
  PROVE  SInv'
<1> USE DEF SInv
<1>1. /\ task[t].at = "answering" /\ task'[t].at = "redrawing"
      /\ task'[t].id = task[t].id
      /\ task' \in [Task -> Handler]
      /\ \A u \in Task \ {t} : task'[u] = task[u]
      /\ UNCHANGED <<raising, entries, stage, shown, asking, drawing, undrawn, revived>>
  BY DEF Answered, TypeOK, Handler
<1>2. \A j \in Id : Owed(j)' <=> Owed(j)
  <2> SUFFICES ASSUME NEW j \in Id PROVE Owed(j)' <=> Owed(j)
    OBVIOUS
  <2> QED  BY <1>1 DEF Owed
<1>3. \A j \in Id : InProgress(j)' <=> InProgress(j)
  <2> SUFFICES ASSUME NEW j \in Id PROVE InProgress(j)' <=> InProgress(j)
    OBVIOUS
  <2> QED  BY <1>1 DEF InProgress
<1>4. TypeOK'
  BY <1>1 DEF TypeOK
<1>5. Locks'
  BY <1>1 DEF Locks
<1>6. Fresh'
  BY <1>1 DEF Fresh, First
<1>7. Posting'
  BY <1>1, <1>2 DEF Posting, First
<1>8. DrawsLatest'
  BY <1>1, <1>2 DEF DrawsLatest, TypeOK
<1>9. LatestShown' /\ EndIsDrawn'
  BY <1>1, <1>2, <1>3 DEF LatestShown, EndIsDrawn, TypeOK
<1>10. LetIn' /\ OneUnlessRevived'
  BY <1>1 DEF LetIn, OneUnlessRevived
<1> QED  BY <1>4, <1>5, <1>6, <1>7, <1>8, <1>9, <1>10

----------------------------------------------------------------------------
(* `redraw` *)

LEMMA RedrawsInv ==
  ASSUME SInv, NEW t \in Task, Redraws(t)
  PROVE  SInv'
<1> USE DEF SInv
<1>0. PICK i \in Id : i = task[t].id
  BY DEF Redraws, Locks
<1>1. /\ task[t].at = "redrawing" /\ i \in Id /\ drawing = Nobody
      /\ undrawn' = undrawn \ {i}
      /\ UNCHANGED <<raising, stage, shown, asking, revived>>
  BY <1>0 DEF Redraws, MayDraw
<1>2. /\ \A j \in Id : raising[j] \notin {"free", "refused", "posting"}
      /\ \A u \in Task : task[u].at # "updating"
  BY <1>1, TaskAssumption DEF Locks
<1>3. entries' \subseteq entries
  BY DEF Redraws, Remaining
<1> DEFINE run == [task[t] EXCEPT !.at = "updating", !.seen = stage[i]]
<1>4. run \in Handler /\ run.at = "updating" /\ run.id = i /\ run.seen = stage[i]
  <2>1. task[t] \in Handler /\ stage[i] \in Stage
    BY <1>1 DEF TypeOK
  <2> QED  BY <1>0, <2>1 DEF Handler
<1>5. Free \in Handler /\ Free.at = "free"
  BY DEF Free, Handler, Stage, Going
<1> HIDE DEF run
<1>6. Fresh' /\ Posting'
  <2>1. \A u \in Task : task'[u].at # "free" => task'[u].id = task[u].id /\ task[u].at # "free"
    <3>1. task' = [task EXCEPT ![t] = run] \/ task' = [task EXCEPT ![t] = Free]
      BY <1>0 DEF Redraws, run
    <3>2. \A u \in Task \ {t} : task'[u] = task[u]
      BY <3>1 DEF TypeOK
    <3>3. task'[t] \in {run, Free}
      BY <3>1 DEF TypeOK
    <3> QED  BY <3>2, <3>3, <1>0, <1>1, <1>4, <1>5
  <2>2. Fresh'
    BY <1>1, <1>3, <2>1 DEF Fresh, First
  <2>3. Posting'
    BY <1>1, <1>2 DEF Posting
  <2> QED  BY <2>2, <2>3
<1>7. LetIn' /\ OneUnlessRevived'
  BY <1>1, <1>2, <1>3 DEF LetIn, OneUnlessRevived
<1>8. CASE i \in entries
  <2>1. /\ drawing' = t /\ entries' = Remaining(i)
        /\ task' \in [Task -> Handler]
        /\ task'[t].at = "updating" /\ task'[t].id = i /\ task'[t].seen = stage[i]
        /\ \A u \in Task \ {t} : task'[u] = task[u]
    <3>1. drawing' = t /\ entries' = Remaining(i) /\ task' = [task EXCEPT ![t] = run]
      BY <1>0, <1>8 DEF Redraws, run
    <3> QED  BY <3>1, <1>4 DEF TypeOK
  <2>2. \A j \in Id \ {i} : (Owed(j)' <=> Owed(j)) /\ InProgress(j)' = InProgress(j)
    <3> SUFFICES ASSUME NEW j \in Id \ {i}
                 PROVE  (Owed(j)' <=> Owed(j)) /\ InProgress(j)' = InProgress(j)
      OBVIOUS
    <3>1. Owed(j)' <=> Owed(j)
      BY <1>0, <1>1, <2>1 DEF Owed
    <3>2. InProgress(j)' = InProgress(j)
      BY <1>0, <1>1, <1>2, <2>1 DEF InProgress
    <3> QED  BY <3>1, <3>2
  <2>3. InProgress(i)'
    BY <2>1 DEF InProgress
  <2>4. i \in entries' => stage[i] \notin Ended
    BY <2>1 DEF Remaining
  <2>5. entries' \ {i} = entries \ {i}
    BY <2>1 DEF Remaining
  <2>6. TypeOK'
    BY <1>1, <1>3, <2>1, <2>5 DEF TypeOK
  <2>7. Locks'
    BY <1>1, <1>2, <2>1, TaskAssumption DEF Locks
  <2>8. DrawsLatest'
    BY <1>1, <1>2, <2>1 DEF DrawsLatest
  <2>9. LatestShown'
    <3>1. ASSUME NEW j \in entries' \ undrawn', ~Owed(j)', ~InProgress(j)'
          PROVE  shown[j] = stage[j]
      <4>1. j # i /\ j \in Id /\ j \in entries \ undrawn
        BY <3>1, <2>3, <1>1, <1>3 DEF TypeOK
      <4> QED  BY <3>1, <4>1, <2>2 DEF LatestShown
    <3> QED  BY <3>1, <1>1 DEF LatestShown
  <2>10. EndIsDrawn'
    BY <1>1, <1>3, <2>2, <2>4 DEF EndIsDrawn, TypeOK
  <2> QED  BY <1>6, <1>7, <2>6, <2>7, <2>8, <2>9, <2>10
<1>9. CASE i \notin entries
  <2>1. /\ task' = [task EXCEPT ![t] = Free] /\ Free \in Handler
        /\ UNCHANGED <<drawing, entries>>
    BY <1>0, <1>1, <1>5, <1>9 DEF Redraws
  <2>2. /\ task' \in [Task -> Handler] /\ task'[t].at = "free"
        /\ \A u \in Task \ {t} : task'[u] = task[u]
    BY <2>1 DEF TypeOK, Free
  <2>3. undrawn' = undrawn
    BY <1>1, <1>9 DEF TypeOK
  <2>4. \A j \in entries : (Owed(j)' <=> Owed(j)) /\ InProgress(j)' = InProgress(j)
    <3> SUFFICES ASSUME NEW j \in entries
                 PROVE  (Owed(j)' <=> Owed(j)) /\ InProgress(j)' = InProgress(j)
      OBVIOUS
    <3>1. Owed(j)' <=> Owed(j)
      BY <1>0, <1>9, <2>2 DEF Owed
    <3>2. InProgress(j)' = InProgress(j)
      BY <1>0, <1>1, <1>9, <2>2 DEF InProgress
    <3> QED  BY <3>1, <3>2
  <2>5. TypeOK'
    BY <1>1, <2>1, <2>2, <2>3 DEF TypeOK
  <2>6. Locks'
    BY <1>1, <1>2, <2>1, <2>2 DEF Locks
  <2>7. DrawsLatest'
    BY <1>2, <2>2 DEF DrawsLatest
  <2>8. LatestShown' /\ EndIsDrawn'
    BY <1>1, <2>1, <2>3, <2>4 DEF LatestShown, EndIsDrawn
  <2> QED  BY <1>6, <1>7, <2>5, <2>6, <2>7, <2>8
<1> QED  BY <1>8, <1>9

LEMMA UpdatedInv ==
  ASSUME SInv, NEW t \in Task, Updated(t)
  PROVE  SInv'
<1> USE DEF SInv
<1> DEFINE i == task[t].id
<1>1. /\ task[t].at = "updating" /\ i \in Id /\ drawing = t /\ drawing' = Nobody
      /\ UNCHANGED <<raising, entries, stage, asking, revived>>
  BY DEF Updated, Locks
<1>2. /\ task' = [task EXCEPT ![t] = Free] /\ Free \in Handler
  BY DEF Updated, Free, Handler, Stage, Going
<1>3. /\ task' \in [Task -> Handler] /\ task'[t].at = "free"
      /\ \A u \in Task \ {t} : task'[u] = task[u]
  BY <1>2 DEF TypeOK, Free
<1>4. /\ \A j \in Id : raising[j] \notin {"free", "refused", "posting"}
      /\ \A u \in Task \ {t} : task[u].at # "updating"
  BY <1>1, TaskAssumption DEF Locks
<1>5. raising[i] = "over"
  BY <1>1, <1>4 DEF Fresh, TypeOK
<1>6. \/ shown' = [shown EXCEPT ![i] = task[t].seen] /\ undrawn' = undrawn
      \/ shown' = shown /\ undrawn' = undrawn \cup ({i} \cap entries)
  BY DEF Updated
<1>7. /\ shown' \in [Id -> Stage \cup {"nothing"}]
      /\ \A j \in Id \ {i} : shown'[j] = shown[j] /\ (j \in undrawn' <=> j \in undrawn)
      /\ undrawn \subseteq undrawn' /\ undrawn' \subseteq entries
      /\ i \in entries \ undrawn' => shown'[i] = task[t].seen
  <2>1. task[t].seen \in Stage
    BY DEF TypeOK, Handler
  <2> QED  BY <1>1, <1>6, <2>1 DEF TypeOK
<1>8. \A j \in Id : Owed(j)' <=> Owed(j)
  <2> SUFFICES ASSUME NEW j \in Id PROVE Owed(j)' <=> Owed(j)
    OBVIOUS
  <2> QED  BY <1>1, <1>3 DEF Owed
<1>9. \A j \in Id \ {i} : ~InProgress(j)
  BY <1>4 DEF InProgress
<1>10. TypeOK'
  BY <1>1, <1>3, <1>7 DEF TypeOK
<1>11. Locks'
  BY <1>1, <1>3, <1>4, TaskAssumption DEF Locks
<1>12. Fresh'
  <2> SUFFICES ASSUME NEW j \in Id, raising[j] \notin {"posting", "over"}
               PROVE  /\ j \notin entries /\ shown'[j] = "nothing" /\ stage[j] = First(j)
                      /\ \A u \in Task : task'[u].at # "free" => task'[u].id # j
    BY <1>1 DEF Fresh, First
  <2>1. j # i
    BY <1>5
  <2> QED  BY <2>1, <1>3, <1>7 DEF Fresh
<1>13. Posting'
  BY <1>1, <1>4 DEF Posting
<1>14. DrawsLatest'
  BY <1>3, <1>4 DEF DrawsLatest
<1>15. LatestShown'
  <2> SUFFICES ASSUME NEW j \in entries \ undrawn', ~Owed(j)
               PROVE  shown'[j] = stage[j]
    BY <1>1, <1>8 DEF LatestShown, TypeOK
  <2>1. CASE j = i
    BY <2>1, <1>1, <1>7 DEF DrawsLatest
  <2>2. CASE j # i
    BY <2>2, <1>7, <1>9 DEF LatestShown, TypeOK
  <2> QED  BY <2>1, <2>2
<1>16. EndIsDrawn'
  BY <1>1, <1>8 DEF EndIsDrawn, TypeOK
<1>17. LetIn' /\ OneUnlessRevived'
  BY <1>1 DEF LetIn, OneUnlessRevived
<1> QED  BY <1>10, <1>11, <1>12, <1>13, <1>14, <1>15, <1>16, <1>17

----------------------------------------------------------------------------
(* Theorems *)

LEMMA InitInv == Init => SInv
<1> SUFFICES ASSUME Init PROVE SInv
  OBVIOUS
<1>1. \A t \in Task : task[t] = Free /\ task[t].at = "free"
  BY DEF Init, Free
<1>2. TypeOK
  BY DEF Init, TypeOK, First, Free, Handler, Stage, Going
<1>3. Locks
  BY <1>1, TaskAssumption DEF Init, Locks
<1>4. Fresh
  BY <1>1 DEF Init, Fresh
<1>5. Posting /\ DrawsLatest /\ LatestShown /\ EndIsDrawn /\ LetIn /\ OneUnlessRevived
  BY DEF Init, Posting, DrawsLatest, LatestShown, EndIsDrawn, LetIn, OneUnlessRevived
<1> QED  BY <1>2, <1>3, <1>4, <1>5 DEF SInv

LEMMA NextInv == SInv /\ [Next]_vars => SInv'
<1> SUFFICES ASSUME SInv, [Next]_vars PROVE SInv'
  OBVIOUS
<1>1. ASSUME NEW i \in Id, Raise(i) \/ RaiseStep(i) PROVE SInv'
  BY <1>1, RaiseInv, RaiseLocksInv, RegistersInv, AppearsInv, RaiseEndsInv DEF RaiseStep
<1>2. ASSUME NEW t \in Task, TaskStep(t) PROVE SInv'
  BY <1>2, AnsweredInv, RedrawsInv, UpdatedInv DEF TaskStep
<1>3. ASSUME NEW t \in Task, NEW i \in Id, NEW report \in Report, Settle(t, i, report)
      PROVE  SInv'
  BY <1>3, SettleInv
<1>4. ASSUME NEW t \in Task, NEW i \in Id,
             Approve(t, i) \/ Deny(t, i) \/ SubmitCode(t, i)
      PROVE  SInv'
  BY <1>4, ClickInv
<1>5. CASE UNCHANGED vars
  BY <1>5 DEF vars, SInv, TypeOK, Locks, Fresh, First, Posting, DrawsLatest,
              LatestShown, EndIsDrawn, LetIn, OneUnlessRevived, Owed, InProgress
<1> QED  BY <1>1, <1>2, <1>3, <1>4, <1>5 DEF Next

LEMMA Invariance == Spec => []SInv
  BY InitInv, NextInv, PTL DEF Spec

(* For any sign-ins, nodes and handlers: however reports, clicks and       *)
(* redraws cross, a card for which no redraw is owed or in progress shows  *)
(* the stage its sign-in is at, unless Slack refused the last redraw.      *)
THEOREM CardShowsLatest == Spec => []LatestShown
<1>1. SInv => LatestShown
  BY DEF SInv
<1> QED  BY <1>1, Invariance, PTL

(* Every variable keeps its type, and a sign-in that ended leaves the list *)
(* with a redraw that is already owed.                                     *)
THEOREM EndsAreDrawn == Spec => []DrawnToTheEnd
<1>1. SInv => DrawnToTheEnd
  BY DEF SInv, DrawnToTheEnd
<1> QED  BY <1>1, Invariance, PTL

(* Two sign-ins of one node go on at a time only after one was revived:    *)
(* that `raise` looks under the lock it posts under is enough for it.      *)
THEOREM OnePerNode == Spec => []OneUnlessRevived
<1>1. SInv => OneUnlessRevived
  BY DEF SInv
<1> QED  BY <1>1, Invariance, PTL
=============================================================================
