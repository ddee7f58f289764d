---------------------------- MODULE CardsProofs ----------------------------
(***************************************************************************)
(* Proofs about Cards, for any calls, runs, people and tools.              *)
(***************************************************************************)
EXTENDS Cards, TLAPS

Early == {"new", "listed", "unlisted", "spawned"}
Live  == {"spawned", "posting", "waiting", "chosen", "listing", "ruling",
          "settling", "leaving"}

(* A choice comes from a click, a click from somebody who may decide, and  *)
(* the entry is gone with the first one.                                   *)
ClickOK(c) ==
  /\ \A k \in clicks[c] : k.by \in Deciders(c) /\ k.choice \in Offered(c)
  /\ \A j, k \in clicks[c] : j = k
  /\ c \in waiting => card[c].at \in {"posting", "waiting", "chosen"} /\ clicks[c] = {}
  /\ card[c].at \in Early => clicks[c] = {}
  /\ card[c].heard \in Choices => \E k \in clicks[c] : k.choice = card[c].heard
  /\ card[c].outcome \in Choices => \E k \in clicks[c] : k.choice = card[c].outcome
  /\ card[c].at = "listing" => card[c].outcome = "always"

(* The card is settled after the node was told, with the same outcome.     *)
RuledOK(c) ==
  /\ card[c].at \notin {"settling", "leaving", "done"} =>
       told[c] = "none" /\ shown[c] \notin Outcomes
  /\ card[c].at = "settling" =>
       told[c] \in {Decision(c, card[c].outcome), "lost"} /\ shown[c] \notin Outcomes
  /\ shown[c] \in Outcomes => told[c] \in {Decision(c, shown[c]), "lost"}
  /\ card[c].at \in {"listed", "unlisted"} => c \notin Question
  /\ card[c].at = "listed" => Listed(c)
  /\ told[c] = "allow" => LetThrough(c)

(* While a card of background work is up, its guard is held, so the work   *)
(* goes on.                                                                *)
StaysOK(c) ==
  RunOf[c] \in Background =>
    /\ card[c].outcome # "dismissed"
    /\ card[c].at \in Live => c \in guarded
    /\ card[c].at \in Live \cup {"listed", "unlisted"} => run[RunOf[c]].on

(* Without failures, what was always allowed is listed before the node is  *)
(* told.                                                                   *)
ListsFirst(c) ==
  (~Faults /\ c \notin Question /\ [by |-> Owner(c), choice |-> "always"] \in clicks[c]) =>
    /\ (card[c].at = "ruling" /\ card[c].outcome = "always") => Listed(c)
    /\ told[c] = "allow" => Listed(c)

CardOK(c) == ClickOK(c) /\ RuledOK(c) /\ StaysOK(c) /\ ListsFirst(c)

(* A tool is listed only by its owner's "always". *)
ListOK ==
  \A o \in User, t \in Tool : <<o, t>> \in whitelist =>
    \E d \in Call \ Question :
      /\ Owner(d) = o
      /\ ToolOf[d] = t
      /\ [by |-> Owner(d), choice |-> "always"] \in clicks[d]

CInv == TypeOK /\ ListOK /\ \A c \in Call : CardOK(c)

----------------------------------------------------------------------------
(* What a step of one call leaves of the others. *)

(* Owners, deciders and tools are what their names say. *)
LEMMA ConstantTypes ==
  ASSUME NEW c \in Call
  PROVE  /\ RunOf[c] \in Run /\ Owner(c) \in User /\ ToolOf[c] \in Tool
         /\ Deciders(c) \subseteq User
         /\ Offered(c) \subseteq Choices
         /\ \A o : Decision(c, o) \in Verdicts \ {"none", "lost"}
  BY CallAssumption, RunAssumption
     DEF Owner, Deciders, Offered, Choices, Decision, Verdicts

(* What let a call through still does when more clicks are taken. *)
LEMMA LetThroughGrows ==
  ASSUME NEW c \in Call, LetThrough(c),
         \A e \in Call : clicks[e] \subseteq clicks'[e]
  PROVE  LetThrough(c)'
  BY DEF LetThrough, Owner

(* A listed tool was let through. *)
LEMMA ListedIsLetThrough ==
  ASSUME CInv, NEW c \in Call, Listed(c)
  PROVE  LetThrough(c)
  BY ConstantTypes DEF CInv, ListOK, Listed, LetThrough

(* A call whose own state a step does not touch stays as it was. *)
LEMMA Untouched ==
  ASSUME NEW d \in Call, CardOK(d),
         card'[d] = card[d], shown'[d] = shown[d],
         clicks'[d] = clicks[d], told'[d] = told[d],
         d \in waiting' <=> d \in waiting,
         d \in guarded => d \in guarded',
         RunOf[d] \in Background => run'[RunOf[d]].on = run[RunOf[d]].on,
         whitelist \subseteq whitelist',
         \A e \in Call : clicks[e] \subseteq clicks'[e]
  PROVE  CardOK(d)'
<1>1. ClickOK(d)'
  BY DEF CardOK, ClickOK, Deciders, Offered, Owner
<1>2. Listed(d) => Listed(d)'
  BY DEF Listed, Owner
<1>3. RuledOK(d)'
  BY <1>2, LetThroughGrows DEF CardOK, RuledOK, Decision
<1>4. StaysOK(d)'
  BY DEF CardOK, StaysOK
<1>5. ListsFirst(d)'
  BY <1>2 DEF CardOK, ListsFirst, Owner
<1> QED  BY <1>1, <1>3, <1>4, <1>5 DEF CardOK

(* The list is explained as long as it does not grow. *)
LEMMA ListStays ==
  ASSUME ListOK, whitelist' = whitelist,
         \A e \in Call : clicks[e] \subseteq clicks'[e]
  PROVE  ListOK'
  BY DEF ListOK, Owner

(* Every step but Lists keeps the list, and every step keeps the clicks.   *)
Quiet(c) ==
  /\ \A d \in Call \ {c} :
       /\ card'[d] = card[d] /\ shown'[d] = shown[d]
       /\ clicks'[d] = clicks[d] /\ told'[d] = told[d]
       /\ d \in waiting' <=> d \in waiting
       /\ d \in guarded => d \in guarded'
  /\ clicks[c] \subseteq clicks'[c]
  /\ run' = run
  /\ whitelist \subseteq whitelist'

(* So a step of one call is safe if it is safe for that call. *)
LEMMA OneCallStep ==
  ASSUME CInv, NEW c \in Call, Quiet(c), TypeOK', ListOK', CardOK(c)'
  PROVE  CInv'
<1>1. \A e \in Call : clicks[e] \subseteq clicks'[e]
  BY DEF Quiet
<1>2. ASSUME NEW d \in Call \ {c} PROVE CardOK(d)'
  <2>1. CardOK(d)
    BY DEF CInv
  <2> QED  BY <1>1, <2>1, Untouched DEF Quiet
<1> QED  BY <1>2 DEF CInv

----------------------------------------------------------------------------
(* The invariant *)

(* Initially there are no cards. *)
LEMMA InitCInv == Init => CInv
<1> SUFFICES ASSUME Init PROVE CInv
  OBVIOUS
<1>1. TypeOK
  BY CallAssumption, RunAssumption
     DEF Init, TypeOK, Task, Flow, Click, Stages, Outcomes, Choices, Decided, NoChoice, Verdicts
<1>2. ListOK
  BY DEF Init, ListOK
<1>3. ASSUME NEW c \in Call PROVE CardOK(c)
  BY <1>3 DEF Init, CardOK, ClickOK, RuledOK, StaysOK, ListsFirst, Early, Live,
     Outcomes, Choices, NoChoice
<1> QED  BY <1>1, <1>2, <1>3 DEF CInv

(* What was said of the clicks on a card holds on, if nothing is clicked   *)
(* and no choice is made but the one that was heard.                       *)
LEMMA ClicksKept ==
  ASSUME NEW c \in Call, ClickOK(c), clicks'[c] = clicks[c],
         card'[c].heard = card[c].heard,
         card'[c].outcome \in Choices =>
           card'[c].outcome \in {card[c].heard, card[c].outcome},
         c \in waiting' => /\ c \in waiting \/ clicks[c] = {}
                           /\ card'[c].at \in {"posting", "waiting", "chosen"},
         card'[c].at \in Early => card[c].at \in Early,
         card'[c].at = "listing" => card'[c].outcome = "always"
  PROVE  ClickOK(c)'
  BY DEF ClickOK, Deciders, Offered, Owner

(* Likewise for what was told and shown. *)
LEMMA RulingKept ==
  ASSUME NEW c \in Call, RuledOK(c), clicks' = clicks, whitelist' = whitelist,
         told'[c] = told[c], shown'[c] = shown[c],
         card[c].at \notin {"settling", "leaving", "done"},
         card'[c].at \notin {"settling", "leaving", "done"},
         card'[c].at \in {"listed", "unlisted"} => c \notin Question,
         card'[c].at = "listed" => Listed(c)
  PROVE  RuledOK(c)'
  BY DEF RuledOK, Listed, LetThrough, Owner, Decision

(* And for the run. *)
LEMMA StayKept ==
  ASSUME NEW c \in Call, StaysOK(c), run' = run, guarded' = guarded,
         card[c].at \in Live, card'[c].outcome # "dismissed"
  PROVE  StaysOK(c)'
  BY DEF StaysOK, Live

(* Raising a card: nothing has been clicked, and the run is on. *)
LEMMA RaisingStep ==
  ASSUME CInv, NEW c \in Call,
         ReadsRules(c) \/ Raise(c) \/ Registers(c) \/ RuleListed(c)
  PROVE  CInv'
<1> USE DEF CInv, CardOK
<1>0. card[c] \in Task /\ RunOf[c] \in Run /\ TypeOK
  BY ConstantTypes DEF TypeOK
<1>1. CASE ReadsRules(c)
  <2>1. TypeOK'
    BY <1>0, <1>1 DEF ReadsRules, TypeOK, Task, Stages, At, Decided
  <2>2. Quiet(c) /\ whitelist' = whitelist /\ clicks' = clicks
    BY <1>0, <1>1 DEF ReadsRules, Quiet, TypeOK
  <2>3. /\ card[c].at = "new" /\ card'[c].at \in {"listed", "unlisted"}
        /\ card'[c].at = "listed" => Listed(c)
        /\ card'[c].heard = card[c].heard /\ card'[c].outcome = card[c].outcome
    BY <1>0, <1>1 DEF ReadsRules, TypeOK, Task, At
  <2>4. ClickOK(c)'
    BY <1>1, <2>2, <2>3, ClicksKept DEF ReadsRules, ClickOK, Early
  <2>5. RuledOK(c)'
    BY <1>1, <2>2, <2>3, RulingKept DEF ReadsRules
  <2>6. StaysOK(c)'
    BY <1>1, <2>3 DEF ReadsRules, StaysOK, Runs, Live
  <2>7. ListsFirst(c)'
    BY <1>1, <2>2, <2>3 DEF ReadsRules, ClickOK, Early, ListsFirst, Owner
  <2> QED  BY <2>1, <2>2, <2>4, <2>5, <2>6, <2>7, ListStays, OneCallStep
<1>2. CASE Raise(c)
  <2>1. TypeOK'
    BY <1>0, <1>2 DEF Raise, TypeOK, Task, Stages, At, Decided, Guarded
  <2>2. Quiet(c) /\ whitelist' = whitelist /\ clicks' = clicks
    BY <1>0, <1>2 DEF Raise, Quiet, TypeOK, Guarded
  <2>3. /\ card[c].at \in Early /\ card'[c].at = "spawned"
        /\ card[c].at \in {"new", "unlisted"}
        /\ card'[c].heard = card[c].heard /\ card'[c].outcome = card[c].outcome
    BY <1>0, <1>2 DEF Raise, TypeOK, Task, At, Early
  <2>4. ClickOK(c)'
    BY <1>2, <2>2, <2>3, ClicksKept DEF Raise, ClickOK, Early
  <2>5. RuledOK(c)'
    BY <1>2, <2>2, <2>3, RulingKept DEF Raise
  <2>6. RunOf[c] \in Background => c \in guarded' /\ run[RunOf[c]].on
    BY <1>2, <2>3, RunAssumption DEF Raise, Guarded, Runs, StaysOK, At
  <2>7. StaysOK(c)'
    BY <1>2, <2>3, <2>6 DEF Raise, StaysOK, Live
  <2>8. ListsFirst(c)'
    BY <1>2, <2>2, <2>3 DEF Raise, ClickOK, ListsFirst, Owner
  <2> QED  BY <2>1, <2>2, <2>4, <2>5, <2>7, <2>8, ListStays, OneCallStep
<1>3. CASE Registers(c)
  <2>1. TypeOK'
    BY <1>0, <1>3 DEF Registers, TypeOK, Task, Stages, At, Decided
  <2>2. Quiet(c) /\ whitelist' = whitelist /\ clicks' = clicks
    BY <1>0, <1>3 DEF Registers, Quiet, TypeOK
  <2>3. /\ card[c].at = "spawned" /\ card'[c].at = "posting"
        /\ card'[c].heard = card[c].heard /\ card'[c].outcome = card[c].outcome
        /\ clicks[c] = {}
    BY <1>0, <1>3 DEF Registers, TypeOK, Task, At, Early, ClickOK
  <2>4. ClickOK(c)'
    BY <1>3, <2>2, <2>3, ClicksKept DEF Registers, Early
  <2>5. RuledOK(c)'
    BY <1>3, <2>2, <2>3, RulingKept DEF Registers
  <2>6. StaysOK(c)'
    BY <1>3, <2>3, StayKept DEF Registers, StaysOK, Live
  <2>7. ListsFirst(c)'
    BY <1>3, <2>2, <2>3 DEF Registers, ListsFirst, Owner
  <2> QED  BY <2>1, <2>2, <2>4, <2>5, <2>6, <2>7, ListStays, OneCallStep
<1>4. CASE RuleListed(c)
  <2>1. TypeOK'
    BY <1>0, <1>4 DEF RuleListed, TypeOK, Task, Stages, At, Decided, Verdicts
  <2>2. Quiet(c) /\ whitelist' = whitelist /\ clicks' = clicks
    BY <1>0, <1>4 DEF RuleListed, Quiet, TypeOK
  <2>3. LetThrough(c)'
    BY <1>0, <1>4, <2>2, ListedIsLetThrough, LetThroughGrows DEF RuleListed, RuledOK, At
  <2>4. /\ card[c].at = "listed" /\ card'[c].at = "done"
        /\ card'[c].heard = card[c].heard /\ card'[c].outcome = card[c].outcome
        /\ clicks[c] = {}
    BY <1>0, <1>4 DEF RuleListed, TypeOK, Task, At, Early, ClickOK
  <2>5. ClickOK(c)'
    BY <1>4, <2>2, <2>4, ClicksKept DEF RuleListed, ClickOK, Early
  <2>6. RuledOK(c)'
    BY <1>4, <2>3, <2>4 DEF RuleListed, RuledOK
  <2>7. StaysOK(c)'
    BY <1>4, <2>4 DEF RuleListed, StaysOK, Live
  <2>8. ListsFirst(c)'
    BY <1>4, <2>2, <2>4 DEF RuleListed, ListsFirst, Owner
  <2> QED  BY <2>1, <2>2, <2>5, <2>6, <2>7, <2>8, ListStays, OneCallStep
<1> QED  BY <1>1, <1>2, <1>3, <1>4

(* Posting: the card is seen, and the task hears of it, or does not. *)
LEMMA PostingStep ==
  ASSUME CInv, NEW c \in Call, Appears(c) \/ Posted(c) \/ PostFails(c)
  PROVE  CInv'
<1> USE DEF CInv, CardOK
<1>0. card[c] \in Task /\ RunOf[c] \in Run /\ TypeOK
  BY ConstantTypes DEF TypeOK
<1>1. CASE Appears(c)
  <2>1. TypeOK'
    BY <1>0, <1>1 DEF Appears, TypeOK, Decided
  <2>2. Quiet(c) /\ whitelist' = whitelist /\ clicks' = clicks
    BY <1>0, <1>1 DEF Appears, Quiet, TypeOK
  <2>3. card' = card /\ shown'[c] = "pending"
    BY <1>0, <1>1 DEF Appears, TypeOK
  <2>4. ClickOK(c)'
    BY <1>1, <2>2, <2>3, ClicksKept DEF Appears, ClickOK
  <2>5. RuledOK(c)'
    BY <1>1, <2>2, <2>3 DEF Appears, RuledOK, Listed, LetThrough, Owner, Decision,
       Outcomes, Choices
  <2>6. StaysOK(c)'
    BY <1>1, <2>3 DEF Appears, StaysOK
  <2>7. ListsFirst(c)'
    BY <1>1, <2>2, <2>3 DEF Appears, ListsFirst, Owner, Listed
  <2> QED  BY <2>1, <2>2, <2>4, <2>5, <2>6, <2>7, ListStays, OneCallStep
<1>2. CASE Posted(c)
  <2>1. TypeOK'
    BY <1>0, <1>2 DEF Posted, TypeOK, Task, Stages, At, Decided
  <2>2. Quiet(c) /\ whitelist' = whitelist /\ clicks' = clicks
    BY <1>0, <1>2 DEF Posted, Quiet, TypeOK
  <2>3. /\ card[c].at = "posting" /\ card'[c].at = "waiting"
        /\ card'[c].heard = card[c].heard /\ card'[c].outcome = card[c].outcome
    BY <1>0, <1>2 DEF Posted, TypeOK, Task, At
  <2>4. ClickOK(c)'
    BY <1>2, <2>2, <2>3, ClicksKept DEF Posted, Early
  <2>5. RuledOK(c)'
    BY <1>2, <2>2, <2>3, RulingKept DEF Posted
  <2>6. StaysOK(c)'
    BY <1>2, <2>3, StayKept DEF Posted, StaysOK, Live
  <2>7. ListsFirst(c)'
    BY <1>2, <2>2, <2>3 DEF Posted, ListsFirst, Owner, Listed
  <2> QED  BY <2>1, <2>2, <2>4, <2>5, <2>6, <2>7, ListStays, OneCallStep
<1>3. CASE PostFails(c)
  <2>1. TypeOK'
    BY <1>0, <1>3 DEF PostFails, TypeOK, Task, Stages, At, Decided, NoChoice, Choices, Outcomes
  <2>2. Quiet(c) /\ whitelist' = whitelist /\ clicks' = clicks
    BY <1>0, <1>3 DEF PostFails, Quiet, TypeOK
  <2>3. /\ card[c].at = "posting" /\ card'[c].at = "chosen"
        /\ card'[c].heard = card[c].heard /\ card'[c].outcome = "unposted"
    BY <1>0, <1>3 DEF PostFails, TypeOK, Task, At
  <2>4. ClickOK(c)'
    BY <1>3, <2>2, <2>3, ClicksKept DEF PostFails, ClickOK, Early, Choices
  <2>5. RuledOK(c)'
    BY <1>3, <2>2, <2>3, RulingKept DEF PostFails
  <2>6. StaysOK(c)'
    BY <1>3, <2>3, StayKept DEF PostFails, Live
  <2>7. ListsFirst(c)'
    BY <1>3 DEF PostFails, ListsFirst
  <2> QED  BY <2>1, <2>2, <2>4, <2>5, <2>6, <2>7, ListStays, OneCallStep
<1> QED  BY <1>1, <1>2, <1>3

(* A click is the first on its card, by somebody who may decide. *)
LEMMA ClickStep ==
  ASSUME CInv, NEW c \in Call, NEW u \in User, NEW choice \in Choices,
         Clicks(c, u, choice)
  PROVE  CInv'
<1> USE DEF CInv, CardOK
<1> DEFINE k == [by |-> u, choice |-> choice]
<1>0. card[c] \in Task /\ RunOf[c] \in Run /\ TypeOK
  BY ConstantTypes DEF TypeOK
<1>1. /\ card[c].at \in {"posting", "waiting", "chosen"}
      /\ card'[c].at = card[c].at
      /\ card'[c].outcome = card[c].outcome
      /\ card'[c].heard \in {choice, card[c].heard}
      /\ clicks[c] = {} /\ clicks'[c] = {k}
  BY <1>0 DEF Clicks, ClickOK, TypeOK, Task
<1>2. k \in Click /\ k.by = u /\ k.choice = choice
  BY DEF Click
<1>3. TypeOK'
  BY <1>0, <1>2 DEF Clicks, Taken, ShownAfterClick, TypeOK, Task, Decided
<1>4. Quiet(c) /\ whitelist' = whitelist /\ told' = told /\ shown' = shown
  BY <1>0, <1>1 DEF Clicks, Taken, ShownAfterClick, Quiet, TypeOK
<1>5. \A e \in Call : clicks[e] \subseteq clicks'[e]
  BY <1>4 DEF Quiet
<1>6. ClickOK(c)'
  BY <1>1, <1>2 DEF Clicks, Taken, ClickOK, Deciders, Offered, Owner, Early
<1>7. RuledOK(c)'
  BY <1>1, <1>4, <1>5, LetThroughGrows DEF Clicks, RuledOK, Decision
<1>8. StaysOK(c)'
  BY <1>1 DEF Clicks, StaysOK
<1>9. ListsFirst(c)'
  BY <1>1, <1>4 DEF ListsFirst, RuledOK, Owner
<1> QED  BY <1>3, <1>4, <1>5, <1>6, <1>7, <1>8, <1>9, ListStays, OneCallStep

(* The wait ends with a click, a timeout or the end of the turn. *)
LEMMA ChoosingStep ==
  ASSUME CInv, NEW c \in Call, Hears(c) \/ TimesOut(c) \/ Dismissed(c)
  PROVE  CInv'
<1> USE DEF CInv, CardOK
<1>0. card[c] \in Task /\ RunOf[c] \in Run /\ TypeOK
  BY ConstantTypes DEF TypeOK
<1>1. PICK outcome \in Outcomes :
        /\ card[c].at = "waiting"
        /\ Chooses(c, outcome)
        /\ outcome \in Choices => outcome = card[c].heard
        /\ outcome = "dismissed" => ~run[RunOf[c]].on
  BY <1>0 DEF Hears, TimesOut, Dismissed, At, Task, Outcomes, Choices, NoChoice
<1>2. TypeOK'
  BY <1>0, <1>1 DEF Chooses, TypeOK, Task, Stages, Decided, NoChoice, Outcomes, Choices
<1>3. Quiet(c) /\ whitelist' = whitelist /\ clicks' = clicks
  BY <1>0, <1>1 DEF Chooses, Quiet, TypeOK
<1>4. /\ card'[c].at = "chosen"
      /\ card'[c].heard = card[c].heard /\ card'[c].outcome = outcome
  BY <1>0, <1>1 DEF Chooses, TypeOK, Task
<1>5. ClickOK(c)'
  <2>1. ClickOK(c) /\ waiting' = waiting /\ clicks'[c] = clicks[c]
    BY <1>1 DEF Chooses
  <2>2. card'[c].at \notin Early /\ card'[c].at # "listing"
    BY <1>4 DEF Early
  <2> QED  BY <1>1, <1>4, <2>1, <2>2, ClicksKept
<1>6. RuledOK(c)'
  BY <1>1, <1>3, <1>4, RulingKept DEF Chooses
<1>7. StaysOK(c)'
  BY <1>1, <1>4 DEF Chooses, StaysOK, Live
<1>8. ListsFirst(c)'
  BY <1>1, <1>3, <1>4 DEF Chooses, ListsFirst, Owner, Listed
<1> QED  BY <1>2, <1>3, <1>5, <1>6, <1>7, <1>8, ListStays, OneCallStep

(* What follows: the entry goes, the list is written, the node is told, the *)
(* card is settled, the guard is dropped.                                   *)
LEMMA ClosingStep ==
  ASSUME CInv, NEW c \in Call,
         Unregisters(c) \/ Lists(c) \/ Rules(c) \/ Settles(c) \/ Leaves(c)
  PROVE  CInv'
<1> USE DEF CInv, CardOK
<1>0. card[c] \in Task /\ RunOf[c] \in Run /\ TypeOK
  BY ConstantTypes DEF TypeOK
<1>1. CASE Unregisters(c)
  <2>1. /\ card[c].at = "chosen"
        /\ card'[c].at = IF card[c].outcome = "always" THEN "listing" ELSE "ruling"
        /\ card'[c].heard = card[c].heard /\ card'[c].outcome = card[c].outcome
    BY <1>0, <1>1 DEF Unregisters, Proceeds, After, TypeOK, Task, At
  <2>2. TypeOK'
    BY <1>0, <1>1, <2>1 DEF Unregisters, Proceeds, After, TypeOK, Task, Stages, At, Decided
  <2>3. Quiet(c) /\ whitelist' = whitelist /\ clicks' = clicks
    BY <1>0, <1>1 DEF Unregisters, Proceeds, Quiet, TypeOK
  <2>4. ClickOK(c)'
    BY <1>1, <2>1, <2>3, ClicksKept DEF Unregisters, Early
  <2>5. RuledOK(c)'
    BY <1>1, <2>1, <2>3, RulingKept DEF Unregisters
  <2>6. StaysOK(c)'
    BY <1>1, <2>1, StayKept DEF Unregisters, StaysOK, Live
  <2>7. ListsFirst(c)'
    BY <1>1, <2>1, <2>3 DEF Unregisters, ListsFirst, RuledOK, Owner
  <2> QED  BY <2>2, <2>3, <2>4, <2>5, <2>6, <2>7, ListStays, OneCallStep
<1>2. CASE Lists(c)
  <2>1. /\ card[c].at = "listing" /\ card'[c].at = "ruling"
        /\ card[c].outcome = "always"
        /\ card'[c].heard = card[c].heard /\ card'[c].outcome = card[c].outcome
    BY <1>0, <1>2 DEF Lists, Proceeds, After, TypeOK, Task, At, ClickOK
  <2>2. TypeOK'
    BY <1>0, <1>2, <2>1, ConstantTypes
       DEF Lists, Proceeds, After, TypeOK, Task, Stages, At, Decided
  <2>3. Quiet(c) /\ clicks' = clicks
    BY <1>0, <1>2 DEF Lists, Proceeds, Quiet, TypeOK
  <2>4. PICK k \in clicks[c] :
          k.choice = "always" /\ k.by \in Deciders(c) /\ k.choice \in Offered(c)
    BY <2>1 DEF ClickOK, Choices
  <2>5. c \notin Question /\ k = [by |-> Owner(c), choice |-> "always"]
    BY <1>0, <2>4 DEF Offered, Deciders, TypeOK, Click
  <2>6. ListOK'
    BY <1>2, <2>3, <2>4, <2>5, ConstantTypes DEF Lists, ListOK, Owner
  <2>7. ClickOK(c)'
    BY <1>2, <2>1, <2>3, ClicksKept DEF Lists, ClickOK, Early
  <2>8. RuledOK(c)'
    BY <1>2, <2>1, <2>3 DEF Lists, RuledOK
  <2>9. StaysOK(c)'
    BY <1>2, <2>1, StayKept DEF Lists, StaysOK, Live
  <2>10. ListsFirst(c)'
    BY <1>2, <2>1, <2>3 DEF Lists, ListsFirst, RuledOK, Listed, Owner
  <2> QED  BY <2>2, <2>3, <2>6, <2>7, <2>8, <2>9, <2>10, OneCallStep
<1>3. CASE Rules(c)
  <2>1. /\ card[c].at = "ruling"
        /\ card'[c].at = IF card[c].outcome = "unposted" THEN "leaving" ELSE "settling"
        /\ card'[c].heard = card[c].heard /\ card'[c].outcome = card[c].outcome
        /\ told'[c] \in {Decision(c, card[c].outcome), "lost"}
    BY <1>0, <1>3 DEF Rules, Proceeds, After, TypeOK, Task, At
  <2>2. TypeOK'
    BY <1>0, <1>3, <2>1, ConstantTypes
       DEF Rules, Proceeds, After, TypeOK, Task, Stages, At, Decided, Verdicts
  <2>3. Quiet(c) /\ whitelist' = whitelist /\ clicks' = clicks /\ shown' = shown
    BY <1>0, <1>3 DEF Rules, Proceeds, Quiet, TypeOK
  <2>4. ClickOK(c)'
    BY <1>3, <2>1, <2>3, ClicksKept DEF Rules, ClickOK, Early
  <2>5. told'[c] = "allow" =>
          card[c].outcome \in {"once", "always"} /\ c \notin Question
    BY <2>1 DEF Decision
  <2>6. told'[c] = "allow" => LetThrough(c)
    <3> SUFFICES ASSUME told'[c] = "allow" PROVE LetThrough(c)
      OBVIOUS
    <3>1. PICK k \in clicks[c] : k.choice = card[c].outcome /\ k.by \in Deciders(c)
      BY <2>5 DEF ClickOK, Choices
    <3> QED  BY <2>5, <3>1 DEF LetThrough, Deciders
  <2>7. RuledOK(c)'
    BY <1>3, <2>1, <2>3, <2>6 DEF RuledOK, LetThrough, Owner, Decision
  <2>8. StaysOK(c)'
    BY <1>3, <2>1, StayKept DEF Rules, StaysOK, Live
  <2>9. ListsFirst(c)'
    <3> SUFFICES ASSUME ~Faults, c \notin Question, told'[c] = "allow",
                        [by |-> Owner(c), choice |-> "always"] \in clicks[c]
                 PROVE  Listed(c)
      BY <2>1, <2>3 DEF ListsFirst, Owner, Listed
    <3>1. card[c].outcome = "always"
      BY <2>5 DEF ClickOK, Choices
    <3> QED  BY <2>1, <3>1 DEF ListsFirst
  <2> QED  BY <2>2, <2>3, <2>4, <2>7, <2>8, <2>9, ListStays, OneCallStep
<1>4. CASE Settles(c)
  <2>1. /\ card[c].at = "settling" /\ card'[c].at = "leaving"
        /\ card'[c].heard = card[c].heard /\ card'[c].outcome = card[c].outcome
        /\ shown'[c] \in {shown[c], card[c].outcome}
    BY <1>0, <1>4 DEF Settles, TypeOK, Task, At
  <2>2. TypeOK'
    BY <1>0, <1>4, <2>1 DEF Settles, TypeOK, Task, Stages, At, Decided, NoChoice
  <2>3. Quiet(c) /\ whitelist' = whitelist /\ clicks' = clicks
    BY <1>0, <1>4 DEF Settles, Quiet, TypeOK
  <2>4. ClickOK(c)'
    BY <1>4, <2>1, <2>3, ClicksKept DEF Settles, ClickOK, Early
  <2>5. RuledOK(c)'
    BY <1>4, <2>1, <2>3 DEF Settles, RuledOK, LetThrough, Owner, Decision
  <2>6. StaysOK(c)'
    BY <1>4, <2>1, StayKept DEF Settles, StaysOK, Live
  <2>7. ListsFirst(c)'
    BY <1>4, <2>1, <2>3 DEF Settles, ListsFirst, Owner, Listed
  <2> QED  BY <2>2, <2>3, <2>4, <2>5, <2>6, <2>7, ListStays, OneCallStep
<1>5. CASE Leaves(c)
  <2>1. /\ card[c].at = "leaving" /\ card'[c].at = "done"
        /\ card'[c].heard = card[c].heard /\ card'[c].outcome = card[c].outcome
    BY <1>0, <1>5 DEF Leaves, TypeOK, Task, At
  <2>2. TypeOK'
    BY <1>0, <1>5 DEF Leaves, Unguarded, TypeOK, Task, Stages, At, Decided
  <2>3. Quiet(c) /\ whitelist' = whitelist /\ clicks' = clicks
    BY <1>0, <1>5 DEF Leaves, Unguarded, Quiet, TypeOK
  <2>4. ClickOK(c)'
    BY <1>5, <2>1, <2>3, ClicksKept DEF Leaves, ClickOK, Early
  <2>5. RuledOK(c)'
    BY <1>5, <2>1, <2>3 DEF Leaves, RuledOK, LetThrough, Owner, Decision
  <2>6. StaysOK(c)'
    BY <1>5, <2>1 DEF Leaves, StaysOK, Live
  <2>7. ListsFirst(c)'
    BY <1>5, <2>1, <2>3 DEF Leaves, ListsFirst, Owner, Listed
  <2> QED  BY <2>2, <2>3, <2>4, <2>5, <2>6, <2>7, ListStays, OneCallStep
<1> QED  BY <1>1, <1>2, <1>3, <1>4, <1>5

(* Background work ends only when no guard is held and no call is being    *)
(* ruled, so when no card of it is up.                                     *)
LEMMA RunEndsStep ==
  ASSUME CInv, NEW r \in Run, RunStep(r)
  PROVE  CInv'
<1> USE DEF CInv, CardOK
<1>1. UNCHANGED <<card, waiting, shown, clicks, told, guarded, whitelist>>
  BY DEF RunStep, AgentCompletes, TurnEnds, BackgroundEnds, IdlesOut, Ends
<1>2. TypeOK'
  BY <1>1 DEF TypeOK, Flow, RunStep, AgentCompletes, TurnEnds, BackgroundEnds,
     IdlesOut, Ends
<1>3. \A s \in Run \ {r} : run'[s] = run[s]
  BY DEF TypeOK, RunStep, AgentCompletes, TurnEnds, BackgroundEnds, IdlesOut, Ends
<1>4. r \in Background =>
        run'[r].on = run[r].on \/ (~Waits(r) /\ ~Held(r))
  BY DEF TypeOK, Flow, RunStep, AgentCompletes, TurnEnds, BackgroundEnds, IdlesOut,
     Ends, Runs
<1>5. ListOK'
  BY <1>1, ListStays
<1>6. ASSUME NEW d \in Call PROVE CardOK(d)'
  <2>1. CASE RunOf[d] \in Background => run'[RunOf[d]].on = run[RunOf[d]].on
    BY <1>1, <2>1, Untouched
  <2>2. CASE ~(RunOf[d] \in Background => run'[RunOf[d]].on = run[RunOf[d]].on)
    <3>1. RunOf[d] = r /\ r \in Background /\ ~Waits(r) /\ ~Held(r)
      BY <1>3, <1>4, <2>2, ConstantTypes
    <3>2. card[d].at \notin Live \cup {"listed", "unlisted"}
      BY <3>1 DEF StaysOK, Waits, Held, TypeOK
    <3>3. StaysOK(d)'
      BY <1>1, <3>2 DEF StaysOK, Live
    <3> QED  BY <1>1, <3>3 DEF ClickOK, RuledOK, ListsFirst, Deciders, Offered,
             Owner, Listed, LetThrough, Decision
  <2> QED  BY <2>1, <2>2
<1> QED  BY <1>2, <1>5, <1>6

(* So every step preserves the invariant. *)
LEMMA NextCInv == CInv /\ [Next]_vars => CInv'
<1> SUFFICES ASSUME CInv, [Next]_vars PROVE CInv'
  OBVIOUS
<1>1. ASSUME NEW c \in Call, CallStep(c) PROVE CInv'
  BY <1>1, RaisingStep, PostingStep, ClickStep, ChoosingStep, ClosingStep
     DEF CallStep, TaskStep
<1>2. ASSUME NEW r \in Run, RunStep(r) PROVE CInv'
  BY <1>2, RunEndsStep
<1>3. CASE UNCHANGED vars
  <2>1. TypeOK' /\ ListOK'
    BY <1>3 DEF vars, CInv, TypeOK, ListOK
  <2>2. ASSUME NEW d \in Call PROVE CardOK(d)'
    BY <1>3, Untouched DEF vars, CInv
  <2> QED  BY <2>1, <2>2 DEF CInv
<1> QED  BY <1>1, <1>2, <1>3 DEF Next

(* The invariant holds throughout. *)
THEOREM Invariance == Spec => []CInv
  BY InitCInv, NextCInv, PTL DEF Spec

----------------------------------------------------------------------------
(* What follows from it *)

(* Every variable keeps its type (the tables and tasks of approval.rs and  *)
(* prompts.rs).                                                            *)
THEOREM TypeCorrect == Spec => []TypeOK
<1>1. CInv => TypeOK
  BY DEF CInv
<1> QED  BY <1>1, Invariance, PTL

(* A tool the node was told it may use was let through by the node's owner *)
(* (approval.rs, `ask` and `click`).                                       *)
THEOREM OnlyOwnersAllow == Spec => []AllowedByOwner
<1>1. CInv => AllowedByOwner
  BY DEF CInv, CardOK, RuledOK, AllowedByOwner
<1> QED  BY <1>1, Invariance, PTL

(* At most one click on a card is taken (`click` removes the entry).       *)
THEOREM OnlyOneClick == Spec => []OneClick
<1>1. CInv => OneClick
  BY DEF CInv, CardOK, ClickOK, OneClick
<1> QED  BY <1>1, Invariance, PTL

(* A settled card shows what the node was told (`ask` and `put` settle     *)
(* last).                                                                  *)
THEOREM CardsTellVerdicts == Spec => []CardTellsVerdict
<1>1. CInv => CardTellsVerdict
  BY DEF CInv, CardOK, RuledOK, CardTellsVerdict
<1> QED  BY <1>1, Invariance, PTL

(* Background work stays up under its cards (chat.rs, `show_background`).  *)
THEOREM BackgroundOutlasts == Spec => []BackgroundStays
<1>1. CInv => BackgroundStays
  BY DEF CInv, CardOK, StaysOK, BackgroundStays
<1> QED  BY <1>1, Invariance, PTL

(* A call is put to its owner only when its tool was not listed. *)
LEMMA AskedUnlisted ==
  ASSUME TypeOK, Next, NEW c \in Call,
         card[c].at = "new", card'[c].at = "unlisted"
  PROVE  ~Listed(c)
<1> USE DEF TypeOK, Task, At
<1>1. ASSUME NEW d \in Call, CallStep(d) PROVE ~Listed(c)
  <2>1. CASE ReadsRules(d)
    BY <2>1 DEF ReadsRules
  <2>2. CASE Raise(d) \/ Registers(d) \/ RuleListed(d) \/ Appears(d)
    BY <2>2 DEF Raise, Registers, RuleListed, Appears
  <2>3. CASE Posted(d) \/ PostFails(d) \/ \E u \in User, choice \in Choices : Clicks(d, u, choice)
    BY <2>3 DEF Posted, PostFails, Clicks
  <2>4. CASE Hears(d) \/ TimesOut(d) \/ Dismissed(d)
    BY <2>4 DEF Hears, TimesOut, Dismissed, Chooses
  <2>5. CASE Unregisters(d) \/ Lists(d) \/ Rules(d)
    BY <2>5 DEF Unregisters, Lists, Rules, Proceeds, After
  <2>6. CASE Settles(d) \/ Leaves(d)
    BY <2>6 DEF Settles, Leaves
  <2> QED  BY <1>1, <2>1, <2>2, <2>3, <2>4, <2>5, <2>6 DEF CallStep, TaskStep
<1>2. ASSUME NEW r \in Run, RunStep(r) PROVE FALSE
  BY <1>2 DEF RunStep, AgentCompletes, TurnEnds, BackgroundEnds, IdlesOut, Ends
<1> QED  BY <1>1, <1>2 DEF Next

(* Without failures an owner who always allows a tool is not asked again   *)
(* (approval.rs: the whitelist is written before the verdict is sent).     *)
THEOREM NeverAskedAgain ==
  ASSUME ~Faults
  PROVE  Spec => NotAskedAgain
<1>1. ASSUME CInv, Next, NEW c \in Call, NEW d \in Call,
             told[d] = "allow",
             [by |-> Owner(d), choice |-> "always"] \in clicks[d],
             Owner(c) = Owner(d), ToolOf[c] = ToolOf[d],
             At(c, "new"), At(c, "unlisted")'
      PROVE  FALSE
  <2>1. d \notin Question
    BY <1>1 DEF CInv, CardOK, ClickOK, Offered
  <2>2. Listed(c)
    BY <1>1, <2>1 DEF CInv, CardOK, ListsFirst, Listed
  <2> QED  BY <1>1, <2>2, AskedUnlisted DEF CInv, At
<1>2. CInv /\ [Next]_vars =>
        [\A c, d \in Call :
           /\ told[d] = "allow"
           /\ [by |-> Owner(d), choice |-> "always"] \in clicks[d]
           /\ Owner(c) = Owner(d)
           /\ ToolOf[c] = ToolOf[d]
           /\ At(c, "new") /\ c \notin Question
           => ~At(c, "unlisted")']_vars
  BY <1>1
<1> QED  BY <1>2, Invariance, PTL DEF Spec, NotAskedAgain
=============================================================================
