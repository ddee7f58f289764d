---------------------------- MODULE LeaseProofs ----------------------------
(***************************************************************************)
(* Proofs about Lease, for any number of gateways, any lease and any       *)
(* delay.                                                                  *)
(***************************************************************************)
EXTENDS Lease, TLAPS

----------------------------------------------------------------------------
(* Clearing the pins takes as long as an await, or longer. *)
LEMMA ClearingNat == Clearing \in Nat /\ Delay <= Clearing
<1>1. Clears \in Nat /\ Clears >= 1 /\ Delay \in Nat
  BY ClearsAssumption, DelayAssumption
<1>2. Clears * Delay \in Nat /\ Delay <= Clears * Delay
  BY <1>1
<1> QED  BY <1>2 DEF Clearing

(* Clocks stay in range. *)
LEMMA AtMostType ==
  ASSUME NEW n \in Nat, NEW limit \in Nat
  PROVE  AtMost(n, limit) \in 0 .. limit
  BY DEF AtMost

(* A process set to a stage with a wait is a process. *)
LEMMA StandingType ==
  ASSUME NEW stage \in Stages, NEW wait \in Int
  PROVE  Standing(stage, wait) \in Process
  BY PollAssumption, DelayAssumption, ClearingNat
     DEF Standing, Process, Ttl, Overdue

(* The stages, and the groups the actions name, are what they are. *)
LEMMA StageTypes ==
  /\ {"polling", "failed", "reading", "claiming", "clearing", "connecting",
      "leading", "renewing", "releasing", "down"} = Stages
  /\ Sleeps \subseteq Stages /\ Reigns \subseteq Stages
  BY DEF Stages, Sleeps, Contends, Reigns

(* A gateway that enters a stage stays a process. *)
LEMMA EnterType ==
  ASSUME TypeOK, NEW g \in Gateway, NEW stage \in Stages, NEW wait \in Int,
         Enter(g, stage, wait)
  PROVE  gw' \in [Gateway -> Process]
  BY StandingType DEF Enter, TypeOK

(* What the steps of a gateway do to its process leaves it a process. *)
LEMMA ZeroFlight == 0 \in 0 .. Clearing /\ 0 \in 0 .. Ttl /\ 0 \in 0 .. Overdue
  BY PollAssumption, DelayAssumption, ClearingNat DEF Ttl, Overdue

(* What an await's answer changes of a process leaves it one. *)
LEMMA EditTypes ==
  ASSUME NEW p \in Process, NEW stage \in Stages, NEW wait \in Int,
         NEW after \in {"polling", "failed", "down"},
         NEW reply \in {"none", "applied", "conflict"}
  PROVE  /\ [p EXCEPT !.at = stage, !.flight = 0, !.reply = "none"] \in Process
         /\ [p EXCEPT !.at = stage, !.flight = 0, !.reply = "none", !.since = 0] \in Process
         /\ [p EXCEPT !.at = stage, !.flight = 0, !.wait = wait] \in Process
         /\ [p EXCEPT !.at = stage, !.flight = 0, !.reply = "none", !.wait = wait] \in Process
         /\ [p EXCEPT !.at = stage, !.flight = 0, !.reply = "none", !.after = after] \in Process
         /\ [p EXCEPT !.reply = reply] \in Process
         /\ [p EXCEPT !.reply = reply, !.held = 0] \in Process
  BY ZeroFlight DEF Process

(* A step that moves g on keeps every process's type. *)
LEMMA TurnType ==
  ASSUME TypeOK, NEW g \in Gateway, NEW stage \in Stages, Turn(g, stage)
  PROVE  gw' \in [Gateway -> Process]
<1>1. gw[g] \in Process
  BY DEF TypeOK
<1>2. gw' = [gw EXCEPT ![g] = [gw[g] EXCEPT !.at = stage, !.flight = 0, !.reply = "none"]]
  BY DEF Turn
<1>3. [gw[g] EXCEPT !.at = stage, !.flight = 0, !.reply = "none"] \in Process
  BY <1>1, ZeroFlight DEF Process
<1> QED  BY <1>2, <1>3 DEF TypeOK

(* The write a gateway leaves behind is a write. *)
LEMMA LeftType ==
  ASSUME NEW g \in Gateway
  PROVE  Left(g) \subseteq Write
<1>1. \A b \in BOOLEAN : [holder |-> g, release |-> b] \in Write
  BY DEF Write
<1>2. At(g, "releasing") \in BOOLEAN
  BY DEF At
<1> QED  BY <1>1, <1>2 DEF Left

(* A clock that is not due has one more unit to run. *)
LEMMA OlderType ==
  ASSUME NEW p \in Process, p.at \in Awaits => p.flight < AtLongest(p.at)
  PROVE  Older(p) \in Process
<1>1. /\ p.wait \in Int /\ p.flight \in 0 .. Clearing /\ p.since \in 0 .. Ttl
      /\ p.held \in 0 .. Overdue
  BY DEF Process
<1>2. /\ Ttl \in Nat /\ Overdue \in Nat /\ Delay \in Nat
      /\ Clearing \in Nat /\ Delay <= Clearing
  BY PollAssumption, DelayAssumption, ClearingNat DEF Ttl, Overdue
<1>3. AtMost(p.since + 1, Ttl) \in 0 .. Ttl /\ AtMost(p.held + 1, Overdue) \in 0 .. Overdue
  BY <1>1, <1>2 DEF AtMost
<1> DEFINE wait   == IF p.at \in Sleeps \cup {"leading", "renewing"} THEN p.wait - 1 ELSE p.wait
           flight == IF p.at \in Awaits THEN p.flight + 1 ELSE p.flight
           since  == IF p.at \in {"connecting", "leading", "renewing"}
                       THEN AtMost(p.since + 1, Ttl) ELSE p.since
           held   == IF p.at \in Reigns \cup {"claiming"} THEN AtMost(p.held + 1, Overdue) ELSE p.held
<1>4. wait \in Int /\ flight \in 0 .. Clearing /\ since \in 0 .. Ttl /\ held \in 0 .. Overdue
  BY <1>1, <1>2, <1>3 DEF AtLongest
<1>5. Older(p) = [p EXCEPT !.wait = wait, !.flight = flight, !.since = since, !.held = held]
  BY DEF Older
<1> HIDE DEF wait, flight, since, held
<1>6. [p EXCEPT !.wait = wait, !.flight = flight, !.since = since, !.held = held] \in Process
  BY <1>4 DEF Process
<1> QED  BY <1>5, <1>6

----------------------------------------------------------------------------
(* Every variable has its type at the start. *)
LEMMA InitType == Init => TypeOK
<1>1. Ttl \in Nat
  BY PollAssumption DEF Ttl
<1>2. Standing("polling", 0) \in Process
  BY StandingType, StageTypes
<1> QED  BY <1>1, <1>2 DEF Init, TypeOK, Document, Write, NoVacancy

(* The durations are natural numbers. *)
LEMMA OverdueNat == Ttl \in Nat \ {0} /\ Overdue \in Nat \ {0} /\ Delay \in Nat
  BY PollAssumption, DelayAssumption, ClearingNat DEF Ttl, Overdue

(* Every action leaves every variable in its type. *)
LEMMA ProceedsType ==
  ASSUME TypeOK, NEW g \in Gateway, Proceeds(g)
  PROVE  TypeOK'
<1> USE StageTypes
<1>1. gw[g] \in Process /\ NextTick(gw[g].wait) \in Int /\ 0 \in Int /\ Poll \in Int
      /\ AfterFailure \in Int
  BY PollAssumption, DelayAssumption DEF TypeOK, Process, NextTick
<1>2. lease \in Document /\ current \subseteq Gateway /\ strays \subseteq Write
      /\ gw \in [Gateway -> Process] /\ vacant \in {NoVacancy} \cup 0 .. Overdue
  BY DEF TypeOK
<1>3. HeldBy(g) \in Document /\ [lease EXCEPT !.released = TRUE] \in Document
  <2>1. HeldBy(g) \in Document
    BY ZeroFlight DEF HeldBy, Document
  <2>2. [lease EXCEPT !.released = TRUE] \in Document
    BY <1>2 DEF Document
  <2> QED  BY <2>1, <2>2
<1>4. ASSUME NEW p \in Process, gw' = [gw EXCEPT ![g] = p]
      PROVE  gw' \in [Gateway -> Process]
  BY <1>2, <1>4
<1>5. CASE Commits(g)
  <2>1. gw' = [gw EXCEPT ![g] = [gw[g] EXCEPT !.reply = "applied", !.held = 0]]
    BY <1>5 DEF Commits
  <2> QED  BY <2>1, <1>1, <1>2, <1>3, <1>4, <1>5, EditTypes DEF Commits, TypeOK
<1>6. CASE CommitsRelease(g)
  <2>1. gw' = [gw EXCEPT ![g] = [gw[g] EXCEPT !.reply = "applied"]]
    BY <1>6 DEF CommitsRelease
  <2> QED  BY <2>1, <1>1, <1>2, <1>3, <1>4, <1>6, EditTypes DEF CommitsRelease, TypeOK
<1>7. CASE Conflicts(g)
  <2>1. gw' = [gw EXCEPT ![g] = [gw[g] EXCEPT !.reply = "conflict"]]
    BY <1>7 DEF Conflicts
  <2> QED  BY <2>1, <1>1, <1>2, <1>4, <1>7, EditTypes DEF Conflicts, TypeOK
<1>8. CASE Contend(g) \/ ReadFree(g) \/ Won(g)
  <2>1. PICK stage \in Stages : Turn(g, stage)
    BY <1>8 DEF Contend, ReadFree, Won
  <2>2. gw' \in [Gateway -> Process]
    BY <2>1, TurnType
  <2> QED  BY <2>2, <1>2, <1>8 DEF Contend, ReadFree, Won, TypeOK
<1>9. CASE ReadHeld(g) \/ LostRace(g) \/ RenewRefused(g) \/ Released(g) \/ StandsBy(g)
  <2>1. PICK stage \in Stages, wait \in Int : Enter(g, stage, wait)
    BY <1>1, <1>9 DEF ReadHeld, LostRace, RenewRefused, Released, StandsBy
  <2>2. gw' \in [Gateway -> Process]
    BY <2>1, EnterType
  <2> QED  BY <2>2, <1>2, <1>9 DEF ReadHeld, LostRace, RenewRefused, Released, StandsBy, TypeOK
<1>10. CASE Cleared(g) \/ Renewed(g)
  <2>1. PICK stage \in {"connecting", "leading"} :
          gw' = [gw EXCEPT ![g].at = stage, ![g].flight = 0, ![g].reply = "none",
                           ![g].since = 0]
    BY <1>10 DEF Cleared, Renewed
  <2>2. [gw[g] EXCEPT !.at = stage, !.flight = 0, !.reply = "none", !.since = 0] \in Process
    BY <1>1, ZeroFlight DEF Process
  <2>3. gw' \in [Gateway -> Process]
    BY <2>1, <2>2, <1>2
  <2> QED  BY <2>3, <1>2, <1>10 DEF Cleared, Renewed, TypeOK
<1>11. CASE Connected(g)
  <2>1. gw' = [gw EXCEPT ![g] = [gw[g] EXCEPT !.at = "leading", !.flight = 0, !.wait = Poll]]
    BY <1>11 DEF Connected
  <2>2. gw' \in [Gateway -> Process]
    BY <2>1, <1>1, <1>4, EditTypes
  <2> QED  BY <2>2, <1>2, <1>11 DEF Connected, TypeOK
<1>12. CASE RenewDue(g)
  <2>1. gw' = [gw EXCEPT ![g] = [gw[g] EXCEPT !.at = "renewing", !.flight = 0, !.reply = "none",
                                              !.wait = NextTick(gw[g].wait)]]
    BY <1>12 DEF RenewDue
  <2>2. gw' \in [Gateway -> Process]
    BY <2>1, <1>1, <1>4, EditTypes
  <2> QED  BY <2>2, <1>2, <1>12 DEF RenewDue, TypeOK
<1>13. CASE Stops(g)
  <2>1. gw' \in [Gateway -> Process]
    BY <1>13, EnterType DEF Stops, Ends
  <2>2. [lease EXCEPT !.holder = IF @ = g THEN Gone ELSE @] \in Document
    BY <1>2 DEF Document
  <2>3. \A w \in Write : [w EXCEPT !.holder = IF @ = g THEN Gone ELSE @] \in Write
    BY DEF Write
  <2>4. /\ lease' \in Document /\ current' \subseteq Gateway /\ strays' \subseteq Write
    BY <1>2, <1>13, <2>2, <2>3, LeftType DEF Stops, Ends
  <2> QED  BY <2>1, <2>4, <1>13 DEF Stops, TypeOK
<1> QED
  BY <1>5, <1>6, <1>7, <1>8, <1>9, <1>10, <1>11, <1>12, <1>13 DEF Proceeds

(* The end of a process leaves every variable but `vacant` in its type. *)
LEMMA EndsType ==
  ASSUME TypeOK, NEW g \in Gateway, Ends(g)
  PROVE  /\ lease' \in Document /\ current' \subseteq Gateway /\ strays' \subseteq Write
         /\ gw' \in [Gateway -> Process]
<1>1. gw' \in [Gateway -> Process]
  BY EnterType, StageTypes DEF Ends
<1>2. lease \in Document /\ current \subseteq Gateway /\ strays \subseteq Write
  BY DEF TypeOK
<1>3. [lease EXCEPT !.holder = IF @ = g THEN Gone ELSE @] \in Document
  BY <1>2 DEF Document
<1>4. \A w \in Write : [w EXCEPT !.holder = IF @ = g THEN Gone ELSE @] \in Write
  BY DEF Write
<1> QED  BY <1>1, <1>2, <1>3, <1>4, LeftType DEF Ends

(* Failures, deaths, exits and starts keep every variable's type. *)
LEMMA FaultsType ==
  ASSUME TypeOK, NEW g \in Gateway,
         \/ ReadErrs(g) \/ ClaimErrs(g) \/ RenewErrs(g) \/ ReleaseErrs(g)
         \/ ConnectFails(g) \/ SocketEnds(g) \/ ShutsDown(g)
         \/ Dies(g) \/ Exits(g) \/ Starts(g)
  PROVE  TypeOK'
<1> USE StageTypes
<1>1. gw[g] \in Process /\ 0 \in Int /\ Poll \in Int /\ AfterFailure \in Int
  BY PollAssumption, DelayAssumption DEF TypeOK
<1>2. lease \in Document /\ current \subseteq Gateway /\ strays \subseteq Write
      /\ gw \in [Gateway -> Process] /\ vacant \in {NoVacancy} \cup 0 .. Overdue
  BY DEF TypeOK
<1>3. CASE ReadErrs(g) \/ ClaimErrs(g) \/ ReleaseErrs(g) \/ Starts(g)
  <2>1. PICK stage \in Stages, wait \in Int : Enter(g, stage, wait)
    BY <1>1, <1>3 DEF ReadErrs, ClaimErrs, ReleaseErrs, Starts
  <2>2. gw' \in [Gateway -> Process]
    BY <2>1, EnterType
  <2> QED  BY <2>2, <1>2, <1>3, LeftType DEF ReadErrs, ClaimErrs, ReleaseErrs, Starts, TypeOK
<1>4. CASE RenewErrs(g)
  <2>1. gw' \in [Gateway -> Process]
    BY <1>1, <1>4, EnterType, TurnType DEF RenewErrs
  <2>2. current' \subseteq Gateway /\ strays' \subseteq Write
    BY <1>2, <1>4, LeftType DEF RenewErrs, StillCurrent
  <2> QED  BY <2>1, <2>2, <1>2, <1>4 DEF RenewErrs, TypeOK
<1>5. CASE ConnectFails(g) \/ SocketEnds(g) \/ ShutsDown(g)
  <2>1. PICK after \in {"failed", "down"} : Releases(g, after)
    BY <1>5 DEF ConnectFails, SocketEnds, ShutsDown
  <2>2. [gw[g] EXCEPT !.at = "releasing", !.flight = 0, !.reply = "none", !.after = after]
          \in Process
    BY <1>1, ZeroFlight DEF Process
  <2>3. gw' \in [Gateway -> Process]
    BY <2>1, <2>2, <1>2 DEF Releases
  <2> QED  BY <2>1, <2>3, <1>2 DEF Releases, TypeOK
<1>6. CASE Dies(g)
  BY <1>6, EndsType, ZeroFlight DEF Dies, TypeOK
<1>7. CASE Exits(g)
  BY <1>7, EndsType DEF Exits, TypeOK
<1> QED  BY <1>3, <1>4, <1>5, <1>6, <1>7

(* So does a late write that lands. *)
LEMMA StrayType ==
  ASSUME TypeOK, NEW w \in strays, StrayLands(w)
  PROVE  TypeOK'
<1>1. lease \in Document /\ w \in Write
  BY DEF TypeOK
<1>2. [lease EXCEPT !.released = TRUE] \in Document
  BY <1>1 DEF Document
<1>3. HeldBy(w.holder) \in Document
  BY <1>1, ZeroFlight DEF HeldBy, Write, Document
<1> QED  BY <1>2, <1>3 DEF StrayLands, TypeOK

(* So does the passing of time: every clock stops at its limit. *)
LEMMA TickType ==
  ASSUME TypeOK, Tick
  PROVE  TypeOK'
<1>1. lease \in Document /\ gw \in [Gateway -> Process] /\ vacant \in {NoVacancy} \cup 0 .. Overdue
  BY DEF TypeOK
<1>2. lease.age \in Nat
  BY <1>1, OverdueNat DEF Document
<1>3. AtMost(lease.age + 1, Ttl) \in 0 .. Ttl
  BY <1>2, OverdueNat, AtMostType
<1>4. lease' \in Document
  BY <1>1, <1>3 DEF Tick, Document
<1>5. ASSUME NEW g \in Gateway
      PROVE  Older(gw[g]) \in Process
  <2>1. gw[g] \in Process /\ ~Due(g)
    BY <1>1 DEF Tick
  <2>2. gw[g].flight \in 0 .. Clearing /\ AtLongest(gw[g].at) \in Nat
    BY <2>1, OverdueNat, ClearingNat DEF Process, AtLongest
  <2>3. gw[g].at \in Awaits => gw[g].flight < AtLongest(gw[g].at)
    BY <2>1, <2>2, ClearingNat DEF Due
  <2> QED  BY <2>1, <2>3, OlderType
<1>6. gw' \in [Gateway -> Process]
  BY <1>5 DEF Tick
<1>7. vacant' \in {NoVacancy} \cup 0 .. Overdue
  <2>1. CASE vacant = NoVacancy
    BY <2>1 DEF Tick
  <2>2. CASE vacant # NoVacancy
    <3>1. vacant + 1 \in Nat
      BY <1>1, <2>2, OverdueNat
    <3> QED  BY <3>1, <2>2, OverdueNat, AtMostType DEF Tick
  <2> QED  BY <2>1, <2>2
<1> QED  BY <1>1, <1>4, <1>6, <1>7 DEF Tick, TypeOK

(* No step takes a variable out of its type. *)
LEMMA NextType == TypeOK /\ [Next]_vars => TypeOK'
<1>1. ASSUME TypeOK, UNCHANGED vars
      PROVE  TypeOK'
  BY <1>1 DEF vars, TypeOK
<1> QED  BY <1>1, ProceedsType, FaultsType, StrayType, TickType DEF Next

(* Every value a variable takes is of its type. *)
THEOREM TypeCorrect == Spec => []TypeOK
  BY InitType, NextType, PTL DEF Spec

----------------------------------------------------------------------------
(* Who may write the document, and why *)

Own(g) == lease.holder = g /\ ~lease.released

(* A gateway knows the document's version only while it claims, and may,   *)
(* or reigns over a document that is its own.                              *)
Entitled(g) ==
  \/ At(g, "claiming") /\ gw[g].reply = "none" /\ MayClaim(g)
  \/ At(g, "claiming") /\ gw[g].reply = "applied" /\ Own(g)
  \/ At(g, "claiming") /\ gw[g].reply = "conflict"
  \/ gw[g].at \in Reigns /\ Own(g)

(* A write that may still land was sent by one who might write, and the    *)
(* document has not been written since.                                    *)
StrayEntitled(w) == w.release \/ Free \/ lease.holder = w.holder

LInv == TypeOK /\ (\A g \in current : Entitled(g)) /\ (\A w \in strays : StrayEntitled(w))

(* At the start nobody knows the document's version and nothing is pending. *)
LEMMA InitLInv == Init => LInv
  BY InitType DEF Init, LInv

(* What g may do is not disturbed by others that leave the document alone, *)
(* nor by the document's growing older.                                    *)
LEMMA Undisturbed ==
  ASSUME NEW g \in Gateway, Entitled(g),
         gw'[g].at = gw[g].at, gw'[g].reply = gw[g].reply,
         lease'.released = lease.released, lease'.holder = lease.holder,
         Free => Free'
  PROVE  Entitled(g)'
  BY DEF Entitled, Own, MayClaim, At

(* A pending write stays entitled while the document's holder is the same. *)
LEMMA StrayUndisturbed ==
  ASSUME NEW w, StrayEntitled(w), lease'.holder = lease.holder, Free => Free'
  PROVE  StrayEntitled(w)'
  BY DEF StrayEntitled

(* A step of g that leaves the document alone, and lets g know its version *)
(* or leave a write behind only if it may.                                 *)
LEMMA QuietStep ==
  ASSUME LInv, NEW g \in Gateway, NEW p, gw' = [gw EXCEPT ![g] = p], lease' = lease,
         current' \subseteq current \cup {g}, g \in current' => Entitled(g)',
         strays' \subseteq strays \cup Left(g)
  PROVE  (\A h \in current' : Entitled(h)') /\ (\A w \in strays' : StrayEntitled(w)')
<1>1. /\ current \subseteq Gateway
      /\ gw \in [Gateway -> Process]
  BY DEF LInv, TypeOK
<1>2. Free => Free'
  BY DEF Free
<1>3. ASSUME NEW h \in current', h # g
      PROVE  Entitled(h)'
  BY <1>1, <1>2, <1>3, Undisturbed DEF LInv
<1>4. ASSUME NEW w \in Left(g)
      PROVE  StrayEntitled(w)
  <2>1. /\ g \in current /\ gw[g].at \in {"claiming", "renewing", "releasing"}
        /\ gw[g].reply = "none"
        /\ w = [holder |-> g, release |-> At(g, "releasing")]
    BY <1>4 DEF Left, Holds
  <2>2. Entitled(g)
    BY <2>1 DEF LInv
  <2> QED  BY <2>1, <2>2 DEF Entitled, StrayEntitled, MayClaim, Own, At
<1>5. ASSUME NEW w \in strays'
      PROVE  StrayEntitled(w)'
  <2>1. StrayEntitled(w)
    BY <1>4, <1>5 DEF LInv
  <2> QED  BY <2>1, <1>2, StrayUndisturbed
<1> QED  BY <1>3, <1>5

(* The end of g: its document and its writes go on in nobody's name. *)
LEMMA EndStep ==
  ASSUME LInv, NEW g \in Gateway, Ends(g)
  PROVE  (\A h \in current' : Entitled(h)') /\ (\A w \in strays' : StrayEntitled(w)')
<1>1. /\ lease \in Document /\ current \subseteq Gateway /\ gw \in [Gateway -> Process]
      /\ strays \subseteq Write
  BY DEF LInv, TypeOK
<1> DEFINE gone(h) == IF h = g THEN Gone ELSE h
<1>2. /\ lease'.holder = gone(lease.holder) /\ lease'.released = lease.released
      /\ lease'.age = lease.age
  BY <1>1 DEF Ends, Document
<1>3. Free' <=> Free
  BY <1>2 DEF Free
<1>4. ASSUME NEW h \in current'
      PROVE  Entitled(h)'
  <2>1. h \in current /\ h # g /\ h \in Gateway /\ gw'[h] = gw[h]
    BY <1>1, <1>4 DEF Ends, Enter
  <2>2. lease'.holder = h <=> lease.holder = h
    BY <1>2, <2>1, GoneAssumption
  <2>3. Entitled(h)
    BY <2>1 DEF LInv
  <2> QED  BY <2>1, <2>2, <2>3, <1>2, <1>3 DEF Entitled, Own, MayClaim, At
<1>5. ASSUME NEW w \in strays \cup Left(g)
      PROVE  StrayEntitled(w) /\ w \in Write
  <2>1. CASE w \in strays
    BY <2>1, <1>1 DEF LInv
  <2>2. CASE w \in Left(g)
    <3>1. /\ g \in current /\ gw[g].at \in {"claiming", "renewing", "releasing"}
          /\ gw[g].reply = "none"
          /\ w = [holder |-> g, release |-> At(g, "releasing")]
      BY <2>2 DEF Left, Holds
    <3>2. Entitled(g)
      BY <3>1 DEF LInv
    <3> QED  BY <3>1, <3>2, <2>2, LeftType DEF Entitled, StrayEntitled, MayClaim, Own, At
  <2> QED  BY <1>5, <2>1, <2>2
<1>6. ASSUME NEW v \in strays'
      PROVE  StrayEntitled(v)'
  <2>1. PICK w \in strays \cup Left(g) : v = [w EXCEPT !.holder = gone(@)]
    BY <1>6 DEF Ends
  <2>2. w \in Write /\ StrayEntitled(w)
    BY <1>5
  <2>3. v.holder = gone(w.holder) /\ v.release = w.release
    BY <2>1, <2>2 DEF Write
  <2> QED  BY <2>2, <2>3, <1>2, <1>3 DEF StrayEntitled
<1> QED  BY <1>4, <1>6

(* Every step keeps the invariant. *)
LEMMA NextLInv == LInv /\ [Next]_vars => LInv'
<1> SUFFICES ASSUME LInv, [Next]_vars
             PROVE  (\A g \in current' : Entitled(g)') /\ (\A w \in strays' : StrayEntitled(w)')
  BY NextType DEF LInv
<1>1. /\ lease \in Document /\ current \subseteq Gateway /\ gw \in [Gateway -> Process]
      /\ strays \subseteq Write
  BY DEF LInv, TypeOK
<1>2. ASSUME NEW g \in Gateway, g \in current
      PROVE  Entitled(g)
  BY <1>2 DEF LInv
<1>3. CASE UNCHANGED vars
  BY <1>3 DEF vars, LInv, Entitled, StrayEntitled, Own, MayClaim, Free, At
<1>4. ASSUME NEW g \in Gateway, NEW stage, NEW wait, Enter(g, stage, wait), lease' = lease,
             current' \subseteq current \ {g}, strays' \subseteq strays \cup Left(g)
      PROVE  (\A h \in current' : Entitled(h)') /\ (\A w \in strays' : StrayEntitled(w)')
  BY <1>4, QuietStep DEF Enter
<1>5. ASSUME NEW g \in Gateway, NEW stage \in Reigns, gw[g].at \in Reigns,
             \E p : gw' = [gw EXCEPT ![g] = p] /\ p.at = stage,
             lease' = lease, current' \subseteq current, strays' \subseteq strays \cup Left(g)
      PROVE  (\A h \in current' : Entitled(h)') /\ (\A w \in strays' : StrayEntitled(w)')
  <2>1. PICK p : gw' = [gw EXCEPT ![g] = p] /\ p.at = stage
    BY <1>5
  <2>2. g \in current' => Entitled(g)'
    BY <2>1, <1>1, <1>2, <1>5 DEF Entitled, Own, At, Reigns
  <2> QED  BY <2>1, <2>2, <1>5, QuietStep
<1>6. ASSUME NEW g \in Gateway, Proceeds(g)
      PROVE  (\A h \in current' : Entitled(h)') /\ (\A w \in strays' : StrayEntitled(w)')
  <2>1. CASE Commits(g)
    <3>1. gw'[g].at \in {"claiming", "renewing"} /\ gw'[g].reply = "applied"
      BY <2>1, <1>1 DEF Commits, Process
    <3> QED  BY <3>1, <2>1 DEF Commits, HeldBy, Entitled, Own, At, Reigns
  <2>2. CASE CommitsRelease(g)
    BY <2>2 DEF CommitsRelease
  <2>3. CASE Conflicts(g)
    <3>1. gw' = [gw EXCEPT ![g] = [gw[g] EXCEPT !.reply = "conflict"]]
      BY <2>3 DEF Conflicts
    <3>2. gw'[g].at = gw[g].at /\ gw'[g].reply = "conflict"
      BY <3>1, <1>1 DEF Process
    <3>3. g \in current => Entitled(g)'
      BY <3>2, <2>3, <1>2 DEF Conflicts, Entitled, Own, At, Reigns
    <3> QED  BY <3>1, <3>3, <2>3, QuietStep DEF Conflicts
  <2>4. CASE Contend(g)
    <3>1. g \notin current
      BY <2>4, <1>2 DEF Contend, Entitled, At, Reigns
    <3>2. gw' = [gw EXCEPT ![g] = [gw[g] EXCEPT !.at = "reading", !.flight = 0, !.reply = "none"]]
      BY <2>4 DEF Contend, Turn
    <3> QED  BY <3>1, <3>2, <2>4, QuietStep DEF Contend
  <2>5. CASE ReadFree(g)
    <3>1. gw' = [gw EXCEPT ![g] = [gw[g] EXCEPT !.at = "claiming", !.flight = 0, !.reply = "none"]]
      BY <2>5 DEF ReadFree, Turn
    <3>2. gw'[g].at = "claiming" /\ gw'[g].reply = "none"
      BY <3>1, <1>1 DEF Process
    <3>3. Entitled(g)'
      BY <3>2, <2>5 DEF ReadFree, Entitled, MayClaim, Free, At
    <3> QED  BY <3>1, <3>3, <2>5, QuietStep DEF ReadFree
  <2>6. CASE ReadHeld(g) \/ LostRace(g) \/ RenewRefused(g) \/ Released(g) \/ StandsBy(g)
    <3>1. g \in current' => gw[g].at \in {"reading", "failed"}
      BY <2>6 DEF ReadHeld, LostRace, RenewRefused, Released, StandsBy, At
    <3>2. g \notin current'
      BY <3>1, <2>6, <1>2
         DEF ReadHeld, LostRace, RenewRefused, Released, StandsBy, Entitled, At, Reigns
    <3> QED
      BY <3>2, <2>6, <1>4 DEF ReadHeld, LostRace, RenewRefused, Released, StandsBy
  <2>7. CASE Won(g)
    <3>1. gw' = [gw EXCEPT ![g] = [gw[g] EXCEPT !.at = "clearing", !.flight = 0, !.reply = "none"]]
      BY <2>7 DEF Won, Turn
    <3>2. gw'[g].at = "clearing"
      BY <3>1, <1>1 DEF Process
    <3>3. g \in current => Own(g)
      BY <2>7, <1>2 DEF Won, Entitled, At, Reigns
    <3>4. g \in current => Entitled(g)'
      BY <3>2, <3>3, <2>7 DEF Won, Entitled, Own, Reigns
    <3> QED  BY <3>1, <3>4, <2>7, QuietStep DEF Won
  <2>8. CASE Cleared(g) \/ Connected(g) \/ RenewDue(g) \/ Renewed(g)
    <3>1. gw[g].at \in Reigns /\ lease' = lease /\ current' = current /\ strays' = strays
      BY <2>8 DEF Cleared, Connected, RenewDue, Renewed, At, Reigns
    <3>2. gw'[g].at \in Reigns /\ gw' = [gw EXCEPT ![g] = gw'[g]]
      BY <2>8, <1>1 DEF Cleared, Connected, RenewDue, Renewed, Reigns, Process
    <3> QED  BY <3>1, <3>2, <1>5
  <2>9. CASE Stops(g)
    BY <2>9, EndStep DEF Stops
  <2> QED
    BY <1>6, <2>1, <2>2, <2>3, <2>4, <2>5, <2>6, <2>7, <2>8, <2>9 DEF Proceeds
<1>7. ASSUME NEW g \in Gateway,
             \/ ReadErrs(g) \/ ClaimErrs(g) \/ RenewErrs(g) \/ ReleaseErrs(g)
             \/ ConnectFails(g) \/ SocketEnds(g) \/ ShutsDown(g)
             \/ Dies(g) \/ Exits(g) \/ Starts(g)
      PROVE  (\A h \in current' : Entitled(h)') /\ (\A w \in strays' : StrayEntitled(w)')
  <2>1. CASE ReadErrs(g) \/ ClaimErrs(g) \/ ReleaseErrs(g) \/ Starts(g)
    <3>1. g \notin current'
      BY <2>1, <1>2 DEF ReadErrs, ClaimErrs, ReleaseErrs, Starts, Entitled, At, Reigns
    <3> QED  BY <3>1, <2>1, <1>4 DEF ReadErrs, ClaimErrs, ReleaseErrs, Starts
  <2>2. CASE RenewErrs(g)
    <3>1. CASE GivesUp(g)
      BY <3>1, <2>2, <1>4 DEF RenewErrs
    <3>2. CASE ~GivesUp(g)
      <4>1. gw' = [gw EXCEPT ![g] = [gw[g] EXCEPT !.at = "leading", !.flight = 0, !.reply = "none"]]
        BY <3>2, <2>2 DEF RenewErrs, Turn
      <4>2. [gw[g] EXCEPT !.at = "leading", !.flight = 0, !.reply = "none"].at = "leading"
        BY <1>1 DEF Process
      <4> QED
        BY <4>1, <4>2, <3>2, <2>2, <1>5 DEF RenewErrs, StillCurrent, Reigns, At
    <3> QED  BY <3>1, <3>2
  <2>3. CASE ConnectFails(g) \/ SocketEnds(g) \/ ShutsDown(g)
    <3>1. PICK after : Releases(g, after)
      BY <2>3 DEF ConnectFails, SocketEnds, ShutsDown
    <3>2. gw'[g].at \in Reigns /\ gw' = [gw EXCEPT ![g] = gw'[g]]
      BY <3>1, <1>1 DEF Releases, Reigns, Process
    <3>3. gw[g].at \in Reigns
      BY <2>3 DEF ConnectFails, SocketEnds, ShutsDown, At, Reigns
    <3> QED  BY <3>1, <3>2, <3>3, <1>5 DEF Releases
  <2>4. CASE Dies(g) \/ Exits(g)
    BY <2>4, EndStep DEF Dies, Exits
  <2> QED  BY <1>7, <2>1, <2>2, <2>3, <2>4
<1>8. ASSUME NEW w \in strays, StrayLands(w)
      PROVE  (\A h \in current' : Entitled(h)') /\ (\A v \in strays' : StrayEntitled(v)')
  BY <1>8 DEF StrayLands
<1>9. CASE Tick
  <2>1. /\ lease'.holder = lease.holder /\ lease'.released = lease.released
        /\ lease'.age = AtMost(lease.age + 1, Ttl)
    BY <1>9, <1>1 DEF Tick, Document
  <2>2. Free => Free'
    BY <2>1, <1>1, OverdueNat DEF Free, AtMost, Document
  <2>3. ASSUME NEW g \in current'
        PROVE  Entitled(g)'
    <3>1. g \in Gateway /\ Entitled(g) /\ gw'[g] = Older(gw[g]) /\ gw[g] \in Process
      BY <1>1, <1>2, <1>9 DEF Tick
    <3>2. gw'[g].at = gw[g].at /\ gw'[g].reply = gw[g].reply
      BY <3>1 DEF Older, Process
    <3> QED  BY <3>1, <3>2, <2>1, <2>2, Undisturbed
  <2> QED  BY <2>1, <2>2, <2>3, <1>9, StrayUndisturbed DEF Tick, LInv
<1> QED  BY <1>3, <1>6, <1>7, <1>8, <1>9 DEF Next

(* LInv holds in every state: who can write the lease may do so. *)
THEOREM Invariance == Spec => []LInv
  BY InitLInv, NextLInv, PTL DEF Spec

(* A leader the store still would listen to is the one the document names. *)
THEOREM LeaderFenced == Spec => []Fenced
<1>1. LInv => Fenced
  BY DEF LInv, Fenced, Holds, Entitled, Own, At, Reigns
<1> QED  BY <1>1, Invariance, PTL

(* A step that gives the lease to another gateway finds it free. *)
LEMMA NoTheftStep ==
  ASSUME LInv, [Next]_vars, lease'.holder # lease.holder, lease'.holder # Gone
  PROVE  Free
<1>1. /\ lease \in Document /\ current \subseteq Gateway /\ strays \subseteq Write
  BY DEF LInv, TypeOK
<1>2. \A g \in Gateway : Ends(g) => lease'.holder \in {lease.holder, Gone}
  BY <1>1 DEF Ends, Document
<1>3. ASSUME NEW g \in Gateway, Commits(g)
      PROVE  Free
  <2>1. Entitled(g)
    BY <1>3 DEF Commits, Holds, LInv
  <2> QED  BY <2>1, <1>3 DEF Commits, HeldBy, Entitled, MayClaim, Own, At, Reigns
<1>4. ASSUME NEW w \in strays, StrayLands(w)
      PROVE  Free
  <2>1. StrayEntitled(w)
    BY DEF LInv
  <2> QED  BY <2>1, <1>1, <1>4 DEF StrayLands, StrayEntitled, HeldBy, Document
<1>5. ASSUME NEW g \in Gateway, CommitsRelease(g)
      PROVE  lease'.holder = lease.holder
  BY <1>1, <1>5 DEF CommitsRelease, Document
<1>6. Tick => lease'.holder = lease.holder
  BY <1>1 DEF Tick, Document
<1>7. ASSUME NEW g \in Gateway, Proceeds(g), ~Commits(g), ~CommitsRelease(g), ~Stops(g)
      PROVE  lease' = lease
  BY <1>7 DEF Proceeds, Contend, ReadFree, ReadHeld, Won, LostRace, Cleared, Connected,
       RenewDue, Renewed, RenewRefused, Released, StandsBy, Conflicts
<1>8. ASSUME NEW g \in Gateway,
             \/ ReadErrs(g) \/ ClaimErrs(g) \/ RenewErrs(g) \/ ReleaseErrs(g)
             \/ ConnectFails(g) \/ SocketEnds(g) \/ ShutsDown(g) \/ Starts(g)
      PROVE  lease' = lease
  BY <1>8 DEF ReadErrs, ClaimErrs, RenewErrs, ReleaseErrs, ConnectFails, SocketEnds,
       ShutsDown, Releases, Starts
<1> QED
  BY <1>2, <1>3, <1>4, <1>5, <1>6, <1>7, <1>8 DEF Next, vars, Stops, Dies, Exits

(* The lease changes hands only when it is released or has expired. *)
THEOREM NeverStolen == Spec => NoTheft
<1>1. LInv /\ [Next]_vars => [lease'.holder # lease.holder /\ lease'.holder # Gone => Free]_vars
  BY NoTheftStep
<1> QED  BY <1>1, Invariance, PTL DEF Spec, NoTheft

----------------------------------------------------------------------------
(* One process's clocks *)

(* What a step makes of a process p that it moves, or lets grow older. *)
Moves(p, q) ==
  \/ \E stage \in {"polling", "failed", "down"}, wait \in Int : q = Standing(stage, wait)
  \/ \E after : q = [p EXCEPT !.at = "releasing", !.flight = 0, !.reply = "none",
                              !.after = after]
  \/ p.at = "polling" /\ q = [p EXCEPT !.at = "reading", !.flight = 0, !.reply = "none"]
  \/ p.at = "reading" /\ q = [p EXCEPT !.at = "claiming", !.flight = 0, !.reply = "none"]
  \/ p.at = "claiming" /\ q = [p EXCEPT !.at = "clearing", !.flight = 0, !.reply = "none"]
  \/ q = [p EXCEPT !.reply = "conflict"]
  \/ p.at = "releasing" /\ q = [p EXCEPT !.reply = "applied"]
  \/ p.at \in {"claiming", "renewing"} /\ q = [p EXCEPT !.reply = "applied", !.held = 0]
  \/ p.at = "clearing" /\ q = [p EXCEPT !.at = "connecting", !.flight = 0,
                                        !.reply = "none", !.since = 0]
  \/ p.at = "connecting" /\ q = [p EXCEPT !.at = "leading", !.flight = 0, !.wait = Poll]
  \/ /\ p.at = "leading" /\ p.wait <= 0
     /\ q = [p EXCEPT !.at = "renewing", !.flight = 0, !.reply = "none",
                      !.wait = NextTick(p.wait)]
  \/ /\ p.at = "renewing" /\ p.reply = "applied"
     /\ q = [p EXCEPT !.at = "leading", !.flight = 0, !.reply = "none", !.since = 0]
  \/ /\ Faults /\ p.at = "renewing" /\ ~(p.since >= StepDown)
     /\ q = [p EXCEPT !.at = "leading", !.flight = 0, !.reply = "none"]

GrowsOlder(p, q) ==
  /\ q = Older(p)
  /\ p.at \in Awaits => p.flight < AtLongest(p.at)
  /\ p.at = "leading" => p.wait > 0

(* A step of one gateway moves its process and leaves the others alone. *)
LEMMA OneMoves ==
  ASSUME TypeOK, NEW g \in Gateway,
         \/ Proceeds(g)
         \/ ReadErrs(g) \/ ClaimErrs(g) \/ RenewErrs(g) \/ ReleaseErrs(g)
         \/ ConnectFails(g) \/ SocketEnds(g) \/ ShutsDown(g)
         \/ Dies(g) \/ Exits(g) \/ Starts(g)
  PROVE  \E q : gw' = [gw EXCEPT ![g] = q] /\ Moves(gw[g], q)
<1> DEFINE p == gw[g]
<1>1. Poll \in Int /\ AfterFailure \in Int /\ 0 \in Int
  BY PollAssumption, DelayAssumption
<1>2. CASE Contend(g) \/ ReadFree(g) \/ Won(g)
  <2>1. PICK stage : /\ gw' = [gw EXCEPT ![g] = [p EXCEPT !.at = stage, !.flight = 0,
                                                          !.reply = "none"]]
                     /\ \/ p.at = "polling" /\ stage = "reading"
                        \/ p.at = "reading" /\ stage = "claiming"
                        \/ p.at = "claiming" /\ stage = "clearing"
    BY <1>2 DEF Contend, ReadFree, Won, Turn, At
  <2>2. Moves(p, [p EXCEPT !.at = stage, !.flight = 0, !.reply = "none"])
    BY <2>1 DEF Moves
  <2> QED  BY <2>1, <2>2
<1>3. CASE \/ ReadHeld(g) \/ LostRace(g) \/ RenewRefused(g) \/ Released(g) \/ StandsBy(g)
           \/ Stops(g) \/ ReadErrs(g) \/ ClaimErrs(g) \/ ReleaseErrs(g) \/ Dies(g)
           \/ Exits(g) \/ Starts(g) \/ (RenewErrs(g) /\ GivesUp(g))
  <2>1. PICK stage \in {"polling", "failed", "down"}, wait \in Int : Enter(g, stage, wait)
    BY <1>1, <1>3 DEF ReadHeld, LostRace, RenewRefused, Released, StandsBy, Stops, ReadErrs,
         ClaimErrs, ReleaseErrs, Dies, Exits, Starts, RenewErrs, Ends
  <2> QED  BY <2>1 DEF Enter, Moves
<1>4. CASE Commits(g) \/ CommitsRelease(g) \/ Conflicts(g)
  <2>1. CASE Commits(g)
    <3>1. gw' = [gw EXCEPT ![g] = [p EXCEPT !.reply = "applied", !.held = 0]]
      BY <2>1 DEF Commits
    <3> QED  BY <2>1, <3>1 DEF Commits, Moves
  <2>2. CASE CommitsRelease(g)
    <3>1. gw' = [gw EXCEPT ![g] = [p EXCEPT !.reply = "applied"]]
      BY <2>2 DEF CommitsRelease
    <3> QED  BY <2>2, <3>1 DEF CommitsRelease, Moves, At
  <2>3. CASE Conflicts(g)
    <3>1. gw' = [gw EXCEPT ![g] = [p EXCEPT !.reply = "conflict"]]
      BY <2>3 DEF Conflicts
    <3> QED  BY <3>1 DEF Moves
  <2> QED  BY <1>4, <2>1, <2>2, <2>3
<1>5. CASE Cleared(g)
  <2>1. gw' = [gw EXCEPT ![g] = [p EXCEPT !.at = "connecting", !.flight = 0,
                                          !.reply = "none", !.since = 0]]
    BY <1>5 DEF Cleared
  <2> QED  BY <1>5, <2>1 DEF Cleared, Moves, At
<1>6. CASE Connected(g)
  <2>1. gw' = [gw EXCEPT ![g] = [p EXCEPT !.at = "leading", !.flight = 0, !.wait = Poll]]
    BY <1>6 DEF Connected
  <2> QED  BY <1>6, <2>1 DEF Connected, Moves, At
<1>7. CASE RenewDue(g)
  <2>1. gw' = [gw EXCEPT ![g] = [p EXCEPT !.at = "renewing", !.flight = 0, !.reply = "none",
                                          !.wait = NextTick(p.wait)]]
    BY <1>7 DEF RenewDue
  <2> QED  BY <1>7, <2>1 DEF RenewDue, Moves, At
<1>8. CASE Renewed(g)
  <2>1. gw' = [gw EXCEPT ![g] = [p EXCEPT !.at = "leading", !.flight = 0, !.reply = "none",
                                          !.since = 0]]
    BY <1>8 DEF Renewed
  <2> QED  BY <1>8, <2>1 DEF Renewed, Moves, At
<1>9. CASE RenewErrs(g) /\ ~GivesUp(g)
  <2>1. gw' = [gw EXCEPT ![g] = [p EXCEPT !.at = "leading", !.flight = 0, !.reply = "none"]]
    BY <1>9 DEF RenewErrs, Turn
  <2> QED  BY <1>9, <2>1 DEF RenewErrs, GivesUp, Moves, At
<1>10. CASE ConnectFails(g) \/ SocketEnds(g) \/ ShutsDown(g)
  <2>1. PICK after : gw' = [gw EXCEPT ![g] = [p EXCEPT !.at = "releasing", !.flight = 0,
                                                       !.reply = "none", !.after = after]]
    BY <1>10 DEF ConnectFails, SocketEnds, ShutsDown, Releases
  <2> QED  BY <2>1 DEF Moves
<1> QED
  BY <1>2, <1>3, <1>4, <1>5, <1>6, <1>7, <1>8, <1>9, <1>10 DEF Proceeds

(* A step moves one process, lets all grow older, or touches none. *)
LEMMA ProcessStep ==
  ASSUME TypeOK, [Next]_vars, NEW g \in Gateway
  PROVE  gw'[g] = gw[g] \/ Moves(gw[g], gw'[g]) \/ GrowsOlder(gw[g], gw'[g])
<1>1. gw \in [Gateway -> Process]
  BY DEF TypeOK
<1>2. CASE UNCHANGED vars \/ \E w \in strays : StrayLands(w)
  BY <1>2 DEF vars, StrayLands
<1>3. CASE Tick
  <2>1. gw'[g] = Older(gw[g]) /\ ~Due(g)
    BY <1>3 DEF Tick
  <2>2. gw[g].wait \in Int /\ gw[g].flight \in Nat /\ AtLongest(gw[g].at) \in Nat
    BY <1>1, DelayAssumption, ClearingNat DEF Process, AtLongest
  <2> QED  BY <2>1, <2>2 DEF GrowsOlder, Due
<1>4. ASSUME NEW h \in Gateway, NEW q, gw' = [gw EXCEPT ![h] = q], Moves(gw[h], q)
      PROVE  gw'[g] = gw[g] \/ Moves(gw[g], gw'[g])
  BY <1>1, <1>4
<1> QED  BY <1>2, <1>3, <1>4, OneMoves DEF Next

(* The parts of a process, and the durations. *)
LEMMA ProcessParts ==
  ASSUME NEW p \in Process
  PROVE  /\ p.at \in Stages /\ p.wait \in Int /\ p.reply \in {"none", "applied", "conflict"}
         /\ p.flight \in Nat /\ p.flight <= Clearing /\ Clearing \in Nat /\ Delay <= Clearing
         /\ p.since \in Nat /\ p.since <= Ttl /\ p.held \in Nat /\ p.held <= Overdue
         /\ Poll \in Nat \ {0} /\ Delay \in Nat /\ Ttl = 3 * Poll /\ Overdue \in Nat
  BY PollAssumption, DelayAssumption, ClearingNat DEF Process, Ttl, Overdue

(* A process's parts, a unit of time later. *)
LEMMA OlderParts ==
  ASSUME NEW p \in Process, NEW q, GrowsOlder(p, q)
  PROVE  /\ q.at = p.at /\ q.reply = p.reply
         /\ p.at \in Awaits => q.flight = p.flight + 1 /\ q.flight <= AtLongest(p.at)
         /\ p.at \notin Awaits => q.flight = p.flight
         /\ p.at \in {"leading", "renewing"} => q.wait = p.wait - 1
         /\ p.at \in {"polling", "failed", "reading"} => q.held = p.held
         /\ q.held \in Nat /\ q.held <= p.held + 1
         /\ p.at \in {"connecting", "leading", "renewing"} =>
              q.since = p.since + 1 \/ q.since = Ttl
<1>1. /\ p.since \in Nat /\ p.held \in Nat /\ Overdue \in Nat /\ Ttl \in Nat
  BY ProcessParts, OverdueNat
<1>2. /\ q.at = p.at /\ q.reply = p.reply
      /\ q.wait = IF p.at \in Sleeps \cup {"leading", "renewing"} THEN p.wait - 1 ELSE p.wait
      /\ q.flight = IF p.at \in Awaits THEN p.flight + 1 ELSE p.flight
      /\ q.since = IF p.at \in {"connecting", "leading", "renewing"}
                     THEN AtMost(p.since + 1, Ttl) ELSE p.since
      /\ q.held = IF p.at \in Reigns \cup {"claiming"} THEN AtMost(p.held + 1, Overdue) ELSE p.held
  BY DEF GrowsOlder, Older, Process
<1>3. AtMost(p.held + 1, Overdue) \in Nat /\ AtMost(p.held + 1, Overdue) <= p.held + 1
  BY <1>1 DEF AtMost
<1>4. AtMost(p.since + 1, Ttl) \in {p.since + 1, Ttl}
  BY DEF AtMost
<1>5. q.held \in Nat /\ q.held <= p.held + 1
  BY <1>1, <1>2, <1>3
<1>6. p.at \in {"polling", "failed", "reading"} => p.at \notin Reigns \cup {"claiming"}
  BY DEF Reigns
<1>7. p.at \in Awaits => q.flight = p.flight + 1 /\ q.flight <= AtLongest(p.at)
  BY <1>2, ProcessParts DEF GrowsOlder, AtLongest
<1> QED  BY <1>2, <1>4, <1>5, <1>6, <1>7

(* A process's await is within its limit. *)
InTime(p) == p.at # "clearing" => p.flight <= Delay

(* It is at the start of an await, and stays so. *)
LEMMA StepInTime ==
  ASSUME NEW p \in Process, InTime(p), NEW q, Moves(p, q) \/ GrowsOlder(p, q)
  PROVE  InTime(q)
<1>1. /\ p.flight \in Nat /\ Delay \in Nat /\ 0 <= Delay
  BY ProcessParts
<1>2. ASSUME NEW stage, NEW wait, q = Standing(stage, wait)
      PROVE  InTime(q)
  BY <1>1, <1>2 DEF InTime, Standing
<1>3. CASE q.flight = 0
  BY <1>1, <1>3 DEF InTime
<1>4. CASE GrowsOlder(p, q)
  BY <1>1, <1>4, OlderParts DEF InTime, AtLongest
<1>5. CASE \/ q = [p EXCEPT !.reply = "conflict"]
           \/ q = [p EXCEPT !.reply = "applied"]
           \/ q = [p EXCEPT !.reply = "applied", !.held = 0]
  BY <1>5 DEF InTime, Process
<1>6. ASSUME Moves(p, q)
      PROVE  \/ \E stage, wait : q = Standing(stage, wait)
             \/ q.flight = 0
             \/ q = [p EXCEPT !.reply = "conflict"]
             \/ q = [p EXCEPT !.reply = "applied"]
             \/ q = [p EXCEPT !.reply = "applied", !.held = 0]
  BY <1>6 DEF Moves, Process
<1> QED  BY <1>2, <1>3, <1>4, <1>5, <1>6

----------------------------------------------------------------------------
(* A gateway that serves while its last write is younger than a lease is   *)
(* the one the lease names, whatever fails, is delayed or lands late.      *)

(* g's claim was written, or g reigns and has not begun to release. *)
Settled(g) ==
  \/ At(g, "claiming") /\ gw[g].reply = "applied"
  \/ gw[g].at \in {"clearing", "connecting", "leading", "renewing"}

Young(g) == Settled(g) /\ gw[g].held < Ttl

(* The document is g's and not older than g's last write, and what may     *)
(* still land is a renewal of g's.                                         *)
Granted(g) ==
  /\ Own(g) /\ lease.age <= gw[g].held
  /\ \A w \in strays : w.holder = g /\ ~w.release

YInv == LInv /\ \A g \in Gateway : Young(g) => Granted(g)

(* Nobody may take the lease of a gateway that is settled and young. *)
LEMMA YoungHolds ==
  ASSUME YInv, NEW g \in Gateway, Young(g)
  PROVE  ~Free /\ Own(g) /\ lease.age \in Nat /\ lease.age <= gw[g].held
<1>1. lease \in Document /\ gw[g] \in Process /\ Granted(g)
  BY DEF YInv, LInv, TypeOK
<1>2. lease.age \in Nat /\ gw[g].held \in Nat /\ Ttl \in Nat
  BY <1>1, OverdueNat DEF Document, Process
<1> QED  BY <1>1, <1>2 DEF Granted, Own, Free, Young

(* Nobody else can write it, *)
LEMMA YoungAlone ==
  ASSUME YInv, NEW g \in Gateway, Young(g), NEW h \in current,
         At(h, "claiming") => gw[h].reply = "none"
  PROVE  h = g
<1>1. ~Free /\ Own(g) /\ Entitled(h)
  BY YoungHolds DEF YInv, LInv
<1> QED  BY <1>1 DEF Entitled, MayClaim, Own, At

(* or leaves a write behind, and g leaves a renewal at most. *)
LEMMA YoungLeft ==
  ASSUME YInv, NEW g \in Gateway, Young(g), NEW h \in Gateway, NEW w \in Left(h)
  PROVE  h = g /\ w.holder = g /\ (At(g, "renewing") => ~w.release)
<1>1. /\ h \in current /\ gw[h].reply = "none"
      /\ w = [holder |-> h, release |-> At(h, "releasing")]
  BY DEF Left, Holds
<1>2. h = g
  BY <1>1, YoungAlone
<1> QED  BY <1>1, <1>2 DEF At

(* What leaves the document and g's last write alone keeps what is g's. *)
LEMMA YoungElsewhere ==
  ASSUME YInv, NEW g \in Gateway, Young(g), gw'[g].held = gw[g].held,
         lease'.holder = lease.holder, lease'.released = lease.released,
         lease'.age = lease.age,
         \A w \in strays' : w \in strays \/ (w.holder = g /\ ~w.release)
  PROVE  Granted(g)'
  BY DEF YInv, Granted, Own

(* A step of another gateway that leaves the document alone is one. *)
LEMMA YoungOther ==
  ASSUME YInv, NEW g \in Gateway, Young(g)', NEW h \in Gateway, h # g, NEW q,
         gw' = [gw EXCEPT ![h] = q], lease' = lease, strays' \subseteq strays \cup Left(h)
  PROVE  Granted(g)'
<1>1. gw'[g] = gw[g]
  BY DEF YInv, LInv, TypeOK
<1>2. Young(g)
  BY <1>1 DEF Young, Settled, At
<1>3. Left(h) = {}
  BY <1>2, YoungLeft
<1> QED  BY <1>1, <1>2, <1>3, YoungElsewhere

(* Every step keeps a young lease its gateway's. *)
LEMMA YoungStep ==
  ASSUME YInv, [Next]_vars, NEW g \in Gateway, Young(g)'
  PROVE  Granted(g)'
<1>1. /\ lease \in Document /\ current \subseteq Gateway /\ gw \in [Gateway -> Process]
      /\ gw[g] \in Process /\ strays \subseteq Write /\ TypeOK
  BY DEF YInv, LInv, TypeOK
<1>2. CASE UNCHANGED vars
  <2>1. Young(g)
    BY <1>2 DEF vars, Young, Settled, At
  <2> QED  BY <1>2, <2>1, YoungElsewhere DEF vars
<1>3. CASE Tick
  <2>1. gw'[g] = Older(gw[g]) /\ gw[g].held \in Nat
    BY <1>1, <1>3, ProcessParts DEF Tick
  <2>2. /\ gw'[g].at = gw[g].at /\ gw'[g].reply = gw[g].reply
        /\ gw[g].at \in Reigns \cup {"claiming"} =>
             gw'[g].held = AtMost(gw[g].held + 1, Overdue)
    BY <1>1, <2>1 DEF Older, Process
  <2>3. Settled(g)
    BY <2>2 DEF Young, Settled, At
  <2>4. Ttl \in Nat /\ Ttl < Overdue /\ Overdue \in Nat
    BY PollAssumption, DelayAssumption, ClearingNat DEF Ttl, Overdue
  <2>5. gw'[g].held = AtMost(gw[g].held + 1, Overdue) /\ gw'[g].held < Ttl
    BY <2>2, <2>3 DEF Settled, Reigns, At, Young
  <2>6. gw'[g].held = gw[g].held + 1
    BY <2>1, <2>4, <2>5 DEF AtMost
  <2>7. gw[g].held < Ttl
    BY <2>1, <2>4, <2>5, <2>6
  <2>8. Young(g)
    BY <2>3, <2>7 DEF Young
  <2>9. /\ lease'.holder = lease.holder /\ lease'.released = lease.released
        /\ lease'.age = AtMost(lease.age + 1, Ttl) /\ strays' = strays
    BY <1>1, <1>3 DEF Tick, Document
  <2>10. lease.age \in Nat /\ lease.age <= gw[g].held
    BY <2>8, YoungHolds
  <2>11. lease'.age <= gw'[g].held
    BY <2>1, <2>4, <2>6, <2>7, <2>9, <2>10 DEF AtMost
  <2> QED  BY <2>8, <2>9, <2>11 DEF YInv, Granted, Own
<1>4. ASSUME NEW w \in strays, StrayLands(w)
      PROVE  Granted(g)'
  <2>1. Young(g)
    BY <1>4 DEF StrayLands, Young, Settled, At
  <2>2. w.holder = g /\ ~w.release
    BY <2>1 DEF YInv, Granted
  <2>3. gw'[g].held \in Nat
    BY <1>1, <1>4, ProcessParts DEF StrayLands
  <2> QED  BY <1>4, <2>2, <2>3 DEF StrayLands, Granted, Own, HeldBy
<1>5. ASSUME NEW h \in Gateway, Commits(h)
      PROVE  Granted(g)'
  <2>1. CASE h = g
    <3>1. gw' = [gw EXCEPT ![g] = [gw[g] EXCEPT !.reply = "applied", !.held = 0]]
      BY <1>5, <2>1 DEF Commits
    <3>2. gw'[g].held = 0
      BY <1>1, <3>1 DEF Process
    <3> QED  BY <1>5, <2>1, <3>2 DEF Commits, Granted, Own, HeldBy
  <2>2. CASE h # g
    <3>1. gw'[g] = gw[g]
      BY <1>1, <1>5, <2>2 DEF Commits
    <3>2. Young(g)
      BY <3>1 DEF Young, Settled, At
    <3> QED  BY <1>5, <2>2, <3>2, YoungAlone DEF Commits, Holds
  <2> QED  BY <2>1, <2>2
<1>6. ASSUME NEW h \in Gateway, CommitsRelease(h)
      PROVE  Granted(g)'
  <2>1. h \in current /\ At(h, "releasing")
    BY <1>6 DEF CommitsRelease, Holds
  <2>2. gw' = [gw EXCEPT ![h] = [gw[h] EXCEPT !.reply = "applied"]]
    BY <1>6 DEF CommitsRelease
  <2>3. [gw[h] EXCEPT !.reply = "applied"].at = "releasing"
    BY <1>1, <2>1 DEF Process, At
  <2>4. h # g /\ gw'[g] = gw[g]
    BY <1>1, <2>2, <2>3 DEF Young, Settled, At
  <2>5. Young(g)
    BY <2>4 DEF Young, Settled, At
  <2> QED  BY <2>1, <2>4, <2>5, YoungAlone DEF At
<1>7. ASSUME NEW h \in Gateway, Ends(h)
      PROVE  Granted(g)'
  <2>1. h # g /\ gw'[g] = gw[g]
    BY <1>1, <1>7 DEF Ends, Enter, Standing, Young, Settled, At
  <2>2. Young(g)
    BY <2>1 DEF Young, Settled, At
  <2>3. Own(g)
    BY <2>2 DEF YInv, Granted
  <2>4. /\ lease'.holder = lease.holder /\ lease'.released = lease.released
        /\ lease'.age = lease.age
    BY <1>1, <1>7, <2>1, <2>3 DEF Ends, Document, Own
  <2>5. Left(h) = {}
    BY <2>1, <2>2, YoungLeft
  <2>6. ASSUME NEW v \in strays'
        PROVE  v \in strays
    <3>1. PICK w \in strays : v = [w EXCEPT !.holder = IF @ = h THEN Gone ELSE @]
      BY <1>7, <2>5, <2>6 DEF Ends
    <3>2. w \in Write /\ w.holder = g
      BY <1>1, <2>2 DEF YInv, Granted
    <3>3. [w EXCEPT !.holder = w.holder] = w
      BY <3>2 DEF Write
    <3> QED  BY <2>1, <3>1, <3>2, <3>3
  <2> QED  BY <2>1, <2>2, <2>4, <2>6, YoungElsewhere
<1>8. ASSUME NEW stage \in {"polling", "failed", "reading", "releasing"},
             gw'[g].at = stage
      PROVE  FALSE
  BY <1>8 DEF Young, Settled, At
<1>9. ASSUME NEW h \in Gateway, Proceeds(h), ~Commits(h), ~CommitsRelease(h), ~Stops(h)
      PROVE  Granted(g)'
  <2>1. lease' = lease /\ strays' = strays
    BY <1>9 DEF Proceeds, Contend, ReadFree, ReadHeld, Won, LostRace, Cleared, Connected,
         RenewDue, Renewed, RenewRefused, Released, StandsBy, Conflicts
  <2>2. CASE h # g
    BY <1>1, <1>9, <2>1, <2>2, OneMoves, YoungOther
  <2>3. CASE h = g
    <3>1. CASE Contend(g) \/ ReadHeld(g) \/ LostRace(g) \/ RenewRefused(g) \/ Released(g)
               \/ StandsBy(g)
      <4>1. gw'[g].at \in {"polling", "failed", "reading"}
        BY <1>1, <3>1 DEF Contend, ReadHeld, LostRace, RenewRefused, Released, StandsBy,
             Turn, Enter, Standing, Process
      <4> QED  BY <4>1, <1>8
    <3>2. CASE ReadFree(g)
      <4>1. gw'[g].at = "claiming" /\ gw'[g].reply = "none"
        BY <1>1, <3>2 DEF ReadFree, Turn, Process
      <4> QED  BY <4>1 DEF Young, Settled, At
    <3>3. CASE Won(g) \/ Cleared(g) \/ Connected(g) \/ RenewDue(g) \/ Renewed(g)
      <4>1. Settled(g)
        BY <3>3 DEF Won, Cleared, Connected, RenewDue, Renewed, Settled, At
      <4>2. gw'[g].held = gw[g].held
        BY <1>1, <3>3 DEF Won, Cleared, Connected, RenewDue, Renewed, Turn, Process
      <4>3. Young(g)
        BY <4>1, <4>2 DEF Young
      <4> QED  BY <2>1, <4>2, <4>3, YoungElsewhere
    <3>4. CASE Conflicts(g)
      <4>1. gw' = [gw EXCEPT ![g] = [gw[g] EXCEPT !.reply = "conflict"]]
        BY <3>4 DEF Conflicts
      <4>2. gw'[g].at = gw[g].at /\ gw'[g].reply = "conflict" /\ gw'[g].held = gw[g].held
        BY <1>1, <4>1 DEF Process
      <4>3. Young(g)
        BY <4>2 DEF Young, Settled, At
      <4> QED  BY <2>1, <4>2, <4>3, YoungElsewhere
    <3> QED  BY <1>9, <2>3, <3>1, <3>2, <3>3, <3>4 DEF Proceeds
  <2> QED  BY <2>2, <2>3
<1>10. ASSUME NEW h \in Gateway,
              \/ ReadErrs(h) \/ ClaimErrs(h) \/ RenewErrs(h) \/ ReleaseErrs(h)
              \/ ConnectFails(h) \/ SocketEnds(h) \/ ShutsDown(h) \/ Starts(h)
       PROVE  Granted(g)'
  <2>1. lease' = lease /\ strays' \subseteq strays \cup Left(h)
    BY <1>10 DEF ReadErrs, ClaimErrs, RenewErrs, ReleaseErrs, ConnectFails, SocketEnds,
         ShutsDown, Releases, Starts
  <2>2. CASE h # g
    BY <1>1, <1>10, <2>1, <2>2, OneMoves, YoungOther
  <2>3. CASE h = g /\ ~RenewErrs(g)
    <3>1. gw'[g].at \in {"polling", "failed", "releasing"}
      BY <1>1, <1>10, <2>3 DEF ReadErrs, ClaimErrs, ReleaseErrs, ConnectFails, SocketEnds,
         ShutsDown, Releases, Starts, Enter, Standing, Process
    <3> QED  BY <3>1, <1>8
  <2>4. CASE h = g /\ RenewErrs(g)
    <3>1. ~GivesUp(g)
      BY <1>1, <1>8, <2>4 DEF RenewErrs, Enter, Standing
    <3>2. gw' = [gw EXCEPT ![g] = [gw[g] EXCEPT !.at = "leading", !.flight = 0, !.reply = "none"]]
      BY <2>4, <3>1 DEF RenewErrs, Turn
    <3>3. gw'[g].held = gw[g].held
      BY <1>1, <3>2 DEF Process
    <3>4. Young(g) /\ At(g, "renewing")
      BY <2>4, <3>3 DEF RenewErrs, Young, Settled, At
    <3>5. \A w \in Left(g) : w.holder = g /\ ~w.release
      BY <3>4, YoungLeft
    <3> QED  BY <2>1, <2>4, <3>3, <3>4, <3>5, YoungElsewhere
  <2> QED  BY <2>2, <2>3, <2>4
<1> QED
  BY <1>2, <1>3, <1>4, <1>5, <1>6, <1>7, <1>9, <1>10 DEF Next, Stops, Dies, Exits

LEMMA YoungInvariance == Spec => []YInv
<1>1. Init => YInv
  <2>1. Standing("polling", 0).at = "polling"
    BY DEF Standing
  <2> QED  BY <2>1, InitLInv DEF Init, YInv, Young, Settled, At
<1>2. YInv /\ [Next]_vars => YInv'
  BY NextLInv, YoungStep DEF YInv
<1> QED  BY <1>1, <1>2, PTL DEF Spec

(* Whatever fails, however long the pins take to clear and the awaits to   *)
(* end: a gateway that serves while its last write is younger than a lease *)
(* is the one that the lease names, and nobody else may take it.           *)
THEOREM LeadsWhileYoung ==
  Spec => [](\A g \in Gateway : Serves(g) /\ gw[g].held < Ttl => Leads(g))
<1>1. YInv => \A g \in Gateway : Serves(g) /\ gw[g].held < Ttl => Leads(g)
  BY YoungHolds DEF Serves, Young, Settled, Leads, Own
<1> QED  BY <1>1, YoungInvariance, PTL

----------------------------------------------------------------------------
(* How long a gateway serves without a renewal, if awaits are short; the   *)
(* clearing of the pins, which is many awaits, need not be.                *)
ShortAwaits == 3 * Delay <= Poll

(* What passes from a claim's being written to the socket's being open:    *)
(* the claim's answer, the clearing and the connecting.                    *)
Begun == 2 * Delay + Clearing

LEMMA BegunNat ==
  ASSUME NEW p \in Process
  PROVE  Begun \in Nat /\ Begun = 2 * Delay + Clearing
  BY ProcessParts DEF Begun

(* `most` bounds the time from p's last write to its next renewal, and     *)
(* `least` is on p's own clock by then.                                    *)
Within(p, most, least) == p.held + p.wait <= most /\ least <= p.since + p.wait

(* A gateway's clocks, stage by stage.  A leader has missed no more than   *)
(* two renewals in a row; the clock it steps down by runs at most one poll *)
(* behind the lease's, or, before the first answer to a renewal, by what   *)
(* went before it began.                                                   *)
Timely(p) ==
  /\ InTime(p)
  /\ p.at \in {"polling", "failed", "reading"} => p.held = 0
  /\ p.at = "claiming"   => p.held <= p.flight
  /\ p.at = "clearing"   => p.held <= Delay + p.flight
  /\ p.at = "connecting" => p.held <= Delay + Clearing + p.flight
  /\ p.at = "leading" =>
       /\ 0 <= p.wait /\ p.wait <= Poll
       /\ \/ Within(p, Poll, 0) \/ Within(p, 2 * Poll, Poll) \/ Within(p, 3 * Poll, 2 * Poll)
          \/ Within(p, Poll + Begun, Poll) \/ Within(p, 2 * Poll + Begun, 2 * Poll)
  /\ p.at = "renewing" =>
       /\ p.wait = Poll - p.flight
       /\ p.reply = "applied" => p.held <= p.flight
       /\ \/ Within(p, 2 * Poll, Poll) \/ Within(p, 3 * Poll, 2 * Poll)
          \/ Within(p, 4 * Poll, 3 * Poll)
          \/ Within(p, 2 * Poll + Begun, 2 * Poll) \/ Within(p, 3 * Poll + Begun, 3 * Poll)

(* A step of a gateway leaves its clocks so. *)
LEMMA MovesTimely ==
  ASSUME ShortAwaits, NEW p \in Process, Timely(p), NEW q, Moves(p, q)
  PROVE  Timely(q)
<1>1. /\ p.at \in Stages /\ p.wait \in Int
      /\ p.flight \in Nat /\ p.since \in Nat /\ p.held \in Nat
      /\ Poll \in Nat \ {0} /\ Delay \in Nat /\ Clearing \in Nat /\ Delay <= Clearing
      /\ Begun \in Nat /\ Begun = 2 * Delay + Clearing
      /\ p.at # "clearing" => p.flight <= Delay
      /\ p.at = "clearing" => p.flight <= Clearing
  BY ProcessParts, BegunNat DEF Timely, InTime
<1>0. InTime(q)
  BY StepInTime DEF Timely
<1>2. ASSUME NEW stage \in {"polling", "failed", "down"}, NEW wait \in Int,
             q = Standing(stage, wait)
      PROVE  Timely(q)
  BY <1>0, <1>2 DEF Timely, Standing
<1>3. ASSUME NEW after, q = [p EXCEPT !.at = "releasing", !.flight = 0, !.reply = "none",
                                      !.after = after]
      PROVE  Timely(q)
  BY <1>0, <1>3 DEF Timely, Process
<1>4. CASE p.at = "polling" /\ q = [p EXCEPT !.at = "reading", !.flight = 0, !.reply = "none"]
  BY <1>0, <1>1, <1>4 DEF Timely, Process
<1>5. CASE p.at = "reading" /\ q = [p EXCEPT !.at = "claiming", !.flight = 0, !.reply = "none"]
  BY <1>0, <1>1, <1>5 DEF Timely, Process
<1>6. CASE p.at = "claiming" /\ q = [p EXCEPT !.at = "clearing", !.flight = 0, !.reply = "none"]
  BY <1>0, <1>1, <1>6 DEF Timely, Process
<1>7. CASE q = [p EXCEPT !.reply = "conflict"]
  BY <1>0, <1>1, <1>7 DEF Timely, Process, Within
<1>8. CASE p.at = "releasing" /\ q = [p EXCEPT !.reply = "applied"]
  BY <1>0, <1>1, <1>8 DEF Timely, Process
<1>9. CASE p.at \in {"claiming", "renewing"} /\ q = [p EXCEPT !.reply = "applied", !.held = 0]
  BY <1>0, <1>1, <1>9 DEF Timely, Process, Within
<1>10. CASE p.at = "clearing" /\ q = [p EXCEPT !.at = "connecting", !.flight = 0,
                                               !.reply = "none", !.since = 0]
  BY <1>0, <1>1, <1>10 DEF Timely, Process
<1>11. CASE p.at = "connecting" /\ q = [p EXCEPT !.at = "leading", !.flight = 0, !.wait = Poll]
  BY <1>0, <1>1, <1>11 DEF Timely, Process, Within, ShortAwaits
<1>12. CASE /\ p.at = "leading" /\ p.wait <= 0
            /\ q = [p EXCEPT !.at = "renewing", !.flight = 0, !.reply = "none",
                             !.wait = NextTick(p.wait)]
  BY <1>0, <1>1, <1>12 DEF Timely, Process, Within, NextTick
<1>13. CASE /\ p.at = "renewing" /\ p.reply = "applied"
            /\ q = [p EXCEPT !.at = "leading", !.flight = 0, !.reply = "none", !.since = 0]
  BY <1>0, <1>1, <1>13 DEF Timely, Process, Within, ShortAwaits
<1>14. CASE /\ p.at = "renewing" /\ ~(p.since >= StepDown)
            /\ q = [p EXCEPT !.at = "leading", !.flight = 0, !.reply = "none"]
  BY <1>0, <1>1, <1>14 DEF Timely, Process, Within, ShortAwaits, StepDown
<1> QED
  BY <1>2, <1>3, <1>4, <1>5, <1>6, <1>7, <1>8, <1>9, <1>10, <1>11, <1>12, <1>13, <1>14
     DEF Moves

(* So does the passing of time. *)
LEMMA OlderTimely ==
  ASSUME ShortAwaits, NEW p \in Process, Timely(p), NEW q, GrowsOlder(p, q)
  PROVE  Timely(q)
<1>0. InTime(q)
  BY StepInTime DEF Timely
<1>1. /\ p.at \in Stages /\ p.wait \in Int /\ p.flight \in Nat
      /\ p.since \in Nat /\ p.held \in Nat /\ Poll \in Nat \ {0} /\ Delay \in Nat
      /\ Ttl = 3 * Poll /\ Clearing \in Nat /\ Begun \in Nat
  BY ProcessParts, BegunNat
<1>2. /\ q.at = p.at /\ q.reply = p.reply
      /\ p.at \in Awaits => q.flight = p.flight + 1
      /\ p.at = "renewing" => q.flight <= Delay
      /\ p.at \in {"leading", "renewing"} => q.wait = p.wait - 1
      /\ p.at = "leading" => p.wait > 0
      /\ p.at \in {"polling", "failed", "reading"} => q.held = p.held
      /\ q.held \in Nat /\ q.held <= p.held + 1
      /\ p.at \in {"connecting", "leading", "renewing"} =>
           q.since = p.since + 1 \/ q.since = Ttl
  BY OlderParts DEF GrowsOlder, AtLongest, Awaits
<1>3. ASSUME NEW most \in Nat, NEW least \in Nat, Within(p, most, least), least <= 3 * Poll,
             p.at \in {"leading", "renewing"}, q.wait >= 0
      PROVE  Within(q, most, least)
  BY <1>1, <1>2, <1>3 DEF Within
<1>4. CASE p.at \in {"polling", "failed", "reading", "down", "releasing"}
  BY <1>0, <1>2, <1>4 DEF Timely
<1>5. CASE p.at \in {"claiming", "clearing", "connecting"}
  BY <1>0, <1>1, <1>2, <1>5 DEF Timely, Awaits
<1>6. CASE p.at = "leading"
  <2>1. q.wait >= 0 /\ q.wait <= Poll
    BY <1>1, <1>2, <1>6 DEF Timely
  <2>2. \/ Within(q, Poll, 0) \/ Within(q, 2 * Poll, Poll) \/ Within(q, 3 * Poll, 2 * Poll)
        \/ Within(q, Poll + Begun, Poll) \/ Within(q, 2 * Poll + Begun, 2 * Poll)
    BY <1>1, <1>3, <1>6, <2>1 DEF Timely
  <2> QED  BY <1>0, <1>2, <1>6, <2>1, <2>2 DEF Timely
<1>7. CASE p.at = "renewing"
  <2>1. q.wait = Poll - q.flight /\ q.wait >= 0 /\ (q.reply = "applied" => q.held <= q.flight)
    BY <1>1, <1>2, <1>7 DEF Timely, ShortAwaits, Awaits
  <2>2. \/ Within(q, 2 * Poll, Poll) \/ Within(q, 3 * Poll, 2 * Poll) \/ Within(q, 4 * Poll, 3 * Poll)
        \/ Within(q, 2 * Poll + Begun, 2 * Poll) \/ Within(q, 3 * Poll + Begun, 3 * Poll)
    BY <1>1, <1>3, <1>7, <2>1 DEF Timely
  <2> QED  BY <1>0, <1>2, <1>7, <2>1, <2>2 DEF Timely
<1> QED  BY <1>1, <1>4, <1>5, <1>6, <1>7 DEF Stages, Sleeps, Contends, Reigns

(* `serve` of run.rs steps down by a clock that starts later than the      *)
(* lease's, when the pins are cleared, and that is looked at only when a   *)
(* renewal failed.  Whatever fails and lands late, and however long the    *)
(* pins take, if three awaits fit into a poll: a gateway that serves leads *)
(* as long as its last write is younger than a lease, and serves no longer *)
(* than that and an await, or than two thirds of a lease and the awaits at *)
(* either end after it cleared the pins.                                   *)
THEOREM StepsDownInTime == ASSUME ShortAwaits PROVE Spec => []OverstaysBriefly
<1> DEFINE TInv == TypeOK /\ \A g \in Gateway : Timely(gw[g])
<1>1. Init => TInv
  <2>1. Timely(Standing("polling", 0))
    BY DelayAssumption DEF Timely, InTime, Standing
  <2> QED  BY <2>1, InitType DEF Init
<1>2. TInv /\ [Next]_vars => TInv'
  <2> SUFFICES ASSUME TInv, [Next]_vars, NEW g \in Gateway
               PROVE  Timely(gw'[g])
    BY NextType
  <2> QED  BY ProcessStep, MovesTimely, OlderTimely DEF TypeOK
<1>3. ASSUME TInv, NEW g \in Gateway, Serves(g)
      PROVE  gw[g].held <= Ttl + Delay \/ gw[g].held <= StepDown + 3 * Delay + Clearing
  <2>1. gw[g] \in Process /\ Timely(gw[g])
    BY <1>3 DEF TypeOK
  <2>2. gw[g].flight \in Nat /\ Begun \in Nat /\ Begun = 2 * Delay + Clearing /\ Clearing \in Nat
    BY <2>1, ProcessParts, BegunNat
  <2>3. gw[g].at \in {"leading", "renewing"} /\ gw[g].flight <= Delay
    BY <1>3, <2>1 DEF Serves, Timely, InTime
  <2> QED  BY <1>3, <2>1, <2>2, <2>3, ProcessParts DEF Timely, Within, StepDown
<1>4. YInv => \A g \in Gateway : Serves(g) /\ gw[g].held < Ttl => Leads(g)
  BY YoungHolds DEF Serves, Young, Settled, Leads, Own
<1>5. TInv /\ YInv => OverstaysBriefly
  BY <1>3, <1>4 DEF OverstaysBriefly
<1> QED  BY <1>1, <1>2, <1>5, YoungInvariance, PTL DEF Spec

----------------------------------------------------------------------------
(* How long it serves without a renewal, however long awaits take          *)

(* What a leader's last write is old when it next looks at the store. *)
Bounded(n) == n <= Poll + Begun \/ n < Ttl + Delay + Clearing

(* The clock a leader steps down by runs at most an await and the clearing *)
(* of the pins behind the lease's, as long as it runs.                     *)
Keeps(p) == p.since < Ttl => p.held <= p.since + Delay + Clearing

Lags(p) ==
  /\ InTime(p)
  /\ p.at \in {"polling", "failed", "reading"} => p.held = 0
  /\ p.at = "claiming"   => p.held <= p.flight
  /\ p.at = "clearing"   => p.held <= Delay + p.flight
  /\ p.at = "connecting" => p.held <= Delay + Clearing + p.flight /\ Keeps(p)
  /\ p.at = "leading" =>
       p.wait <= Poll /\ Keeps(p) /\ Bounded(p.held) /\ Bounded(p.held + p.wait)
  /\ p.at = "renewing" =>
       /\ p.wait <= Poll /\ Keeps(p) /\ Bounded(p.held - p.flight)
       /\ p.reply = "applied" => p.held <= p.flight

(* A step of a gateway leaves its clocks so. *)
LEMMA MovesLags ==
  ASSUME NEW p \in Process, Lags(p), NEW q, Moves(p, q)
  PROVE  Lags(q)
<1>1. /\ p.at \in Stages /\ p.wait \in Int
      /\ p.flight \in Nat /\ p.since \in Nat /\ p.held \in Nat
      /\ Poll \in Nat \ {0} /\ Delay \in Nat /\ Ttl = 3 * Poll
      /\ Clearing \in Nat /\ Delay <= Clearing
      /\ Begun \in Nat /\ Begun = 2 * Delay + Clearing
      /\ p.at # "clearing" => p.flight <= Delay
      /\ p.at = "clearing" => p.flight <= Clearing
  BY ProcessParts, BegunNat DEF Lags, InTime
<1>0. InTime(q)
  BY StepInTime DEF Lags
<1>2. ASSUME NEW stage \in {"polling", "failed", "down"}, NEW wait \in Int,
             q = Standing(stage, wait)
      PROVE  Lags(q)
  BY <1>0, <1>2 DEF Lags, Standing
<1>3. ASSUME NEW after, q = [p EXCEPT !.at = "releasing", !.flight = 0, !.reply = "none",
                                      !.after = after]
      PROVE  Lags(q)
  BY <1>0, <1>3 DEF Lags, Process
<1>4. CASE p.at = "polling" /\ q = [p EXCEPT !.at = "reading", !.flight = 0, !.reply = "none"]
  BY <1>0, <1>1, <1>4 DEF Lags, Process
<1>5. CASE p.at = "reading" /\ q = [p EXCEPT !.at = "claiming", !.flight = 0, !.reply = "none"]
  BY <1>0, <1>1, <1>5 DEF Lags, Process
<1>6. CASE p.at = "claiming" /\ q = [p EXCEPT !.at = "clearing", !.flight = 0, !.reply = "none"]
  BY <1>0, <1>1, <1>6 DEF Lags, Process
<1>7. CASE q = [p EXCEPT !.reply = "conflict"]
  BY <1>0, <1>1, <1>7 DEF Lags, Process, Keeps, Bounded
<1>8. CASE p.at = "releasing" /\ q = [p EXCEPT !.reply = "applied"]
  BY <1>0, <1>1, <1>8 DEF Lags, Process
<1>9. CASE p.at \in {"claiming", "renewing"} /\ q = [p EXCEPT !.reply = "applied", !.held = 0]
  BY <1>0, <1>1, <1>9 DEF Lags, Process, Keeps, Bounded
<1>10. CASE p.at = "clearing" /\ q = [p EXCEPT !.at = "connecting", !.flight = 0,
                                               !.reply = "none", !.since = 0]
  BY <1>0, <1>1, <1>10 DEF Lags, Process, Keeps
<1>11. CASE p.at = "connecting" /\ q = [p EXCEPT !.at = "leading", !.flight = 0, !.wait = Poll]
  BY <1>0, <1>1, <1>11 DEF Lags, Process, Keeps, Bounded
<1>12. CASE /\ p.at = "leading" /\ p.wait <= 0
            /\ q = [p EXCEPT !.at = "renewing", !.flight = 0, !.reply = "none",
                             !.wait = NextTick(p.wait)]
  BY <1>0, <1>1, <1>12 DEF Lags, Process, Keeps, Bounded, NextTick
<1>13. CASE /\ p.at = "renewing" /\ p.reply = "applied"
            /\ q = [p EXCEPT !.at = "leading", !.flight = 0, !.reply = "none", !.since = 0]
  BY <1>0, <1>1, <1>13 DEF Lags, Process, Keeps, Bounded
<1>14. CASE /\ p.at = "renewing" /\ ~(p.since >= StepDown)
            /\ q = [p EXCEPT !.at = "leading", !.flight = 0, !.reply = "none"]
  BY <1>0, <1>1, <1>14 DEF Lags, Process, Keeps, Bounded, StepDown
<1> QED
  BY <1>2, <1>3, <1>4, <1>5, <1>6, <1>7, <1>8, <1>9, <1>10, <1>11, <1>12, <1>13, <1>14
     DEF Moves

(* So does the passing of time. *)
LEMMA OlderLags ==
  ASSUME NEW p \in Process, Lags(p), NEW q, GrowsOlder(p, q)
  PROVE  Lags(q)
<1>0. InTime(q)
  BY StepInTime DEF Lags
<1>1. /\ p.at \in Stages /\ p.wait \in Int /\ p.flight \in Nat
      /\ p.since \in Nat /\ p.held \in Nat /\ Poll \in Nat \ {0} /\ Delay \in Nat
      /\ Ttl = 3 * Poll /\ Clearing \in Nat /\ Begun \in Nat
  BY ProcessParts, BegunNat
<1>2. /\ q.at = p.at /\ q.reply = p.reply
      /\ p.at \in Awaits => q.flight = p.flight + 1
      /\ p.at \in {"leading", "renewing"} => q.wait = p.wait - 1
      /\ p.at = "leading" => p.wait > 0
      /\ p.at \in {"polling", "failed", "reading"} => q.held = p.held
      /\ q.held \in Nat /\ q.held <= p.held + 1
      /\ p.at \in {"connecting", "leading", "renewing"} =>
           q.since = p.since + 1 \/ q.since = Ttl
  BY OlderParts DEF GrowsOlder
<1>3. p.at \in {"connecting", "leading", "renewing"} /\ Keeps(p) => Keeps(q)
  BY <1>1, <1>2 DEF Keeps
<1>4. CASE p.at \in {"polling", "failed", "reading", "down", "releasing"}
  BY <1>0, <1>2, <1>4 DEF Lags
<1>5. CASE p.at \in {"claiming", "clearing", "connecting"}
  BY <1>0, <1>1, <1>2, <1>3, <1>5 DEF Lags, Awaits
<1>6. CASE p.at = "leading"
  BY <1>0, <1>1, <1>2, <1>3, <1>6 DEF Lags, Bounded
<1>7. CASE p.at = "renewing"
  BY <1>0, <1>1, <1>2, <1>3, <1>7 DEF Lags, Bounded, Awaits
<1> QED  BY <1>1, <1>4, <1>5, <1>6, <1>7 DEF Stages, Sleeps, Contends, Reigns

(* Every gateway's clocks are so, always. *)
LEMMA AlwaysLags == Spec => [](TypeOK /\ \A g \in Gateway : Lags(gw[g]))
<1> DEFINE TInv == TypeOK /\ \A g \in Gateway : Lags(gw[g])
<1>1. Init => TInv
  <2>1. Lags(Standing("polling", 0))
    BY DelayAssumption DEF Lags, InTime, Standing
  <2> QED  BY <2>1, InitType DEF Init
<1>2. TInv /\ [Next]_vars => TInv'
  <2> SUFFICES ASSUME TInv, [Next]_vars, NEW g \in Gateway
               PROVE  Lags(gw'[g])
    BY NextType
  <2> QED  BY ProcessStep, MovesLags, OlderLags DEF TypeOK
<1> QED  BY <1>1, <1>2, PTL DEF Spec

(* Nothing is assumed of the awaits but that they end, as the HTTP         *)
(* client's timeout makes them, nor of how many clearing the pins takes: a *)
(* gateway that cannot renew stops serving, by then.                       *)
THEOREM StepsDown == Spec => []OverstayBounded
<1> DEFINE TInv == TypeOK /\ \A g \in Gateway : Lags(gw[g])
<1>1. TInv => OverstayBounded
  <2> SUFFICES ASSUME TInv, NEW g \in Gateway, Serves(g)
               PROVE  \/ gw[g].held < Ttl + 2 * Delay + Clearing
                      \/ gw[g].held <= Poll + 3 * Delay + Clearing
    BY DEF OverstayBounded
  <2>1. gw[g] \in Process /\ Lags(gw[g])
    BY DEF TypeOK
  <2>2. Begun \in Nat /\ Begun = 2 * Delay + Clearing
    BY <2>1, BegunNat
  <2>3. gw[g].flight <= Delay
    BY <2>1 DEF Serves, Lags, InTime
  <2> QED  BY <2>1, <2>2, <2>3, ProcessParts DEF Serves, Lags, Bounded
<1> QED  BY <1>1, AlwaysLags, PTL

----------------------------------------------------------------------------
(* Who serves while nothing fails.  Gateways may still die, stop and start *)
(* again, race each other for the lease, and find any number of pins.      *)
Calm == ~Faults /\ 2 * Delay < Poll

(* A leader's clock if every renewal is answered. *)
Punctual(p) ==
  /\ InTime(p)
  /\ p.at = "connecting" => p.since <= p.flight
  /\ p.at = "leading"    => 0 <= p.wait /\ p.wait <= Poll /\ p.since + p.wait <= Poll + Delay
  /\ p.at = "renewing"   => p.wait = Poll - p.flight /\ p.since + p.wait <= 2 * Poll + Delay

LEMMA StepPunctual ==
  ASSUME Calm, NEW p \in Process, Punctual(p), NEW q, Moves(p, q) \/ GrowsOlder(p, q)
  PROVE  Punctual(q)
<1>0. InTime(q)
  BY StepInTime DEF Punctual
<1>1. /\ p.at \in Stages /\ p.wait \in Int /\ p.flight \in Nat /\ p.since \in Nat
      /\ Poll \in Nat \ {0} /\ Delay \in Nat /\ Ttl = 3 * Poll
      /\ ~Faults /\ 2 * Delay < Poll
      /\ p.at # "clearing" => p.flight <= Delay
  BY ProcessParts DEF Calm, Punctual, InTime
<1>2. ASSUME NEW stage \in {"polling", "failed", "down"}, NEW wait \in Int,
             q = Standing(stage, wait)
      PROVE  Punctual(q)
  BY <1>0, <1>2 DEF Punctual, Standing
<1>3. ASSUME NEW stage \in {"releasing", "reading", "claiming", "clearing"}, q.at = stage
      PROVE  Punctual(q)
  BY <1>0, <1>3 DEF Punctual
<1>4. ASSUME q.at = p.at, q.wait = p.wait, q.flight = p.flight, q.since = p.since
      PROVE  Punctual(q)
  BY <1>0, <1>4 DEF Punctual
<1>5. CASE p.at = "clearing" /\ q = [p EXCEPT !.at = "connecting", !.flight = 0,
                                              !.reply = "none", !.since = 0]
  BY <1>0, <1>1, <1>5 DEF Punctual, Process
<1>6. CASE p.at = "connecting" /\ q = [p EXCEPT !.at = "leading", !.flight = 0, !.wait = Poll]
  BY <1>0, <1>1, <1>6 DEF Punctual, Process
<1>7. CASE /\ p.at = "leading" /\ p.wait <= 0
           /\ q = [p EXCEPT !.at = "renewing", !.flight = 0, !.reply = "none",
                            !.wait = NextTick(p.wait)]
  BY <1>0, <1>1, <1>7 DEF Punctual, Process, NextTick
<1>8. CASE /\ p.at = "renewing" /\ p.reply = "applied"
           /\ q = [p EXCEPT !.at = "leading", !.flight = 0, !.reply = "none", !.since = 0]
  BY <1>0, <1>1, <1>8 DEF Punctual, Process
<1>9. CASE GrowsOlder(p, q)
  <2>1. /\ q.at = p.at
        /\ p.at \in Awaits => q.flight = p.flight + 1
        /\ p.at \in {"leading", "renewing"} => q.wait = p.wait - 1
        /\ p.at = "leading" => p.wait > 0
        /\ p.at \in {"connecting", "leading", "renewing"} => q.since <= p.since + 1
    <3>1. Ttl \in Nat /\ q.since = IF p.at \in {"connecting", "leading", "renewing"}
                                     THEN AtMost(p.since + 1, Ttl) ELSE p.since
      BY <1>1, <1>9 DEF GrowsOlder, Older, Process
    <3>2. AtMost(p.since + 1, Ttl) <= p.since + 1
      BY <1>1, <3>1 DEF AtMost
    <3> QED  BY <1>9, <3>1, <3>2, OlderParts DEF GrowsOlder
  <2>2. q.since \in Int
    BY <1>1, <1>9 DEF GrowsOlder, Older, Process, AtMost
  <2>3. CASE p.at = "connecting"
    BY <1>0, <1>1, <2>1, <2>2, <2>3 DEF Punctual, Awaits
  <2>4. CASE p.at = "leading"
    BY <1>0, <1>1, <2>1, <2>2, <2>4 DEF Punctual
  <2>5. CASE p.at = "renewing"
    BY <1>0, <1>1, <2>1, <2>2, <2>5 DEF Punctual, Awaits
  <2> QED  BY <1>0, <2>1, <2>3, <2>4, <2>5 DEF Punctual
<1>10. CASE Moves(p, q)
  <2>1. CASE \E after : q = [p EXCEPT !.at = "releasing", !.flight = 0, !.reply = "none",
                                      !.after = after]
    BY <1>3, <2>1 DEF Process
  <2>2. CASE \E stage \in {"reading", "claiming", "clearing"} :
               q = [p EXCEPT !.at = stage, !.flight = 0, !.reply = "none"]
    BY <1>3, <2>2 DEF Process
  <2>3. CASE \/ q = [p EXCEPT !.reply = "conflict"]
             \/ q = [p EXCEPT !.reply = "applied"]
             \/ q = [p EXCEPT !.reply = "applied", !.held = 0]
    BY <1>4, <2>3 DEF Process
  <2> QED
    BY <1>1, <1>10, <1>2, <1>5, <1>6, <1>7, <1>8, <2>1, <2>2, <2>3 DEF Moves
<1> QED  BY <1>9, <1>10

(* In the calm every gateway's clock is so. *)
LEMMA AlwaysPunctual ==
  ASSUME Calm PROVE Spec => [](TypeOK /\ \A g \in Gateway : Punctual(gw[g]))
<1> DEFINE PInv == TypeOK /\ \A g \in Gateway : Punctual(gw[g])
<1>1. Init => PInv
  <2>1. Punctual(Standing("polling", 0))
    BY DelayAssumption DEF Punctual, InTime, Standing
  <2> QED  BY <2>1, InitType DEF Init
<1>2. PInv /\ [Next]_vars => PInv'
  <2> SUFFICES ASSUME PInv, [Next]_vars, NEW g \in Gateway
               PROVE  Punctual(gw'[g])
    BY NextType
  <2> QED  BY ProcessStep, StepPunctual DEF TypeOK
<1> QED  BY <1>1, <1>2, PTL DEF Spec

(* A leader whose clock is punctual hears of a renewal before two polls    *)
(* have passed.                                                            *)
LEMMA PunctualSince ==
  ASSUME Calm, NEW p \in Process, Punctual(p), p.at \in {"leading", "renewing"}
  PROVE  p.since < 2 * Poll
<1>1. /\ p.wait \in Int /\ p.flight \in Nat /\ p.since \in Nat
      /\ Poll \in Nat \ {0} /\ Delay \in Nat /\ 2 * Delay < Poll /\ p.flight <= Delay
  BY ProcessParts DEF Calm, Punctual, InTime
<1> QED  BY <1>1 DEF Punctual

(* As long as the store and Slack answer and two awaits are shorter than a *)
(* poll, for any number of gateways that die, stop, start and race as they *)
(* like and for any number of pins: a gateway that serves is the one the   *)
(* lease names and nobody else may take it, but before the first renewal   *)
(* of one that took about a poll or more to begin.                         *)
THEOREM HealthyKeepsInCalm == ASSUME Calm PROVE Spec => []HealthyKeeps
<1> DEFINE PInv == TypeOK /\ \A g \in Gateway : Punctual(gw[g])
<1>1. ASSUME PInv, YInv
      PROVE  HealthyKeeps
  <2> SUFFICES ASSUME NEW g \in Gateway, Serves(g), Abreast(g)
               PROVE  Leads(g)
    BY DEF HealthyKeeps
  <2>1. gw[g] \in Process /\ Punctual(gw[g]) /\ gw[g].at \in {"leading", "renewing"}
    BY <1>1 DEF TypeOK, Serves
  <2>2. gw[g].since < 2 * Poll
    BY <2>1, PunctualSince
  <2>3. gw[g].held < Ttl
    BY <2>1, <2>2, ProcessParts DEF Abreast
  <2>4. Young(g)
    BY <2>1, <2>3 DEF Young, Settled
  <2> QED  BY <1>1, <2>4, YoungHolds DEF Leads, Own
<1> QED  BY <1>1, AlwaysPunctual, YoungInvariance, PTL

(* README: "Only one gateway serves a Slack app at a time".  So it is in   *)
(* the calm if moreover there are so few pins that clearing them and one   *)
(* more await take less than a poll.  With more pins, or with failures, it *)
(* is not: see the README.                                                 *)
THEOREM OneServesInCalm ==
  ASSUME Calm, Clearing + Delay < Poll PROVE Spec => []OneServes
<1> DEFINE PInv == TypeOK /\ \A g \in Gateway : Punctual(gw[g])
           TInv == TypeOK /\ \A g \in Gateway : Lags(gw[g])
<1>1. ASSUME PInv, TInv, HealthyKeeps
      PROVE  OneServes
  <2>1. ASSUME NEW g \in Gateway, Serves(g)
        PROVE  lease.holder = g
    <3>1. /\ gw[g] \in Process /\ Punctual(gw[g]) /\ Lags(gw[g])
          /\ gw[g].at \in {"leading", "renewing"}
      BY <1>1, <2>1 DEF TypeOK, Serves
    <3>2. gw[g].since < 2 * Poll /\ Keeps(gw[g])
      BY <3>1, PunctualSince DEF Lags
    <3>3. Abreast(g)
      BY <3>1, <3>2, ProcessParts DEF Abreast, Keeps
    <3> QED  BY <1>1, <2>1, <3>3 DEF HealthyKeeps, Leads
  <2> QED  BY <2>1 DEF OneServes
<1> QED  BY <1>1, AlwaysPunctual, AlwaysLags, HealthyKeepsInCalm, PTL
=============================================================================
