------------------------------- MODULE Lease -------------------------------
(***************************************************************************)
(* Which gateway serves (crates/murtaugh-gateway/src/run.rs `serve`, over  *)
(* crates/murtaugh-store/src/firestore.rs `FirestoreLeader`).              *)
(*                                                                         *)
(* The gateways of one Slack app share one document, the lease.  Every     *)
(* write of it is conditional on the version (update time) the writer read *)
(* or wrote last.  Versions are never reused, so all that matters of the   *)
(* version a gateway knows is whether it still is the document's:          *)
(* `current` is the set of gateways of which that is true.                 *)
(*                                                                         *)
(* Time is discrete and relative: each clock counts from the event the     *)
(* code measures from, up to the largest value it is compared with, so no  *)
(* run is cut off by a last instant.  Timers fire when they are due, and   *)
(* an await ends within Delay: in the code the HTTP client's timeout.      *)
(* Clearing the pins is up to Clears awaits in a row.                      *)
(***************************************************************************)
EXTENDS Integers

CONSTANTS
  Gateway,        \* gateway processes
  Gone,           \* the name of any process that is no more
  Poll,           \* a third of LEASE_TTL: how often `lead` contends, and a
                  \* leader renews
  Delay,          \* the longest an await of the store or of Slack takes
  Clears,         \* the most awaits clearing the pins takes: one for each page
                  \* of their listing, and one for each pin
  AfterFailure,   \* STANDBY_AFTER_FAILURE
  Faults          \* whether the store and Slack may fail, and writes land late

ASSUME GoneAssumption  == Gone \notin Gateway
ASSUME PollAssumption  == Poll \in Nat \ {0}
ASSUME DelayAssumption == Delay \in Nat /\ AfterFailure \in Nat
ASSUME ClearsAssumption == Clears \in Nat \ {0}
ASSUME FaultAssumption == Faults \in BOOLEAN

VARIABLES
  lease,     \* the document
  current,   \* the gateways that know its version
  strays,    \* writes given up on by their sender that may still land
  gw,        \* Gateway -> where its `serve` loop is
  vacant     \* how long ago the one gateway serving died while others stood
             \* by, who live on and have not won the lease yet, or NoVacancy

vars == <<lease, current, strays, gw, vacant>>

Ttl       == 3 * Poll
StepDown  == 2 * Poll   \* a leader that cannot renew gives up after this
Clearing  == Clears * Delay
Overdue   == Ttl + 4 * Delay + Clearing + 1
NoVacancy == -1

AtMost(n, limit) == IF n < limit THEN n ELSE limit

(* Stages of `serve`, by what the process waits for. *)
Sleeps  == {"polling", "failed"}
Contends == {"reading", "claiming"}
Reigns  == {"clearing", "connecting", "leading", "renewing", "releasing"}
Awaits  == {"reading", "claiming", "clearing", "connecting", "renewing", "releasing"}
Stages  == Sleeps \cup Contends \cup Reigns \cup {"down"}

Process == [at     : Stages,
            wait   : Int,                              \* until its timer fires
            flight : 0 .. Clearing,                    \* how long its await takes
            reply  : {"none", "applied", "conflict"},  \* what the store did with its write
            since  : 0 .. Ttl,                         \* `renewed_at.elapsed()`
            held   : 0 .. Overdue,                     \* since its last write took effect
            after  : {"polling", "failed", "down"}]    \* what a release is followed by

Standing(stage, wait) ==
  [at |-> stage, wait |-> wait, flight |-> 0, reply |-> "none", since |-> 0,
   held |-> 0, after |-> "polling"]

Document == [holder : Gateway \cup {Gone}, released : BOOLEAN, age : 0 .. Ttl]
Write    == [holder : Gateway \cup {Gone}, release : BOOLEAN]

At(g, stage) == gw[g].at = stage

(* Slack's events reach the chat side through an open socket. *)
Serves(g) == gw[g].at \in {"leading", "renewing"}

(* A document that does not exist yet is one anybody may write. *)
Init ==
  /\ lease   = [holder |-> Gone, released |-> TRUE, age |-> Ttl]
  /\ current = {}
  /\ strays  = {}
  /\ gw      = [g \in Gateway |-> Standing("polling", 0)]
  /\ vacant  = NoVacancy

----------------------------------------------------------------------------
(* The document *)

(* A bug's: a lease ends only when it is released. *)
NeverExpires == lease.released

(* `expired` in `acquire`, by the server's own clock. *)
Free == lease.released \/ lease.age >= Ttl

(* A bug's: anybody may take the lease. *)
ClaimsAnyway(g) == TRUE

(* May a gateway that reads the document now write it? *)
MayClaim(g) == Free \/ lease.holder = g

HeldBy(h) == [holder |-> h, released |-> FALSE, age |-> 0]

(* A bug's: writes carry no precondition. *)
WritesAnyway(g) == TRUE

(* The precondition: the version is the document's. *)
Holds(g) == g \in current

(* The store commits g's write, or refuses it: because another write came  *)
(* first, or (ABORTED) only because of contention.                         *)
Commits(g) ==
  /\ gw[g].at \in {"claiming", "renewing"}
  /\ gw[g].reply = "none"
  /\ Holds(g)
  /\ lease'   = HeldBy(g)
  /\ current' = {g}
  /\ strays'  = {}
  /\ gw' = [gw EXCEPT ![g].reply = "applied", ![g].held = 0]
  /\ UNCHANGED vacant

CommitsRelease(g) ==
  /\ At(g, "releasing")
  /\ gw[g].reply = "none"
  /\ Holds(g)
  /\ lease'   = [lease EXCEPT !.released = TRUE]
  /\ current' = {}
  /\ strays'  = {}
  /\ gw' = [gw EXCEPT ![g].reply = "applied"]
  /\ UNCHANGED vacant

Conflicts(g) ==
  /\ gw[g].at \in {"claiming", "renewing", "releasing"}
  /\ gw[g].reply = "none"
  /\ ~Holds(g) \/ Faults
  /\ gw' = [gw EXCEPT ![g].reply = "conflict"]
  /\ UNCHANGED <<lease, current, strays, vacant>>

(* A write whose sender gave up on it lands after all, if nothing else was *)
(* written since.                                                          *)
StrayLands(w) ==
  /\ Faults
  /\ w \in strays
  /\ lease' = IF w.release THEN [lease EXCEPT !.released = TRUE]
              ELSE HeldBy(w.holder)
  /\ current' = {}
  /\ strays'  = {}
  /\ UNCHANGED <<gw, vacant>>

(* What g leaves on its way when it stops waiting for the answer. *)
Left(g) ==
  IF gw[g].at \in {"claiming", "renewing", "releasing"} /\ gw[g].reply = "none" /\ Holds(g)
    THEN {[holder |-> g, release |-> At(g, "releasing")]}
    ELSE {}

(* It does not learn the version of a write whose answer is lost. *)
StillCurrent(g) == IF gw[g].reply = "applied" THEN current \ {g} ELSE current

----------------------------------------------------------------------------
(* `lead` *)

(* g waits for nothing any more, or for its next timer. *)
Enter(g, stage, wait) == gw' = [gw EXCEPT ![g] = Standing(stage, wait)]

(* g goes on to its next await, or back to its select, keeping its clocks. *)
Turn(g, stage) ==
  gw' = [gw EXCEPT ![g].at = stage, ![g].flight = 0, ![g].reply = "none"]

Contend(g) ==
  /\ At(g, "polling")
  /\ gw[g].wait <= 0
  /\ Turn(g, "reading")
  /\ UNCHANGED <<lease, current, strays, vacant>>

(* `acquire` reads: the lease is free or its own, and it writes, on        *)
(* condition that the document still is what it read ...                   *)
ReadFree(g) ==
  /\ At(g, "reading")
  /\ MayClaim(g)
  /\ Turn(g, "claiming")
  /\ current' = current \cup {g}
  /\ UNCHANGED <<lease, strays, vacant>>

(* ... or another holds it. *)
ReadHeld(g) ==
  /\ At(g, "reading")
  /\ ~MayClaim(g)
  /\ Enter(g, "polling", Poll)
  /\ UNCHANGED <<lease, current, strays, vacant>>

ReadErrs(g) ==
  /\ Faults
  /\ At(g, "reading")
  /\ Enter(g, "polling", Poll)
  /\ UNCHANGED <<lease, current, strays, vacant>>

(* The claim was answered. *)
Won(g) ==
  /\ At(g, "claiming")
  /\ gw[g].reply = "applied"
  /\ Turn(g, "clearing")
  /\ vacant' = NoVacancy
  /\ UNCHANGED <<lease, current, strays>>

LostRace(g) ==
  /\ At(g, "claiming")
  /\ gw[g].reply = "conflict"
  /\ Enter(g, "polling", Poll)
  /\ current' = current \ {g}
  /\ UNCHANGED <<lease, strays, vacant>>

ClaimErrs(g) ==
  /\ Faults
  /\ At(g, "claiming")
  /\ Enter(g, "polling", Poll)
  /\ current' = current \ {g}
  /\ strays' = strays \cup Left(g)
  /\ UNCHANGED <<lease, vacant>>

----------------------------------------------------------------------------
(* `serve` and `serve_as_leader` *)

(* The pins are listed, a page at a time, and removed, one commit each, a  *)
(* failing one passed over; the lease is not renewed meanwhile.  Then      *)
(* nodes are let in, `renewed_at` is set to now, and the Slack socket is   *)
(* opened.                                                                 *)
Cleared(g) ==
  /\ At(g, "clearing")
  /\ gw' = [gw EXCEPT ![g].at = "connecting", ![g].flight = 0,
                      ![g].reply = "none", ![g].since = 0]
  /\ UNCHANGED <<lease, current, strays, vacant>>

(* The first tick of the interval is at once and is taken here. *)
Connected(g) ==
  /\ At(g, "connecting")
  /\ gw' = [gw EXCEPT ![g].at = "leading", ![g].flight = 0, ![g].wait = Poll]
  /\ UNCHANGED <<lease, current, strays, vacant>>

(* Releases, to stand by or to end afterwards. *)
Releases(g, after) ==
  /\ gw' = [gw EXCEPT ![g].at = "releasing", ![g].flight = 0,
                      ![g].reply = "none", ![g].after = after]
  /\ UNCHANGED <<lease, current, strays, vacant>>

ConnectFails(g) == Faults /\ At(g, "connecting") /\ Releases(g, "failed")

SocketEnds(g) == Faults /\ At(g, "leading") /\ Releases(g, "failed")

(* SIGTERM; while it renews, the leader does not look.  *)
ShutsDown(g) == At(g, "leading") /\ Releases(g, "down")

(* A bug's: the leader renews once per lease, not three times. *)
NextTickLate(wait) == wait + Ttl

(* The interval does not skip ticks it missed during a long renewal. *)
NextTick(wait) == wait + Poll

RenewDue(g) ==
  /\ At(g, "leading")
  /\ gw[g].wait <= 0
  /\ gw' = [gw EXCEPT ![g].at = "renewing", ![g].flight = 0,
                      ![g].reply = "none", ![g].wait = NextTick(@)]
  /\ UNCHANGED <<lease, current, strays, vacant>>

Renewed(g) ==
  /\ At(g, "renewing")
  /\ gw[g].reply = "applied"
  /\ gw' = [gw EXCEPT ![g].at = "leading", ![g].flight = 0,
                      ![g].reply = "none", ![g].since = 0]
  /\ UNCHANGED <<lease, current, strays, vacant>>

(* Lost: stands by, which contends for the lead at once. *)
RenewRefused(g) ==
  /\ At(g, "renewing")
  /\ gw[g].reply = "conflict"
  /\ Enter(g, "polling", 0)
  /\ current' = current \ {g}
  /\ UNCHANGED <<lease, strays, vacant>>

(* As bugs would have it: the whole lease is the limit; there is none. *)
GivesUpLate(g)  == gw[g].since >= Ttl
NeverGivesUp(g) == FALSE

(* Two thirds of the lease are the limit, counted from the last answer. *)
GivesUp(g) == gw[g].since >= StepDown

RenewErrs(g) ==
  /\ Faults
  /\ At(g, "renewing")
  /\ IF GivesUp(g)
       THEN Enter(g, "polling", 0) /\ current' = current \ {g}
       ELSE Turn(g, "leading")     /\ current' = StillCurrent(g)
  /\ strays' = strays \cup Left(g)
  /\ UNCHANGED <<lease, vacant>>

(* The release was answered, or not: stands by after a while, or is gone. *)
Released(g) ==
  /\ At(g, "releasing")
  /\ gw[g].reply # "none"
  /\ gw[g].after = "failed"
  /\ Enter(g, "failed", AfterFailure)
  /\ current' = current \ {g}
  /\ UNCHANGED <<lease, strays, vacant>>

ReleaseErrs(g) ==
  /\ Faults
  /\ At(g, "releasing")
  /\ gw[g].after = "failed"
  /\ Enter(g, "failed", AfterFailure)
  /\ current' = current \ {g}
  /\ strays' = strays \cup Left(g)
  /\ UNCHANGED <<lease, vacant>>

StandsBy(g) ==
  /\ At(g, "failed")
  /\ gw[g].wait <= 0
  /\ Enter(g, "polling", 0)
  /\ UNCHANGED <<lease, current, strays, vacant>>

----------------------------------------------------------------------------
(* The end of a process, and the next one *)

(* Whatever was g's is now nobody's: a process that starts again has       *)
(* another name.                                                           *)
Ends(g) ==
  LET gone(h) == IF h = g THEN Gone ELSE h
  IN /\ Enter(g, "down", 0)
     /\ lease' = [lease EXCEPT !.holder = gone(@)]
     /\ current' = current \ {g}
     /\ strays' = {[w EXCEPT !.holder = gone(@)] : w \in strays \cup Left(g)}

StoodBy == \E g \in Gateway : gw[g].at \in {"polling"} \cup Contends

(* The process dies, the one gateway serving perhaps, while others stand   *)
(* by to take over.                                                        *)
Dies(g) ==
  /\ ~At(g, "down")
  /\ Ends(g)
  /\ vacant' = IF /\ Serves(g) /\ \A h \in Gateway \ {g} : ~Serves(h)
                   /\ StoodBy
                 THEN 0 ELSE NoVacancy

(* `serve` returns: the lease is released, *)
Stops(g) ==
  /\ At(g, "releasing")
  /\ gw[g].after = "down"
  /\ gw[g].reply # "none"
  /\ Ends(g)
  /\ vacant' = NoVacancy

(* or that could not be told; it was told to stop while it stood by; the   *)
(* pins could not be read.                                                 *)
Exits(g) ==
  /\ \/ Faults /\ At(g, "releasing") /\ gw[g].after = "down"
     \/ gw[g].at \in Sleeps
     \/ Faults /\ At(g, "clearing")
  /\ Ends(g)
  /\ vacant' = NoVacancy

Starts(g) ==
  /\ At(g, "down")
  /\ Enter(g, "polling", 0)
  /\ UNCHANGED <<lease, current, strays, vacant>>

----------------------------------------------------------------------------
(* Time *)

(* A bug's: an await of the store or Slack may take for ever. *)
DueTimer(g) == gw[g].at \in Sleeps \cup {"leading"} /\ gw[g].wait <= 0

(* How long a process stays at a stage at which it awaits something. *)
AtLongest(stage) == IF stage = "clearing" THEN Clearing ELSE Delay

(* A timer is due, or an await is at its limit. *)
Due(g) ==
  \/ gw[g].at \in Sleeps \cup {"leading"} /\ gw[g].wait <= 0
  \/ gw[g].at \in Awaits /\ gw[g].flight >= AtLongest(gw[g].at)

(* One process's clocks, one unit later. *)
Older(p) ==
  [p EXCEPT
     !.wait   = IF p.at \in Sleeps \cup {"leading", "renewing"} THEN @ - 1 ELSE @,
     !.flight = IF p.at \in Awaits THEN @ + 1 ELSE @,
     !.since  = IF p.at \in {"connecting", "leading", "renewing"}
                  THEN AtMost(@ + 1, Ttl) ELSE @,
     !.held   = IF p.at \in Reigns \cup {"claiming"} THEN AtMost(@ + 1, Overdue) ELSE @]

Tick ==
  /\ \A g \in Gateway : ~Due(g)
  /\ lease'  = [lease EXCEPT !.age = AtMost(@ + 1, Ttl)]
  /\ gw'     = [g \in Gateway |-> Older(gw[g])]
  /\ vacant' = IF vacant = NoVacancy THEN vacant ELSE AtMost(vacant + 1, Overdue)
  /\ UNCHANGED <<current, strays>>

----------------------------------------------------------------------------
(* What a gateway and the store do of themselves, nothing failing. *)
Proceeds(g) ==
  \/ Contend(g) \/ ReadFree(g) \/ ReadHeld(g) \/ Won(g) \/ LostRace(g)
  \/ Cleared(g) \/ Connected(g) \/ RenewDue(g) \/ Renewed(g) \/ RenewRefused(g)
  \/ Released(g) \/ Stops(g) \/ StandsBy(g)
  \/ Commits(g) \/ CommitsRelease(g) \/ Conflicts(g)

Next ==
  \/ \E g \in Gateway :
       \/ Proceeds(g)
       \/ ReadErrs(g) \/ ClaimErrs(g) \/ RenewErrs(g) \/ ReleaseErrs(g)
       \/ ConnectFails(g) \/ SocketEnds(g) \/ ShutsDown(g)
       \/ Dies(g) \/ Exits(g) \/ Starts(g)
  \/ \E w \in strays : StrayLands(w)
  \/ Tick

Spec == Init /\ [][Next]_vars

(* Time passes, a gateway's loop runs, and the store answers. *)
Fairness == WF_vars(Tick) /\ \A g \in Gateway : WF_vars(Proceeds(g))

FairSpec == Spec /\ Fairness
----------------------------------------------------------------------------
(* Properties *)

TypeOK ==
  /\ lease \in Document
  /\ current \subseteq Gateway
  /\ strays \subseteq Write
  /\ gw \in [Gateway -> Process]
  /\ vacant \in {NoVacancy} \cup 0 .. Overdue

(* The lease passes to another process only once it is released or has     *)
(* expired, however long the claim was on its way and whoever wrote        *)
(* meanwhile, also when the claim lands after its sender gave up on it.    *)
NoTheft ==
  [][lease'.holder # lease.holder /\ lease'.holder # Gone => Free]_vars

(* Of all the gateways that hold themselves to lead, only the one the      *)
(* document names, and before it is released, can write the document once  *)
(* more: nobody else's renewal or release gets through, of a leader that   *)
(* slept through its lease, say, while another took over.                  *)
Fenced ==
  \A g \in Gateway :
    gw[g].at \in Reigns /\ Holds(g) => lease.holder = g /\ ~lease.released

(* The lease is g's, and nobody else may take it. *)
Leads(g) == lease.holder = g /\ ~Free

(* A gateway that serves does so on its lease, which is nobody else's to   *)
(* take, as long as its last write is younger than a lease.  After that it *)
(* goes on for an await, if awaits are short; or, before the first answer  *)
(* to a renewal, two thirds of a lease after the pins were cleared,        *)
(* however long that took: the clock it steps down by starts only then.    *)
OverstaysBriefly ==
  \A g \in Gateway : Serves(g) =>
    /\ gw[g].held < Ttl => Leads(g)
    /\ gw[g].held <= Ttl + Delay \/ gw[g].held <= StepDown + 3 * Delay + Clearing

(* However long awaits take, the overlap is bounded by the clearing of the *)
(* pins and by what an await may add to what a leader's clocks show at the *)
(* renewal that fails last.                                                *)
OverstayBounded ==
  \A g \in Gateway : Serves(g) =>
    \/ gw[g].held < Ttl + 2 * Delay + Clearing
    \/ gw[g].held <= Poll + 3 * Delay + Clearing

(* README: "Only one gateway serves a Slack app at a time", "with          *)
(* `firestore` it holds across every gateway sharing the collection".      *)
OneServes == \A g, h \in Gateway : Serves(g) /\ Serves(h) => g = h

(* The clock g steps down by is less than a poll behind the lease's: after *)
(* its first renewal it is, and before that if the pins were cleared fast. *)
Abreast(g) == gw[g].held < gw[g].since + Poll

(* A gateway that serves and whose store answers is renewed in time: its   *)
(* lease is never there for another to take.  One that took a poll or more *)
(* to clear the pins may lose it, until its first renewal.                 *)
HealthyKeeps ==
  \A g \in Gateway : Serves(g) /\ Abreast(g) => Leads(g)

(* README: "a standby takes over within 30 seconds of the leader dying".   *)
TakesOverInTime == vacant <= Ttl

(* As long as the gateways stay up, one of them serves again and again,    *)
(* whichever died before and whatever it left in the document.             *)
Led     == \E g \in Gateway : Serves(g)
AllUp   == \A g \in Gateway : ~At(g, "down")
LedAgain == <>[]AllUp => []<>Led
=============================================================================
