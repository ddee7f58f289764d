------------------------------ MODULE MCWaits ------------------------------
(* Small instances of the parts in which somebody waits, in one run: a     *)
(* behaviour moves one of them, `part`, and leaves the others as they      *)
(* start, for they share no state in the code either.                      *)
EXTENDS Background

VARIABLES
  part,
  \* Bridge
  link, ready, pump, session, live, turn, call, resets, slow,
  \* Watch
  loop, inbox, tools, ran, waiting, signing, thinker, status, silence, used,
  \* Lease
  lease, current, strays, gw, vacant

bridgeVars == <<link, ready, pump, session, live, turn, call, resets, slow>>
watchVars  == <<loop, inbox, tools, ran, waiting, signing, thinker, status, silence, used>>
leaseVars  == <<lease, current, strays, gw, vacant>>
allVars    == <<part, vars, bridgeVars, watchVars, leaseVars>>

(* One conversation of the editor's, and a call held for the person.       *)
Br == INSTANCE Bridge WITH
  Session <- {"s1"}, Call <- {"c1"}, NoSession <- "none", MaxSaid <- 2,
  MaxResets <- 2, MaxSlow <- 1

(* One tool, whose ceiling is longer than the idle timeout.                *)
Wa == INSTANCE Watch WITH
  Tool <- {"t1"}, IdleTimeout <- 2, ToolCeiling <- 3, MaxEvents <- 2,
  MaxSlow <- 1, MaxFaults <- 1

(* Two gateways over a store that answers in time.                         *)
Le == INSTANCE Lease WITH
  Gateway <- {"g1", "g2"}, Gone <- "gone", Poll <- 3, Delay <- 1,
  Clears <- 5, AfterFailure <- 2, Faults <- FALSE

(* The constants of each part are what its module asks of them. *)
ASSUME WaitsFit ==
  /\ Br!NoSessionAssumption /\ Br!CallAssumption /\ Br!BoundsAssumption
  /\ Wa!TimesAssumption /\ Wa!BoundsAssumption

InitWaits ==
  /\ part \in {"background", "bridge", "watch", "lease"}
  /\ Init /\ Br!Init /\ Le!Init
  /\ Wa!Init /\ (part # "watch" => ~signing)

NextWaits ==
  \/ /\ part = "background" /\ Next
     /\ UNCHANGED <<part, bridgeVars, watchVars, leaseVars>>
  \/ /\ part = "bridge" /\ Br!Next
     /\ UNCHANGED <<part, vars, watchVars, leaseVars>>
  \/ /\ part = "watch" /\ Wa!Next
     /\ UNCHANGED <<part, vars, bridgeVars, leaseVars>>
  \/ /\ part = "lease" /\ Le!Next
     /\ UNCHANGED <<part, vars, bridgeVars, watchVars>>

(* Each part is as fair as its module says while it is the one that moves. *)
Fairness ==
  /\ \A w \in Task : WF_vars(part = "background" /\ TaskStep(w))
  /\ WF_bridgeVars(part = "bridge" /\ Br!PersonActs)
  /\ WF_bridgeVars(part = "bridge" /\ Br!Turning("s1"))
  /\ WF_bridgeVars(part = "bridge" /\ Br!TakesPrompt("s1"))
  /\ WF_bridgeVars(part = "bridge" /\ Br!Ends("s1"))
  /\ WF_bridgeVars(part = "bridge" /\ Br!Decided("c1"))
  /\ WF_watchVars(part = "watch" /\ Wa!LoopStep)
  /\ WF_watchVars(part = "watch" /\ Wa!Sets)
  /\ SF_watchVars(part = "watch" /\ Wa!Cancelled)
  /\ WF_watchVars(part = "watch" /\ Wa!Tick)
  /\ WF_watchVars(part = "watch" /\ Wa!CardEnds)
  /\ WF_leaseVars(part = "lease" /\ Le!Tick)
  /\ \A g \in {"g1", "g2"} : WF_leaseVars(part = "lease" /\ Le!Proceeds(g))

SpecWaits == InitWaits /\ [][NextWaits]_allVars /\ Fairness
-----------------------------------------------------------------------------
(* Properties *)

(* In the editor a turn ends once, a tool runs only as the person decided, *)
(* and the link is waited for only while it is down.                       *)
BridgeKeepsItsWord ==
  part = "bridge" => Br!TypeOK /\ Br!EndedIsEnded /\ Br!RunsOnlyAllowed /\ Br!ReadyCatchesUp

(* What goes by a clock: a silent turn is noticed and its status cleared,  *)
(* and a healthy leader keeps its lease.                                   *)
ClocksHold ==
  /\ part = "watch" => Wa!TypeOK /\ Wa!SilenceIsNoticed /\ Wa!StatusCleared
  /\ part = "lease" => Le!HealthyKeeps

(* Whoever waits is not left waiting: every background event is drawn or   *)
(* dropped, every prompt of an editor answered, every turn gets over but   *)
(* for a sign-in that stays pending, and one of the gateways leads again.  *)
NobodyWaitsForever ==
  /\ EveryEventSettles
  /\ Br!EveryPromptAnswered
  /\ part = "watch" => Wa!TurnEnds
  /\ part = "lease" => Le!LedAgain
=============================================================================
