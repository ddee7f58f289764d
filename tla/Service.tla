-------------------------------- MODULE Service -------------------------------
(***************************************************************************)
(* The daemon as a macOS LaunchAgent                                       *)
(* (crates/murtaugh-common/src/launchd.rs).  A command is a process that   *)
(* looks at the plist and asks launchd what it runs, and then acts, step   *)
(* by step; any step may fail, and another command, in another terminal,   *)
(* may take steps in between.  Two installs stage their plist in one file. *)
(*                                                                         *)
(* One alias.  launchd registers a job at `bootstrap`, and may not run it  *)
(* before `kickstart` (launchd.rs:442).                                    *)
(***************************************************************************)
EXTENDS Naturals, FiniteSets

CONSTANTS
  Command,    \* the commands given; an install's name is what its plist says
  NoCommand,
  MaxFaults   \* bounds the model: steps that fail

Verbs == {"install", "update", "uninstall", "start", "stop", "restart", "force"}

CommandAssumption == NoCommand \notin Command
BoundsAssumption  == MaxFaults \in Nat

VARIABLES
  plist,   \* the LaunchAgent's file: [of: whose, whole], or None
  staged,  \* the staged file: the same
  job,     \* what launchd has: nothing, the job, or the job run once and kept alive
  cmd,     \* Command -> [verb, at, was: what it found, alone: no other ran meanwhile]
  said,    \* Command -> what it told its user
  faults

vars == <<plist, staged, job, cmd, said, faults>>

None   == [of |-> NoCommand, whole |-> FALSE]
Loaded == job # "off"

Installed == plist # None
Fails     == faults < MaxFaults /\ faults' = faults + 1
Verb(c)   == cmd[c].verb
At(c, stage) == cmd[c].at = stage
Others(c) == {d \in Command \ {c} : cmd[d].at \notin {"new", "over"}}

(* While c takes a step every other command is not alone. *)
Moved(c, entry) ==
  cmd' = [d \in Command |->
            IF d = c THEN [entry EXCEPT !.alone = @ /\ Others(c) = {}]
            ELSE IF d \in Others(c) THEN [cmd[d] EXCEPT !.alone = FALSE] ELSE cmd[d]]

Goes(c, stage) == Moved(c, [cmd[c] EXCEPT !.at = stage]) /\ UNCHANGED said
Says(c, what)  == Moved(c, [cmd[c] EXCEPT !.at = "over"]) /\ said' = [said EXCEPT ![c] = what]
GivesUp(c)     == Fails /\ Says(c, "failed")

-----------------------------------------------------------------------------
(* `install`: an existing plist is replaced only with --update-existing.      *)
Never(c)    == FALSE
Declines(c) == Installed /\ Verb(c) = "install"

Looks(c) ==
  /\ At(c, "new") /\ Verb(c) \in {"install", "update"}
  /\ \/ Declines(c) /\ Says(c, "exists")
     \/ ~Declines(c) /\ Moved(c, [cmd[c] EXCEPT !.at = "staging", !.was = Installed])
        /\ UNCHANGED said
  /\ UNCHANGED <<plist, staged, job, faults>>

(* The staged file is opened empty.  Once renamed it is the plist, and who    *)
(* had it open still writes it.                                              *)
Stages(c) ==
  /\ At(c, "staging")
  /\ staged' = [of |-> c, whole |-> FALSE]
  /\ Goes(c, "writing")
  /\ UNCHANGED <<plist, job, faults>>

Writes(c) ==
  /\ At(c, "writing")
  /\ LET whole == [of |-> c, whole |-> TRUE]
         torn  == [of |-> c, whole |-> FALSE]
     IN staged' = (IF staged = torn THEN whole ELSE staged)
        /\ plist' = (IF plist = torn THEN whole ELSE plist)
  /\ Goes(c, "renaming")
  /\ UNCHANGED <<job, faults>>

(* A write that fails leaves what is there. *)
Stops(c) ==
  /\ At(c, "staging") \/ At(c, "writing")
  /\ GivesUp(c)
  /\ UNCHANGED <<plist, staged, job>>

Renames(c) ==
  /\ At(c, "renaming")
  /\ \/ /\ staged # None
        /\ plist' = staged /\ staged' = None
        /\ Goes(c, "linting")
     \/ staged = None /\ Says(c, "failed") /\ UNCHANGED <<plist, staged>>
  /\ UNCHANGED <<job, faults>>

Lints(c) ==
  /\ At(c, "linting")
  /\ Says(c, IF plist.whole THEN "installed" ELSE "failed")
  /\ UNCHANGED <<plist, staged, job, faults>>

-----------------------------------------------------------------------------
(* The others need a plist, and ask launchd whether it has the job. *)
Acting == {"uninstall", "start", "stop", "restart", "force"}

Plan(verb, running) ==
  CASE verb = "start"               -> IF running THEN "already up" ELSE "bootstrap"
    [] verb = "stop"                -> IF running THEN "bootout" ELSE "already down"
    [] verb = "uninstall"           -> IF running THEN "bootout" ELSE "remove"
    [] verb \in {"restart", "force"} ->
         IF ~running THEN "bootstrap" ELSE IF verb = "force" THEN "kill" ELSE "bootout"

LeavesItRunning(verb, running) == IF verb = "uninstall" THEN "remove" ELSE Plan(verb, running)
Wanted(verb, running)          == Plan(verb, running)

AsksLaunchd(c) ==
  /\ At(c, "new") /\ Verb(c) \in Acting
  /\ \/ ~Installed /\ Says(c, "not installed") /\ UNCHANGED faults
     \/ Installed /\ GivesUp(c)
     \/ /\ Installed /\ UNCHANGED faults
        /\ LET next == Wanted(Verb(c), Loaded) IN
           IF next \in {"already up", "already down"} THEN Says(c, next)
           ELSE Moved(c, [cmd[c] EXCEPT !.at = next, !.was = Loaded]) /\ UNCHANGED said
  /\ UNCHANGED <<plist, staged, job>>

(* launchd takes a plist it can read, if it has not the job yet; it may run   *)
(* the job at once, or wait for the kick.                                    *)
Bootstraps(c) ==
  /\ At(c, "bootstrap")
  /\ IF plist.whole /\ ~Loaded
     THEN \/ job' \in {"loaded", "kept"} /\ Goes(c, "kick") /\ UNCHANGED faults
          \/ GivesUp(c) /\ UNCHANGED job
     ELSE Says(c, "failed") /\ UNCHANGED <<job, faults>>
  /\ UNCHANGED <<plist, staged>>

Ended(c) == IF cmd[c].was THEN "restarted" ELSE "started"

Kicks(c) ==
  /\ At(c, "kick") \/ At(c, "kill")
  /\ \/ Loaded /\ job' = "kept" /\ Says(c, Ended(c))
        /\ UNCHANGED faults
     \/ ~Loaded /\ Says(c, "failed") /\ UNCHANGED <<job, faults>>
     \/ GivesUp(c) /\ UNCHANGED job
  /\ UNCHANGED <<plist, staged>>

After(c) ==
  CASE Verb(c) = "uninstall" -> "remove"
    [] Verb(c) = "restart"   -> "bootstrap"
    [] OTHER                 -> "over"

Bootouts(c) ==
  /\ At(c, "bootout")
  /\ \/ /\ Loaded /\ job' = "off" /\ UNCHANGED faults
        /\ IF After(c) = "over" THEN Says(c, "stopped") ELSE Goes(c, After(c))
     \/ ~Loaded /\ Says(c, "failed") /\ UNCHANGED <<job, faults>>
     \/ GivesUp(c) /\ UNCHANGED job
  /\ UNCHANGED <<plist, staged>>

Removes(c) ==
  /\ At(c, "remove")
  /\ \/ Installed /\ plist' = None /\ Says(c, "uninstalled") /\ UNCHANGED faults
     \/ ~Installed /\ Says(c, "failed") /\ UNCHANGED <<plist, faults>>
     \/ GivesUp(c) /\ UNCHANGED plist
  /\ UNCHANGED <<staged, job>>

(* Nothing is installed, or an earlier gateway is, which may be running. *)
Earlier == [of |-> NoCommand, whole |-> TRUE]

Init ==
  /\ plist \in {None, Earlier} /\ staged = None
  /\ job \in IF Installed THEN {"off", "kept"} ELSE {"off"}
  /\ cmd \in [Command -> {[verb |-> v, at |-> "new", was |-> FALSE, alone |-> TRUE] : v \in Verbs}]
  /\ said   = [c \in Command |-> "nothing"]
  /\ faults = 0

Step(c) ==
  \/ Looks(c) \/ Stages(c) \/ Writes(c) \/ Stops(c) \/ Renames(c) \/ Lints(c)
  \/ AsksLaunchd(c) \/ Bootstraps(c) \/ Kicks(c) \/ Bootouts(c) \/ Removes(c)

Next == \E c \in Command : Step(c)

Spec == Init /\ [][Next]_vars

-----------------------------------------------------------------------------
Places == {"new", "staging", "writing", "renaming", "linting", "bootstrap", "kick",
            "kill", "bootout", "remove", "over"}
Answers == {"nothing", "failed", "exists", "installed", "not installed", "already up",
            "already down", "started", "restarted", "stopped", "uninstalled"}

TypeOK ==
  /\ {plist, staged} \subseteq [of : Command \cup {NoCommand}, whole : BOOLEAN]
  /\ job \in {"off", "loaded", "kept"}
  /\ cmd \in [Command -> [verb : Verbs, at : Places, was : BOOLEAN, alone : BOOLEAN]]
  /\ said \in [Command -> Answers]
  /\ faults \in 0 .. MaxFaults

(* The plist is whole, and one that stood is replaced only by who asked to,   *)
(* unless two installs overlapped.                                           *)
KeepsPlist ==
  \A c \in Command :
    cmd'[c] # cmd[c] /\ cmd'[c].at # cmd[c].at /\ plist' # plist /\ plist' # None =>
      \/ ~cmd'[c].alone \/ Others(c) # {}
      \/ plist'.whole /\ (Verb(c) = "install" => plist = None)
PlistKept == [][KeepsPlist]_vars

(* What a command says it did is so when it says it: a job that it says it    *)
(* started or restarted is run and kept, one it stopped is gone from launchd; *)
(* and, when no other command ran meanwhile, one it uninstalled is gone from  *)
(* the disk and from launchd, and what it installed is its own plist.         *)
SpeaksTrue ==
  \A c \in Command : said'[c] # said[c] =>
    /\ said'[c] \in {"started", "restarted"} => job' = "kept"
    /\ said'[c] = "stopped" => job' = "off"
    /\ cmd'[c].alone /\ said'[c] = "uninstalled" => plist' = None /\ job' = "off"
    /\ cmd'[c].alone /\ said'[c] = "installed" => plist' = [of |-> c, whole |-> TRUE]
SaysWhatItDid == [][SpeaksTrue]_vars

(* A job that a command says is already running was run ("so kickstart forces *)
(* the first run", launchd.rs:442).                                           *)
AlreadyUpIsRun ==
  [][\A c \in Command : said'[c] # said[c] /\ said'[c] = "already up" => job = "kept"]_vars

=============================================================================
