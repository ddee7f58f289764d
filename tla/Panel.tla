------------------------------- MODULE Panel -------------------------------
(***************************************************************************)
(* The Home tab and the store commands (panel.rs, home.rs, admin.rs of     *)
(* crates/murtaugh-gateway/src, over crates/murtaugh-store/src/            *)
(* firestore.rs): clicks on the tab, submissions of its modals, commands   *)
(* of the command line and redraws of a node's row, each a task of its     *)
(* own.  A task writes the store one call after another, reads the store   *)
(* back into the live rules, and publishes the tab for whom it touched.    *)
(*                                                                         *)
(* What a role carries with it (`rax_gateway::roles`) and whom the rules   *)
(* admit (`rax_gateway::access`) are outside the repository; its tests     *)
(* say what they do.  Names, scopes and the wording of the tab are left    *)
(* out; so are a person's tool mode as the tab shows it and the sessions.  *)
(***************************************************************************)
EXTENDS Naturals, FiniteSets

CONSTANTS
  Person,
  Admin,       \* who administers the gateway at first
  Node,        \* the credentials of nodes, minted or not
  Client,      \* the credentials of clients
  Tool,
  Nobody,      \* who owns a credential that was not minted
  OwnerOf,     \* the credentials minted at first, each with its owner
  Task,
  MaxClicks,   \* bounds the model: clicks, submissions and commands,
  MaxOpens,    \* openings of the tab or of a modal,
  MaxChanges,  \* nodes that get busy or idle,
  MaxFaults    \* calls of the store or of Slack that fail

PeopleAssumption == Admin \in Person /\ Nobody \notin Person
TokenAssumption ==
  Node \cap Client = {} /\ OwnerOf \in [Node \cup Client -> Person \cup {Nobody}]
BoundsAssumption == {MaxClicks, MaxOpens, MaxChanges, MaxFaults} \subseteq Nat

VARIABLES
  rights,    \* the store: [admin, grants, allowed]
  settings,  \* the store: Person -> [denied, tools], the tool mode and the whitelist
  token,     \* the store: credential -> [owner, revoked, disabled]
  rules,     \* the live access rules: [rights, token]
  busy,      \* the nodes at work
  tab,       \* Person -> the tab as last published
  modal,     \* Person -> the modal they have open
  redrawing, \* the nodes whose row waits to be drawn again
  task,      \* Task -> what it is at
  answered,  \* the credentials somebody was told are revoked
  crossed,   \* those whose document was written while a revocation was under way
  slipped,   \* those that were said to be revoked when the store did not do it
  unseen,    \* Node -> the people whose tab was not drawn since the node changed
  used       \* [clicks, opens, changes, faults]

store == <<rights, settings, token>>
promised == <<answered, crossed, slipped>>
vars  == <<store, rules, busy, tab, modal, redrawing, task, promised, unseen, used>>

Token   == Node \cup Client
Minted(tokens)    == {k \in Token : tokens[k].owner # Nobody}
LiveOnes(tokens)  == {k \in Minted(tokens) : ~tokens[k].revoked}
HeldBy(p, tokens) == {k \in LiveOnes(tokens) : tokens[k].owner = p}

(* `Snapshot`: whom the rules take for what. *)
IsAdmin(p)     == rules.rights.admin = p
MayRunNodes(p) == IsAdmin(p) \/ p \in rules.rights.grants
MayChat(p)     == IsAdmin(p) \/ p \in rules.rights.allowed
(* Selectors are drawn at random: no two mints have the same one. *)
Unused(k)      == k \notin Minted(token) /\ \A t \in Task : k \notin {c.on : c \in task[t].calls}
KnownOwner(k)  == IF k \in LiveOnes(rules.token) THEN rules.token[k].owner ELSE Nobody

(* `view`: the rows a person is shown, and what the pickers hold. *)
Sees(p, k)    == k \in LiveOnes(rules.token) /\ (IsAdmin(p) \/ rules.token[k].owner = p)
NodeRows(p)   == IF MayRunNodes(p) THEN {n \in Node : Sees(p, n)} ELSE {}
ClientRows(p) == IF MayChat(p) THEN {c \in Client : Sees(p, c)} ELSE {}
(* What a node's row says of it: whether it is routed to, and whether it works. *)
RoutedOff(rows) == {n \in rows \cap Node : rules.token[n].disabled}
AtWork(rows)    == rows \cap busy
(* The pickers of the admin. *)
Picked(p, people) == IF IsAdmin(p) THEN people ELSE {}

NoTab == [rows |-> {}, off |-> {}, busy |-> {}, panel |-> FALSE, clients |-> FALSE,
          grants |-> {}, allowed |-> {}, admin |-> FALSE]

View(p) ==
  LET rows == NodeRows(p) \cup ClientRows(p) IN
  [rows    |-> rows,
   off     |-> RoutedOff(rows),
   busy    |-> AtWork(rows),
   panel   |-> MayRunNodes(p),
   clients |-> MayChat(p),
   grants  |-> Picked(p, rules.rights.grants),
   allowed |-> Picked(p, rules.rights.allowed),
   admin   |-> IsAdmin(p)]

-----------------------------------------------------------------------------
(* Calls of the store. *)

Call(op, who, on) == [op |-> op, who |-> who, on |-> on]
NoCall  == Call("none", Nobody, Nobody)

(* What is left of a role's change when it is under way: `roles`. *)
Revokes(p, tokens) == {Call("revoke", p, k) : k \in tokens}
Granting(p)     == {Call("approve", p, p), Call("allow", p, p)}
Ungranting(p)   == {Call("ungrant", p, p)} \cup Revokes(p, HeldBy(p, token) \cap Node)
Disallowing(p)  == {Call("disallow", p, p)} \cup Ungranting(p)
                     \cup Revokes(p, HeldBy(p, token) \cap Client)
HandingOver(p)  == {Call("approve", p, rights.admin), Call("admin", p, p)}
Minting(k, p)   == {Call("add", p, k)}
                     \cup (IF k \in Node THEN Granting(p) ELSE {Call("allow", p, p)})

NoRules == [rights |-> [admin |-> Nobody, grants |-> {}, allowed |-> {}], token |-> <<>>]
Idle == [at |-> "idle", kind |-> "none", by |-> Nobody, calls |-> {}, read |-> NoCall,
         stale |-> FALSE, mints |-> Nobody, fresh |-> NoRules, draw |-> {},
         whose |-> Nobody, view |-> NoTab]

Free(t)         == task[t] = Idle
At(t, stage)    == task[t].at = stage
Counts(what)    == used' = [used EXCEPT ![what] = @ + 1]
MaySpend(what)  ==
  used[what] < [clicks |-> MaxClicks, opens |-> MaxOpens,
                changes |-> MaxChanges, faults |-> MaxFaults][what]
Fails           == MaySpend("faults") /\ Counts("faults")

(* The task that makes `calls`, for `p`, and shows `people` what came of it. *)
Work(kind, p, calls, people) ==
  [Idle EXCEPT !.at = "calls", !.kind = kind, !.by = p, !.calls = calls, !.draw = people]

Starts(t, work) ==
  /\ Free(t)
  /\ MaySpend("clicks")
  /\ task' = [task EXCEPT ![t] = work]
  /\ Counts("clicks")
  /\ UNCHANGED <<store, rules, busy, tab, redrawing, promised, unseen>>

-----------------------------------------------------------------------------
(* `Panel::click`.  A person clicks on what their tab shows, which may be    *)
(* older than the rules the click is held against.                           *)

PicksMode(t, p, denied) ==
  /\ tab[p].panel
  /\ MayRunNodes(p)
  /\ Starts(t, Work("tab", p, {Call(IF denied THEN "deny" ELSE "open", p, p)}, {p}))
  /\ UNCHANGED modal

PicksAdmin(t, p, next) ==
  /\ tab[p].admin
  /\ IsAdmin(p)
  /\ next # p
  /\ Starts(t, Work("tab", p, HandingOver(next), {p, next}))
  /\ UNCHANGED modal

(* A list of people is changed by one person: whoever the pick and the rules *)
(* disagree on is added or removed, the admin excepted.                      *)
Differing(S, R)         == (S \ R) \cup (R \ S)
PickedOff(before, one)  == Differing(before, {one})
Changes(wanted, current, Adding(_), Removing(_)) ==
  UNION ({Adding(q) : q \in wanted \ current} \cup {Removing(q) : q \in current \ wanted})

PicksPeople(t, p, one) ==
  /\ tab[p].admin
  /\ IsAdmin(p)
  /\ \/ LET wanted  == PickedOff(tab[p].grants, one) \ {p}
            current == rules.rights.grants \ {p}
        IN  Starts(t, Work("tab", p, Changes(wanted, current, Granting, Ungranting),
                           {p} \cup Differing(wanted, current)))
     \/ LET wanted  == PickedOff(tab[p].allowed, one) \ {p}
            current == rules.rights.allowed \ {p}
            Allowing(q) == {Call("allow", q, q)}
        IN  Starts(t, Work("tab", p, Changes(wanted, current, Allowing, Disallowing),
                           {p} \cup Differing(wanted, current)))
  /\ UNCHANGED modal

(* The buttons and the menu entry that open a modal. *)
Manages(p, k)      == KnownOwner(k) # Nobody /\ (IsAdmin(p) \/ KnownOwner(k) = p)
AsksNewNode(p, k)   == k \in Node /\ Unused(k) /\ tab[p].panel /\ MayRunNodes(p)
AsksNewClient(p, k) == k \in Client /\ Unused(k) /\ tab[p].clients /\ MayChat(p)
AsksToRevoke(p, k)  == k \in tab[p].rows \cap Node /\ Manages(p, k)

OpensModal(p, what) ==
  /\ modal[p] = Nobody
  /\ AsksNewNode(p, what) \/ AsksNewClient(p, what) \/ AsksToRevoke(p, what)
  /\ modal' = [modal EXCEPT ![p] = what]
  /\ MaySpend("opens")
  /\ Counts("opens")
  /\ UNCHANGED <<store, rules, busy, tab, redrawing, task, promised, unseen>>

ClicksRevoke(t, p, k) ==
  /\ k \in tab[p].rows \cap Client
  /\ Manages(p, k)
  /\ Starts(t, Work("tab", p, Revokes(p, {k}), {p, KnownOwner(k)}))
  /\ UNCHANGED modal

TogglesNode(t, p, k) ==
  /\ k \in tab[p].rows \cap Node
  /\ Manages(p, k)
  /\ LET op == IF k \in tab[p].off THEN "enable" ELSE "disable" IN
     Starts(t, Work("toggle", p, {Call(op, p, k)}, {p, KnownOwner(k)}))
  /\ UNCHANGED modal

(* `Panel::submit`: the modal may have been open while the rules changed.    *)
MayOwn(p, owner) == owner = p \/ IsAdmin(p)
MintsFor(t, p, k, owner) ==
  /\ modal[p] = k
  /\ Unused(k)
  /\ MayOwn(p, owner)
  /\ Starts(t, [Work("mint", p, Minting(k, owner), {p, owner}) EXCEPT !.mints = k])
  /\ modal' = [modal EXCEPT ![p] = Nobody]

MintsNode(t, p, k, owner)   == k \in Node /\ MayRunNodes(p) /\ MintsFor(t, p, k, owner)
MintsClient(t, p, k, owner) == k \in Client /\ MayChat(p) /\ MintsFor(t, p, k, owner)

RevokesNode(t, p, k) ==
  /\ modal[p] = k
  /\ Manages(p, k)
  /\ Starts(t, Work("tab", p, Revokes(p, {k}), {p, KnownOwner(k)}))
  /\ modal' = [modal EXCEPT ![p] = Nobody]

(* A modal whose submission comes to nothing. *)
SubmitsInVain(p) ==
  /\ modal[p] # Nobody
  /\ modal' = [modal EXCEPT ![p] = Nobody]
  /\ UNCHANGED <<store, rules, busy, tab, redrawing, task, promised, unseen, used>>

(* The command line writes the store; the gateway reads it at its next       *)
(* refresh.                                                                  *)
AdminCommand(p)       == {HandingOver(p)}
GrantCommand(p)       == {Granting(p), Ungranting(p)}
MintCommand(p, k)     == IF Unused(k) THEN {Minting(k, p)} ELSE {}
RevokeCommand(p, k)   == {Revokes(p, {k} \cap Minted(token))}
UserTokenCommand(p)   == UNION {MintCommand(p, k) \cup RevokeCommand(p, k) : k \in Client}
UserCommand(p)        == {{Call("allow", p, p)}, Disallowing(p)} \cup UserTokenCommand(p)
ToolsCommand(p)       ==
  UNION {{{Call("deny", p, p)}, {Call("open", p, p)}, {Call("whitelist", p, tool)},
          {Call("unwhitelist", p, tool)}} : tool \in Tool}
NodeCommand(p)        == UNION {MintCommand(p, k) \cup RevokeCommand(p, k) : k \in Node}

Commands(t) ==
  /\ Free(t)
  /\ \E p \in Person :
       \E calls \in AdminCommand(p) \cup GrantCommand(p) \cup UserCommand(p)
                       \cup ToolsCommand(p) \cup NodeCommand(p) :
         calls # {} /\ Starts(t, Work("command", Nobody, calls, {}))
  /\ UNCHANGED modal

-----------------------------------------------------------------------------
(* The writes of the store.                                                  *)

SetField(p, field, value) == settings' = [settings EXCEPT ![p][field] = value]
ChangesWhitelist(p, value) == SetField(p, "tools", value)
WritesWhole(k, value)      ==
  token' = [token EXCEPT ![k].disabled = value, ![k].revoked = FALSE]
SetDisabled(k, value)      == token' = [token EXCEPT ![k].disabled = value]
SetRevoked(k)              == token' = [token EXCEPT ![k].revoked = TRUE]
AddToken(k, p) ==
  token' = [token EXCEPT ![k] = [owner |-> p, revoked |-> FALSE, disabled |-> FALSE]]

(* What a call writes, but for the two that read first. *)
Writes(c) ==
  \/ c.op = "admin"    /\ rights' = [rights EXCEPT !.admin = c.who] /\ UNCHANGED <<settings, token>>
  \/ c.op = "approve"  /\ rights' = [rights EXCEPT !.grants = @ \cup {c.on}]
                       /\ UNCHANGED <<settings, token>>
  \/ c.op = "allow"    /\ rights' = [rights EXCEPT !.allowed = @ \cup {c.who}]
                       /\ UNCHANGED <<settings, token>>
  \/ c.op = "disallow" /\ rights' = [rights EXCEPT !.allowed = @ \ {c.who}]
                       /\ UNCHANGED <<settings, token>>
  \/ c.op \in {"deny", "open"} /\ SetField(c.who, "denied", c.op = "deny")
                               /\ UNCHANGED <<rights, token>>
  \/ c.op = "whitelist"   /\ ChangesWhitelist(c.who, settings[c.who].tools \cup {c.on})
                          /\ UNCHANGED <<rights, token>>
  \/ c.op = "unwhitelist" /\ ChangesWhitelist(c.who, settings[c.who].tools \ {c.on})
                          /\ UNCHANGED <<rights, token>>
  \/ c.op \in {"disable", "enable"} /\ SetDisabled(c.on, c.op = "disable")
                                    /\ UNCHANGED <<rights, settings>>
  \/ c.op = "add" /\ AddToken(c.on, c.who)
                  /\ UNCHANGED <<rights, settings>>

Guarded == {"ungrant", "revoke"}
Done(t, c) == [task[t] EXCEPT !.calls = @ \ {c}, !.read = NoCall, !.stale = FALSE]

(* A person and a credential are documents of two collections. *)
SameDocument(c, d) == c.on = d.on /\ (c.op = "ungrant" <=> d.op = "ungrant")

(* The document of the call is not as the tasks that read it found it. *)
Outdated(tasks, c) ==
  [t \in Task |-> IF tasks[t].read # NoCall /\ SameDocument(tasks[t].read, c)
                    THEN [tasks[t] EXCEPT !.stale = TRUE] ELSE tasks[t]]

Crosses(c, t) ==
  {k \in {c.on} : \E u \in Task \ {t} : task[u].read.op = "revoke" /\ task[u].read.on = k}

Makes(t, c) ==
  /\ At(t, "calls")
  /\ c \in task[t].calls
  /\ task[t].read = NoCall
  /\ c.op \notin Guarded
  /\ Writes(c)
  /\ task' = LET done == [task EXCEPT ![t] = Done(t, c)] IN
             IF c.op \in {"disable", "enable"} THEN Outdated(done, c) ELSE done
  /\ crossed' = IF c.op \in {"disable", "enable"} THEN crossed \cup Crosses(c, t) ELSE crossed
  /\ UNCHANGED <<rules, busy, tab, modal, redrawing, answered, slipped, unseen, used>>

ToUndo(c) == IF c.op = "ungrant" THEN c.on \in rights.grants ELSE c.on \in LiveOnes(token)
Answers(c) == IF c.op = "revoke" THEN {c.on} ELSE {}

ReadsDocument(t, c) ==
  /\ At(t, "calls")
  /\ c \in task[t].calls
  /\ task[t].read = NoCall
  /\ c.op \in Guarded
  /\ IF ToUndo(c)
       THEN task' = [task EXCEPT ![t].read = c] /\ UNCHANGED answered
       ELSE task' = [task EXCEPT ![t] = Done(t, c)] /\ answered' = answered \cup Answers(c)
  /\ UNCHANGED <<store, rules, busy, tab, modal, redrawing, crossed, slipped, unseen, used>>

Undoes(c) ==
  IF c.op = "ungrant"
    THEN rights' = [rights EXCEPT !.grants = @ \ {c.on}] /\ UNCHANGED <<settings, token>>
    ELSE SetRevoked(c.on) /\ UNCHANGED <<rights, settings>>

(* The document is written if it is as it was read; else, or when the store  *)
(* gives the write up for contention, there was nothing to do.               *)
CommitsDocument(t) ==
  /\ At(t, "calls")
  /\ task[t].read # NoCall
  /\ LET c    == task[t].read
         done == [task EXCEPT ![t] = Done(t, c)]
     IN /\ \/ ~task[t].stale /\ Undoes(c) /\ task' = Outdated(done, c) /\ UNCHANGED <<slipped, used>>
           \/ task[t].stale /\ task' = done /\ UNCHANGED <<store, slipped, used>>
           \/ ~task[t].stale /\ Fails /\ task' = done /\ slipped' = slipped \cup Answers(c)
              /\ UNCHANGED store
        /\ answered' = answered \cup Answers(c)
  /\ UNCHANGED <<rules, busy, tab, modal, redrawing, crossed, unseen>>

(* A token that did not arrive is said to be revoked, even if that failed.   *)
SaysRevoked(t, c) == IF task[t].kind = "tab" /\ c.on = task[t].mints THEN Answers(c) ELSE {}

(* A call fails: what is left of that person's change is not made.  A toggle *)
(* and a mint that fail show nobody anything.                                *)
FailsCall(t, c) ==
  /\ At(t, "calls")
  /\ c \in task[t].calls
  /\ task[t].read \in {NoCall, c}
  /\ Fails
  /\ answered' = answered \cup SaysRevoked(t, c)
  /\ slipped'  = slipped \cup SaysRevoked(t, c)
  /\ task' = [task EXCEPT ![t] =
       IF @.kind \in {"toggle", "mint", "command"} THEN Idle
       ELSE [@ EXCEPT !.calls = {d \in task[t].calls : d.who # c.who}, !.read = NoCall, !.stale = FALSE]]
  /\ UNCHANGED <<store, rules, busy, tab, modal, redrawing, crossed, unseen>>

-----------------------------------------------------------------------------
(* What follows the calls.                                                   *)

CallsMade(t) == At(t, "calls") /\ task[t].calls = {}

(* `deliver`: the token goes to its owner, or is taken back. *)
Delivers(t, works) ==
  /\ CallsMade(t)
  /\ task[t].kind = "mint"
  /\ task' = [task EXCEPT ![t] =
       IF works THEN [@ EXCEPT !.kind = "tab"]
                ELSE [@ EXCEPT !.kind = "tab", !.calls = Revokes(task[t].by, {task[t].mints})]]
  /\ IF works THEN UNCHANGED used ELSE Fails
  /\ UNCHANGED <<store, rules, busy, tab, modal, redrawing, promised, unseen>>

Ends(t) ==
  /\ CallsMade(t)
  /\ task[t].kind = "command"
  /\ task' = [task EXCEPT ![t] = Idle]
  /\ UNCHANGED <<store, rules, busy, tab, modal, redrawing, promised, unseen, used>>

(* `settle`: the store is read back, unless it cannot be; then applied. *)
Loads(t) ==
  /\ CallsMade(t)
  /\ task[t].kind \in {"tab", "toggle"}
  /\ \/ /\ task' = [task EXCEPT ![t].at = "apply",
                                ![t].fresh = [rights |-> rights, token |-> token]]
        /\ UNCHANGED used
     \/ task' = [task EXCEPT ![t].at = "draw"] /\ Fails
  /\ UNCHANGED <<store, rules, busy, tab, modal, redrawing, promised, unseen>>

Applies(t) ==
  /\ At(t, "apply")
  /\ rules' = task[t].fresh
  /\ task' = [task EXCEPT ![t].at = "draw", ![t].fresh = NoRules]
  /\ UNCHANGED <<store, busy, tab, modal, redrawing, promised, unseen, used>>

(* `show`, one person after another, in an order of their own: the tab is put *)
(* together, and published some time later.                                   *)
PutsTogether(t) ==
  /\ At(t, "draw")
  /\ task[t].draw # {}
  /\ LET p == CHOOSE q \in task[t].draw : TRUE IN
     /\ task' = [task EXCEPT ![t].at = "publish", ![t].draw = @ \ {p},
                             ![t].whose = p, ![t].view = View(p)]
     /\ unseen' = [n \in Node |-> unseen[n] \ {p}]
  /\ UNCHANGED <<store, rules, busy, tab, modal, redrawing, promised, used>>

Publishes(t) ==
  /\ At(t, "publish")
  /\ LET next == [Idle EXCEPT !.at = "draw", !.draw = task[t].draw] IN
     task' = [task EXCEPT ![t] = IF next.draw = {} THEN Idle ELSE next]
  /\ \/ tab' = [tab EXCEPT ![task[t].whose] = task[t].view] /\ UNCHANGED used
     \/ Fails /\ UNCHANGED tab
  /\ UNCHANGED <<store, rules, busy, modal, redrawing, promised, unseen>>

(* `hub::refresh`: now and then the rules are read from the store. *)
Refreshes ==
  /\ rules # [rights |-> rights, token |-> token]
  /\ rules' = [rights |-> rights, token |-> token]
  /\ UNCHANGED <<store, busy, tab, modal, redrawing, task, promised, unseen, used>>

-----------------------------------------------------------------------------
(* The rows of the nodes.                                                    *)

Viewers(n) == ({KnownOwner(n)} \ {Nobody}) \cup {rules.rights.admin}

(* A person opens the tab. *)
OpensTab(t, p) ==
  /\ Free(t)
  /\ MaySpend("opens")
  /\ Counts("opens")
  /\ task' = [task EXCEPT ![t] = [Idle EXCEPT !.at = "draw", !.draw = {p}]]
  /\ UNCHANGED <<store, rules, busy, tab, modal, redrawing, promised, unseen>>

MarksUnlessDrawn(n) == redrawing' = IF \E t \in Task : At(t, "publish") THEN redrawing
                                    ELSE redrawing \cup {n}
MarksRow(n)         == redrawing' = redrawing \cup {n}

(* A node gets busy or idle: `redraw_node` is called, and returns at once    *)
(* when a redraw of the node waits already.                                  *)
NodeChanges(n) ==
  /\ MaySpend("changes")
  /\ Counts("changes")
  /\ busy' = PickedOff(busy, n)
  /\ MarksRow(n)
  /\ unseen' = [unseen EXCEPT ![n] = Viewers(n)]
  /\ UNCHANGED <<store, rules, tab, modal, task, promised>>

(* The moment has passed: the mark goes, then whoever sees the node by now   *)
(* is drawn.                                                                 *)
Redraws(t, n) ==
  /\ Free(t)
  /\ n \in redrawing
  /\ redrawing' = redrawing \ {n}
  /\ task' = [task EXCEPT ![t] = [Idle EXCEPT !.at = "draw", !.draw = Viewers(n)]]
  /\ unseen' = [unseen EXCEPT ![n] = @ \cap Viewers(n)]
  /\ UNCHANGED <<store, rules, busy, tab, modal, promised, used>>

-----------------------------------------------------------------------------
Init ==
  /\ rights    = [admin |-> Admin, grants |-> {OwnerOf[n] : n \in Node} \ {Nobody},
                  allowed |-> {OwnerOf[k] : k \in Token} \ {Nobody}]
  /\ settings  = [p \in Person |-> [denied |-> FALSE, tools |-> {}]]
  /\ token     = [k \in Token |-> [owner |-> OwnerOf[k], revoked |-> FALSE, disabled |-> FALSE]]
  /\ rules     = [rights |-> rights, token |-> token]
  /\ busy      = {}
  /\ tab       = [p \in Person |-> View(p)]
  /\ modal     = [p \in Person |-> Nobody]
  /\ redrawing = {}
  /\ task      = [t \in Task |-> Idle]
  /\ answered  = {}
  /\ crossed   = {} /\ slipped = {}
  /\ unseen    = [n \in Node |-> {}]
  /\ used      = [clicks |-> 0, opens |-> 0, changes |-> 0, faults |-> 0]

Clicks(t, p) ==
  \/ \E denied \in BOOLEAN : PicksMode(t, p, denied)
  \/ \E q \in Person : PicksAdmin(t, p, q) \/ PicksPeople(t, p, q)
  \/ \E k \in Token : ClicksRevoke(t, p, k) \/ TogglesNode(t, p, k) \/ RevokesNode(t, p, k)
  \/ \E k \in Token, q \in Person : MintsNode(t, p, k, q) \/ MintsClient(t, p, k, q)

Step(t) ==
  \/ \E c \in task[t].calls : Makes(t, c) \/ ReadsDocument(t, c) \/ FailsCall(t, c)
  \/ CommitsDocument(t)
  \/ \E works \in BOOLEAN : Delivers(t, works)
  \/ Ends(t) \/ Loads(t) \/ Applies(t)
  \/ PutsTogether(t) \/ Publishes(t)

Next ==
  \/ \E t \in Task : Step(t) \/ Commands(t)
  \/ \E t \in Task, p \in Person : Clicks(t, p) \/ OpensTab(t, p)
  \/ \E t \in Task, n \in Node : Redraws(t, n)
  \/ \E p \in Person : SubmitsInVain(p) \/ \E k \in Token : OpensModal(p, k)
  \/ \E n \in Node : NodeChanges(n)
  \/ Refreshes

Spec == Init /\ [][Next]_vars

-----------------------------------------------------------------------------
Rights == [admin : Person, grants : SUBSET Person, allowed : SUBSET Person]
Tokens == [Token -> [owner : Person \cup {Nobody}, revoked : BOOLEAN, disabled : BOOLEAN]]

TypeOK ==
  /\ rights \in Rights /\ token \in Tokens
  /\ settings \in [Person -> [denied : BOOLEAN, tools : SUBSET Tool]]
  /\ rules \in [rights : Rights, token : Tokens]
  /\ busy \subseteq Node /\ redrawing \subseteq Node
  /\ DOMAIN tab = Person
  /\ modal \in [Person -> Token \cup {Nobody}]
  /\ \A t \in Task : task[t].at \in {"idle", "calls", "apply", "draw", "publish"}
  /\ answered \subseteq Token /\ crossed \subseteq Token /\ slipped \subseteq Token
  /\ unseen \in [Node -> SUBSET Person]
  /\ used \in [clicks : 0 .. MaxClicks, opens : 0 .. MaxOpens,
               changes : 0 .. MaxChanges, faults : 0 .. MaxFaults]

(* Whatever writes a credential's document, a revocation is not undone: the  *)
(* tab says that the token stops working for good (home.rs:636).             *)
RevokedStays   == \A k \in Token : token[k].revoked => token'[k].revoked
RevokedForGood == [][RevokedStays]_vars

(* Whoever was told that a credential is revoked finds it so, unless the     *)
(* node was disabled or enabled while the revocation was under way, the      *)
(* store gave the write up for contention, or the token had not arrived and  *)
(* revoking it failed.                                                       *)
RevokedUnlessCrossed ==
  \A k \in answered \ (crossed \cup slipped) : token[k].revoked

(* A revocation that was answered without an error revoked the credential    *)
(* ("its token stops working for good", home.rs:636, and "so I revoked it",  *)
(* panel.rs:263).                                                            *)
RevokeRevokes == \A k \in answered : token[k].revoked

(* `redraw_node`: a change that lands while the row is drawn is drawn after: *)
(* whoever's tab was put together before it is going to be drawn again.      *)
NoChangeUndrawn ==
  \A n \in Node : \A p \in unseen[n] \cap Viewers(n) :
    n \in redrawing \/ \E t \in Task : p \in task[t].draw

=============================================================================
