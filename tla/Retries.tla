------------------------------ MODULE Retries ------------------------------
(***************************************************************************)
(* Send Again (`offer_retry` and `send_again` of                           *)
(* crates/murtaugh-gateway/src/chat.rs): a message whose turn failed is    *)
(* kept for its card's button, under the message's own id, until its       *)
(* author presses it, RETRY_TTL passes or RETRIES_MOST are held.           *)
(***************************************************************************)
EXTENDS Naturals, FiniteSets

CONSTANTS
  Message,
  User,
  AuthorOf,     \* Message -> User
  RetriesMost,  \* RETRIES_MOST
  RetryTtl,     \* RETRY_TTL, in ticks
  MaxNow,       \* bounds the model: ticks,
  MaxFailures   \* and failed turns

AuthorAssumption == AuthorOf \in [Message -> User]
LimitsAssumption ==
  /\ RetriesMost \in Nat \ {0} /\ RetryTtl \in Nat \ {0}
  /\ MaxNow \in Nat /\ MaxFailures \in Nat

VARIABLES
  now,
  retries,   \* Message -> when its offer was made, or Never
  trying,    \* the messages whose turn is under way
  failures,  \* the turns that failed so far
  owed,      \* Message -> how often it failed and was not sent again
  later,     \* Message -> the failures since its offer was made
  pressed    \* the messages whose offer was taken since it was made

vars == <<now, retries, trying, failures, owed, later, pressed>>

Never == MaxNow + 1

Init ==
  /\ now      = 0
  /\ retries  = [m \in Message |-> Never]
  /\ trying   = Message
  /\ failures = 0
  /\ owed     = [m \in Message |-> 0]
  /\ later    = [m \in Message |-> 0]
  /\ pressed  = {}

Offered      == {m \in Message : retries[m] # Never}
Lapsed(m)    == now - retries[m] >= RetryTtl
Oldest(held) == {m \in held : \A o \in held : retries[m] <= retries[o]}

(* A bug's: the newest makes room. *)
NewestGoes(held) ==
  IF Cardinality(held) < RetriesMost THEN {held}
  ELSE {held \ {m} : m \in held \ Oldest(held)}

(* At the limit the oldest makes room, also for an offer that is renewed.  *)
Kept(held) ==
  IF Cardinality(held) < RetriesMost THEN {held}
  ELSE {held \ {m} : m \in Oldest(held)}

(* `offer_retry`: a turn over m failed in a way worth another try. *)
Offers(m) ==
  /\ m \in trying
  /\ failures < MaxFailures
  /\ \A o \in Message : retries[o] # now   \* no two instants are the same
  /\ failures' = failures + 1
  /\ trying' = trying \ {m}
  /\ owed' = [owed EXCEPT ![m] = @ + 1]
  /\ \E held \in Kept({o \in Offered : ~Lapsed(o)}) :
       retries' = [o \in Message |->
                     IF o = m THEN now ELSE IF o \in held THEN retries[o] ELSE Never]
  /\ later' = [o \in Message |-> IF o = m THEN 0 ELSE later[o] + 1]
  /\ pressed' = pressed \ {m}
  /\ UNCHANGED now

Succeeds(m) ==
  /\ m \in trying
  /\ trying' = trying \ {m}
  /\ UNCHANGED <<now, retries, failures, owed, later, pressed>>

(* A bug's: the offer is read, and stays for the next press. *)
Read(m) == retries

Taken(m) == [retries EXCEPT ![m] = Never]

(* A bug's: anyone in the thread may press. *)
Anyones(m, u) == TRUE

Theirs(m, u) == AuthorOf[m] = u

(* `send_again`: a press sends the message, once, as its author. *)
SendAgain(m, u) ==
  /\ m \in Offered
  /\ Theirs(m, u)
  /\ ~Lapsed(m)
  /\ m \notin trying     \* bounds the model: one turn of a message at a time
  /\ retries' = Taken(m)
  /\ trying' = trying \cup {m}
  /\ owed' = [owed EXCEPT ![m] = IF @ = 0 \/ u # AuthorOf[m] THEN MaxFailures + 1 ELSE @ - 1]
  /\ pressed' = pressed \cup {m}
  /\ UNCHANGED <<now, failures, later>>

(* "That message is no longer on offer": a late press drops it. *)
PressesLate(m, u) ==
  /\ m \in Offered
  /\ Theirs(m, u)
  /\ Lapsed(m)
  /\ retries' = [retries EXCEPT ![m] = Never]
  /\ UNCHANGED <<now, trying, failures, owed, later, pressed>>

Tick ==
  /\ now < MaxNow
  /\ now' = now + 1
  /\ UNCHANGED <<retries, trying, failures, owed, later, pressed>>

Next ==
  \/ \E m \in Message :
       Offers(m) \/ Succeeds(m) \/ \E u \in User : SendAgain(m, u) \/ PressesLate(m, u)
  \/ Tick

Spec == Init /\ [][Next]_vars

----------------------------------------------------------------------------
(* Properties *)

(* Every variable keeps its type. *)
TypeOK ==
  /\ now \in 0 .. MaxNow
  /\ retries \in [Message -> 0 .. MaxNow \cup {Never}]
  /\ trying \subseteq Message
  /\ pressed \subseteq Message
  /\ Cardinality(Offered) <= RetriesMost

(* An offer that is neither pressed nor past its time goes only when       *)
(* RETRIES_MOST other turns failed since, whichever messages they were of: *)
(* "a ceiling on messages kept back" never takes the button of a message   *)
(* that is not the oldest.                                                 *)
GoesOnlyCrowded(m) ==
  retries'[m] = Never /\ m \notin pressed' \ pressed /\ ~Lapsed(m) => later'[m] >= RetriesMost
KeptUnlessCrowded == [][\A m \in Offered : GoesOnlyCrowded(m)]_vars

(* "one card sends one message however many times it is pressed", and only *)
(* as the person who wrote it: a message is sent again at most as often as *)
(* its turns failed.                                                       *)
SentOncePerFailure == \A m \in Message : owed[m] <= MaxFailures
=============================================================================
