--------------------------- MODULE DeliveryProofs ---------------------------
(***************************************************************************)
(* Proofs about what is taken up once: the events of Socket, the requests  *)
(* of Workloads and the offers of Retries, for any number of each, and of  *)
(* connections, cuts, late acks, requests at once and failed turns.  And   *)
(* about who has a say in it, in Panel and in Intake: what of the rules an *)
(* admin changed stays so, and whose words reach a machine, for any number *)
(* of people, machines, messages, credentials and tasks, and any number of *)
(* clicks, changes, moves and failing calls.                               *)
(***************************************************************************)
EXTENDS Socket, SequenceTheorems, FiniteSetTheorems, TLAPS

(* The requests that start runs, whose variables these are. *)
CONSTANTS Request, Thread, Key, KeyOf, TargetOf, NoRun
VARIABLES request, answer, started, runs, arriving, turns, barged, crossed, lapsed, forgotten
Work == INSTANCE Workloads WITH None <- NoRun

(* The offers to send a message again. *)
CONSTANTS Message, User, AuthorOf, RetriesMost, RetryTtl, MaxNow, MaxFailures
VARIABLES now, retries, trying, failures, owed, later, pressed
Retry == INSTANCE Retries

(* What the constants are. *)
SocketConstants == KindAssumption /\ BoundsAssumption

----------------------------------------------------------------------------
(* What a sequence holds *)

LEMMA SetAppend ==
  ASSUME NEW S, NEW s \in Seq(S), NEW x \in S
  PROVE  /\ Append(s, x) \in Seq(S) /\ ToSet(Append(s, x)) = ToSet(s) \cup {x}
         /\ Append(s, x) # <<>>
<1>1. /\ Append(s, x) \in Seq(S) /\ Len(Append(s, x)) = Len(s) + 1 /\ Len(s) \in Nat
      /\ Append(s, x)[Len(s) + 1] = x /\ \A i \in 1 .. Len(s) : Append(s, x)[i] = s[i]
      /\ DOMAIN s = 1 .. Len(s) /\ DOMAIN Append(s, x) = 1 .. Len(s) + 1
  OBVIOUS
<1>2. \A i \in 1 .. Len(s) + 1 : i \in 1 .. Len(s) \/ i = Len(s) + 1
  BY <1>1
<1>3. \A y : y \in ToSet(Append(s, x)) <=> y \in ToSet(s) \cup {x}
  BY <1>1, <1>2 DEF ToSet
<1> QED  BY <1>1, <1>3

LEMMA SetTail ==
  ASSUME NEW S, NEW s \in Seq(S), s # <<>>
  PROVE  /\ Tail(s) \in Seq(S) /\ Head(s) \in S /\ Head(s) \in ToSet(s)
         /\ ToSet(s) = ToSet(Tail(s)) \cup {Head(s)}
         /\ \A i \in DOMAIN Tail(s) : i + 1 \in DOMAIN s /\ Tail(s)[i] = s[i + 1]
         /\ 1 \in DOMAIN s /\ s[1] = Head(s)
<1>1. /\ Tail(s) \in Seq(S) /\ Len(Tail(s)) = Len(s) - 1 /\ Len(s) \in Nat /\ Len(s) > 0
      /\ Head(s) = s[1] /\ s[1] \in S
      /\ DOMAIN s = 1 .. Len(s) /\ DOMAIN Tail(s) = 1 .. Len(s) - 1
      /\ \A i \in 1 .. Len(s) - 1 : Tail(s)[i] = s[i + 1]
  BY EmptySeq, HeadTailProperties
<1>2. \A i \in 1 .. Len(s) : i = 1 \/ (i - 1 \in 1 .. Len(s) - 1 /\ Tail(s)[i - 1] = s[i])
  BY <1>1
<1>3. \A y : y \in ToSet(s) <=> y \in ToSet(Tail(s)) \cup {Head(s)}
  <2>1. ASSUME NEW y \in ToSet(s) PROVE y \in ToSet(Tail(s)) \cup {Head(s)}
    <3>1. PICK i \in 1 .. Len(s) : s[i] = y
      BY <1>1, <2>1 DEF ToSet
    <3>2. CASE i = 1
      BY <1>1, <3>1, <3>2
    <3>3. CASE i # 1
      <4>1. i - 1 \in 1 .. Len(s) - 1 /\ Tail(s)[i - 1] = y
        BY <1>2, <3>1, <3>3
      <4> QED  BY <1>1, <4>1 DEF ToSet
    <3> QED  BY <3>2, <3>3
  <2>2. ASSUME NEW y \in ToSet(Tail(s)) PROVE y \in ToSet(s)
    BY <1>1, <2>2 DEF ToSet
  <2>3. Head(s) \in ToSet(s)
    BY <1>1 DEF ToSet
  <2> QED  BY <2>1, <2>2, <2>3
<1> QED  BY <1>1, <1>3

LEMMA SetConcat ==
  ASSUME NEW S, NEW s \in Seq(S), NEW t \in Seq(S)
  PROVE  s \o t \in Seq(S) /\ ToSet(s \o t) = ToSet(s) \cup ToSet(t)
<1>1. /\ s \o t \in Seq(S) /\ Len(s \o t) = Len(s) + Len(t)
      /\ Len(s) \in Nat /\ Len(t) \in Nat
      /\ \A i \in 1 .. Len(s) : (s \o t)[i] = s[i]
      /\ \A i \in Len(s) + 1 .. Len(s) + Len(t) : (s \o t)[i] = t[i - Len(s)]
      /\ DOMAIN s = 1 .. Len(s) /\ DOMAIN t = 1 .. Len(t)
      /\ DOMAIN (s \o t) = 1 .. Len(s) + Len(t)
  BY ConcatProperties
<1>2. ASSUME NEW i \in 1 .. Len(t) PROVE (s \o t)[i + Len(s)] = t[i]
  BY <1>1
<1>3. \A y : y \in ToSet(s \o t) <=> y \in ToSet(s) \cup ToSet(t)
  <2>1. ASSUME NEW y \in ToSet(s \o t) PROVE y \in ToSet(s) \cup ToSet(t)
    <3>1. PICK i \in 1 .. Len(s) + Len(t) : (s \o t)[i] = y
      BY <1>1, <2>1 DEF ToSet
    <3>2. CASE i \in 1 .. Len(s)
      BY <1>1, <3>1, <3>2 DEF ToSet
    <3>3. CASE i \in Len(s) + 1 .. Len(s) + Len(t)
      <4>1. i - Len(s) \in 1 .. Len(t) /\ t[i - Len(s)] = y
        BY <1>1, <3>1, <3>3
      <4> QED  BY <1>1, <4>1 DEF ToSet
    <3> QED  BY <1>1, <3>2, <3>3
  <2>2. ASSUME NEW y \in ToSet(s) PROVE y \in ToSet(s \o t)
    BY <1>1, <2>2 DEF ToSet
  <2>3. ASSUME NEW y \in ToSet(t) PROVE y \in ToSet(s \o t)
    <3>1. PICK i \in 1 .. Len(t) : t[i] = y
      BY <1>1, <2>3 DEF ToSet
    <3>2. i + Len(s) \in 1 .. Len(s) + Len(t)
      BY <1>1
    <3> QED  BY <1>1, <1>2, <3>1, <3>2 DEF ToSet
  <2> QED  BY <2>1, <2>2, <2>3
<1> QED  BY <1>1, <1>3

LEMMA SetEmpty == ToSet(<<>>) = {}
  BY DEF ToSet

(* The frames are told apart. *)
LEMMA FrameFacts ==
  /\ Hello # Disconnect /\ Hello # Goodbye /\ Disconnect # Goodbye
  /\ \A e : /\ Carries(e) \notin {Hello, Disconnect, Goodbye}
            /\ Carries(e)[2] = e
            /\ \A d : Carries(e) = Carries(d) => e = d
<1>1. \A e : Carries(e)[1] = "envelope" /\ Carries(e)[2] = e
  BY DEF Carries
<1>2. Hello[1] = "hello" /\ Disconnect[1] = "disconnect" /\ Goodbye[1] = "close"
  BY DEF Hello, Disconnect, Goodbye
<1>3. /\ "hello" # "disconnect" /\ "hello" # "close" /\ "disconnect" # "close"
      /\ "envelope" \notin {"hello", "disconnect", "close"}
  OBVIOUS
<1>4. Hello # Disconnect /\ Hello # Goodbye /\ Disconnect # Goodbye
  BY <1>2, <1>3
<1>5. ASSUME NEW e PROVE Carries(e) \notin {Hello, Disconnect, Goodbye}
  BY <1>1, <1>2, <1>3
<1>6. ASSUME NEW e, NEW d, Carries(e) = Carries(d) PROVE e = d
  BY <1>1, <1>6
<1> QED  BY <1>1, <1>4, <1>5, <1>6

----------------------------------------------------------------------------
(* Types *)

Sent   == {Carries(e) : e \in Envelope}
ToApp  == Sent \cup {Hello, Disconnect}
ToSlack == Sent \cup {Goodbye}
Handing == {<<>>} \cup {<<e>> : e \in Envelope}
Places == {"dialling", "greeting", "reading", "refused", "closed"}
Reader == [at : Places, ws : Conn \cup {NoWs}, old : Conn \cup {NoWs},
           dialled : Conn \cup {NoWs}, early : Seq(ToApp), backlog : Seq(ToApp),
           handing : Handing]
Budget == [conns : 0 .. MaxConns, cuts : 0 .. MaxCuts, refreshes : 0 .. MaxRefreshes,
           slow : 0 .. MaxSlow]
Try    == Envelope \X (0 .. MaxRetries)

(* The newest of any connections can be named. *)
Topped(S) == \A T \in SUBSET S : T # {} => \E c \in T : \A d \in T : c >= d

Links ==
  /\ budget \in Budget
  /\ conns \subseteq 1 .. MaxConns - budget.conns /\ Topped(conns)
  /\ refreshing \subseteq Conn

Lines ==
  /\ down \in [Conn -> Seq(ToApp)]
  /\ up \in [Conn -> Seq(ToSlack)]

Attempted ==
  /\ pending \in [Envelope -> 0 .. None]
  /\ undelivered \in Seq(Try)
  /\ timers \subseteq Try
  /\ unsent \subseteq Envelope /\ acked \subseteq Envelope

Reads == reader \in Reader
AppHas ==
  /\ answers \in Seq(Envelope) /\ queue \in Seq(Envelope)
  /\ seen \in Seq(Envelope) /\ spawned \in Seq(Envelope)

(* Where the reader is says what it has. *)
Stays ==
  /\ reader.at \in {"dialling", "reading", "refused"} => reader.early = <<>> /\ reader.dialled = NoWs
  /\ reader.at = "greeting" => reader.dialled \in Conn

(* An envelope waits for a connection once, and for no ack meanwhile.      *)
WaitsOnce ==
  /\ \A i, j \in DOMAIN undelivered : undelivered[i][1] = undelivered[j][1] => i = j
  /\ \A i \in DOMAIN undelivered :
       pending[undelivered[i][1]] = None /\ undelivered[i][1] \notin unsent
  /\ \A t \in timers : t[1] \notin unsent

Shapes == Links /\ Lines /\ Attempted /\ Reads /\ AppHas /\ Stays /\ WaitsOnce

LEMMA Numbers ==
  ASSUME SocketConstants
  PROVE  /\ Remembered \in Nat /\ Remembered > 0 /\ MaxRetries \in Nat /\ MaxConns \in Nat
         /\ MaxCuts \in Nat /\ MaxRefreshes \in Nat /\ MaxSlow \in Nat
         /\ None = MaxRetries + 1 /\ NoWs \notin Conn
  BY DEF SocketConstants, BoundsAssumption, None, NoWs, Conn

LEMMA Newest ==
  ASSUME SocketConstants, Shapes
  PROVE  /\ conns \subseteq Conn
         /\ FreshConns # {} => Max(FreshConns) \in FreshConns /\ Max(FreshConns) \in Conn
<1>1. conns \subseteq Conn
  BY Numbers DEF Shapes, Links, Conn, Budget
<1>2. ASSUME FreshConns # {} PROVE Max(FreshConns) \in FreshConns
  <2>1. FreshConns \in SUBSET conns
    BY DEF FreshConns
  <2>2. \E c \in FreshConns : \A d \in FreshConns : c >= d
    BY <1>2, <2>1 DEF Shapes, Links, Topped
  <2> QED  BY <2>2 DEF Max
<1> QED  BY <1>1, <1>2 DEF FreshConns

(* `dispatch` in words: the envelope is on its way, or waits. *)
LEMMA DispatchParts ==
  ASSUME SocketConstants, Shapes, NEW e \in Envelope, NEW attempt \in 0 .. MaxRetries, NEW before,
         Dispatch(e, attempt, before), \A i \in DOMAIN undelivered : undelivered[i][1] # e,
         unsent' \subseteq unsent, e \notin unsent'
  PROVE  /\ down' \in [Conn -> Seq(ToApp)]
         /\ pending' \in [Envelope -> 0 .. None] /\ timers' \subseteq Try
         /\ undelivered' \in Seq(Try) /\ WaitsOnce'
<1>1. CASE FreshConns = {}
  <2>1. <<e, attempt>> \in Try
    BY DEF Try
  <2>2. undelivered \in Seq(Try) /\ pending \in [Envelope -> 0 .. None] /\ timers \subseteq Try
    BY DEF Shapes, Attempted
  <2>3. Append(undelivered, <<e, attempt>>) \in Seq(Try)
    BY <2>1, <2>2, SetAppend
  <2>4. None \in 0 .. None
    BY Numbers
  <2>5. /\ undelivered' = Append(undelivered, <<e, attempt>>)
        /\ pending' = [pending EXCEPT ![e] = None]
    BY <1>1 DEF Dispatch
  <2>6. WaitsOnce'
    <3> DEFINE n == Len(undelivered)
    <3>1. /\ n \in Nat /\ DOMAIN undelivered = 1 .. n /\ DOMAIN undelivered' = 1 .. n + 1
          /\ undelivered'[n + 1][1] = e
          /\ \A i \in 1 .. n : undelivered'[i] = undelivered[i] /\ undelivered[i][1] \in Envelope
      BY <2>1, <2>2, <2>5 DEF Try
    <3> HIDE DEF n
    <3>2. \A i \in 1 .. n + 1 : i \in 1 .. n \/ i = n + 1
      BY <3>1
    <3>3. \A i, j \in 1 .. n + 1 : undelivered'[i][1] = undelivered'[j][1] => i = j
      BY <3>1, <3>2 DEF Shapes, WaitsOnce
    <3>4. \A i \in 1 .. n + 1 : pending'[undelivered'[i][1]] = None /\ undelivered'[i][1] \notin unsent'
      <4>1. pending'[e] = None /\ \A d \in Envelope : pending[d] = None => pending'[d] = None
        BY <2>2, <2>5
      <4>2. \A i \in 1 .. n : pending[undelivered[i][1]] = None /\ undelivered[i][1] \notin unsent
        BY <3>1 DEF Shapes, WaitsOnce
      <4> QED  BY <3>1, <3>2, <4>1, <4>2
    <3>5. \A t \in timers' : t[1] \notin unsent'
      BY <1>1 DEF Dispatch, Shapes, WaitsOnce
    <3> QED  BY <3>1, <3>3, <3>4, <3>5 DEF WaitsOnce
  <2> QED  BY <1>1, <2>2, <2>3, <2>4, <2>6 DEF Dispatch, Shapes, Lines
<1>2. CASE FreshConns # {}
  <2>1. Max(FreshConns) \in Conn
    BY <1>2, Newest
  <2> DEFINE c == Max(FreshConns)
  <2>2. Append(down[c], Carries(e)) \in Seq(ToApp)
    <3>1. Carries(e) \in ToApp /\ down[c] \in Seq(ToApp)
      BY <2>1 DEF ToApp, Sent, Shapes, Lines
    <3> QED  BY <3>1, SetAppend
  <2>3. down' \in [Conn -> Seq(ToApp)]
    BY <1>2, <2>1, <2>2 DEF Dispatch, Shapes, Lines
  <2>4. <<e, attempt>> \in Try /\ attempt \in 0 .. None
    BY Numbers DEF Try
  <2>5. WaitsOnce'
    <3>1. /\ UNCHANGED undelivered /\ pending' = [pending EXCEPT ![e] = attempt]
          /\ \A t \in timers' : t \in timers \/ t = <<e, attempt>>
      BY <1>2 DEF Dispatch
    <3>2. /\ \A i \in DOMAIN undelivered : undelivered[i][1] \in Envelope \ {e}
          /\ pending \in [Envelope -> 0 .. None]
      BY DEF Shapes, Attempted, Try
    <3>3. \A i \in DOMAIN undelivered : pending'[undelivered[i][1]] = pending[undelivered[i][1]]
      BY <3>1, <3>2
    <3> QED  BY <3>1, <3>3 DEF Shapes, WaitsOnce
  <2> QED  BY <1>2, <2>3, <2>4, <2>5 DEF Dispatch, Shapes, Attempted
<1> QED  BY <1>1, <1>2

LEMMA DispatchesShapes ==
  ASSUME SocketConstants, Shapes, NEW e \in Envelope, NEW a \in 0 .. MaxRetries,
         Happens(e) \/ TimesOut(e, a)
  PROVE  Shapes'
<1>1. CASE Happens(e)
  <2>1. 0 \in 0 .. MaxRetries
    BY Numbers
  <2>2. /\ down' \in [Conn -> Seq(ToApp)]
        /\ pending' \in [Envelope -> 0 .. None] /\ timers' \subseteq Try
        /\ undelivered' \in Seq(Try) /\ WaitsOnce'
    BY <1>1, <2>1, DispatchParts DEF Happens, Shapes, WaitsOnce
  <2> QED  BY <1>1, <2>2 DEF Happens, Shapes, Links, Lines, Attempted, Reads, AppHas, Stays, app
<1>2. CASE TimesOut(e, a)
  <2>1. budget' \in Budget /\ budget'.conns = budget.conns
    BY <1>2, Numbers DEF TimesOut, Spends, Shapes, Links, Budget
  <2>2. /\ down' \in [Conn -> Seq(ToApp)]
        /\ pending' \in [Envelope -> 0 .. None] /\ timers' \subseteq Try
        /\ undelivered' \in Seq(Try) /\ WaitsOnce'
    <3>1. CASE pending[e] = a /\ Again(e, a)
      <4>1. a + 1 \in 0 .. MaxRetries
        BY <3>1, Numbers DEF Again
      <4>2. \A i \in DOMAIN undelivered : undelivered[i][1] # e
        BY <3>1, Numbers DEF Shapes, WaitsOnce
      <4>3. e \notin unsent /\ UNCHANGED unsent
        BY <1>2 DEF TimesOut, Shapes, WaitsOnce
      <4> QED  BY <1>2, <3>1, <4>1, <4>2, <4>3, DispatchParts DEF TimesOut
    <3>2. CASE ~(pending[e] = a /\ Again(e, a))
      <4>1. pending \in [Envelope -> 0 .. None] /\ None \in 0 .. None
        BY Numbers DEF Shapes, Attempted
      <4>2. pending' \in [Envelope -> 0 .. None]
        BY <1>2, <3>2, <4>1 DEF TimesOut
      <4>3. WaitsOnce'
        BY <1>2, <3>2, <4>1 DEF TimesOut, Shapes, WaitsOnce, Attempted, Try
      <4> QED  BY <1>2, <3>2, <4>2, <4>3 DEF TimesOut, Shapes, Lines, Attempted
    <3> QED  BY <3>1, <3>2
  <2> QED  BY <1>2, <2>1, <2>2 DEF TimesOut, Shapes, Links, Lines, Attempted, Reads, AppHas, Stays, app
<1> QED  BY <1>1, <1>2

LEMMA ConnShapes ==
  ASSUME SocketConstants, Shapes, NEW c \in Conn, SlackReads(c) \/ Refreshes(c) \/ Cut(c)
  PROVE  Shapes'
<1>1. CASE SlackReads(c)
  <2>1. up[c] \in Seq(ToSlack) /\ up[c] # <<>>
    BY <1>1 DEF SlackReads, Shapes, Lines
  <2>2. Tail(up[c]) \in Seq(ToSlack) /\ Head(up[c]) \in ToSlack
    BY <2>1, SetTail
  <2>3. up' \in [Conn -> Seq(ToSlack)]
    BY <1>1, <2>2 DEF SlackReads, Shapes, Lines
  <2>4. CASE Head(up[c]) = Goodbye
    BY <1>1, <2>3, <2>4 DEF SlackReads, Shapes, Links, Lines, Attempted, Reads, AppHas, Stays, app,
                            Topped, WaitsOnce
  <2>5. CASE Head(up[c]) # Goodbye
    <3>1. Head(up[c])[2] \in Envelope
      BY <2>2, <2>5, FrameFacts DEF ToSlack, Sent
    <3>2. pending \in [Envelope -> 0 .. None] /\ acked \subseteq Envelope /\ None \in 0 .. None
      BY Numbers DEF Shapes, Attempted
    <3>3. /\ pending' = [pending EXCEPT ![Head(up[c])[2]] = None]
          /\ acked' = acked \cup {Head(up[c])[2]}
      BY <1>1, <2>5 DEF SlackReads
    <3>4. pending' \in [Envelope -> 0 .. None] /\ acked' \subseteq Envelope
      BY <3>1, <3>2, <3>3
    <3>5. WaitsOnce'
      BY <1>1, <3>1, <3>2, <3>3 DEF SlackReads, Shapes, WaitsOnce, Attempted, Try
    <3> QED  BY <3>5, <1>1, <2>3, <2>5, <3>4 DEF SlackReads, Shapes, Links, Lines, Attempted, Reads, AppHas, Stays, app
  <2> QED  BY <2>4, <2>5
<1>2. CASE Refreshes(c)
  <2>1. budget' \in Budget /\ budget'.conns = budget.conns
    BY <1>2, Numbers DEF Refreshes, Spends, Shapes, Links, Budget
  <2>2. Append(down[c], Disconnect) \in Seq(ToApp)
    <3>1. Disconnect \in ToApp /\ down[c] \in Seq(ToApp)
      BY DEF ToApp, Shapes, Lines
    <3> QED  BY <3>1, SetAppend
  <2>3. down' \in [Conn -> Seq(ToApp)]
    BY <1>2, <2>2 DEF Refreshes, Shapes, Lines
  <2> QED  BY <1>2, <2>1, <2>3 DEF Refreshes, Shapes, Links, Lines, Attempted, Reads, AppHas, Stays, app,
                                  WaitsOnce
<1>3. CASE Cut(c)
  <2>1. budget' \in Budget /\ budget'.conns = budget.conns
    <3>1. budget' = [budget EXCEPT !.cuts = @ - 1] /\ budget.cuts > 0
      BY <1>3 DEF Cut, Spends
    <3>2. budget \in Budget /\ budget.cuts - 1 \in 0 .. MaxCuts
      BY <3>1, Numbers DEF Shapes, Links, Budget
    <3> QED  BY <3>1, <3>2 DEF Budget
  <2>2. PICK received \in {<<>>, down[c]} : down' = [down EXCEPT ![c] = received]
    BY <1>3 DEF Cut
  <2>3. received \in Seq(ToApp)
    BY <2>2, EmptySeq DEF Shapes, Lines
  <2>4. Lines'
    BY <1>3, <2>2, <2>3 DEF Cut, Shapes, Lines
  <2> QED  BY <1>3, <2>1, <2>4 DEF Cut, Shapes, Links, Lines, Attempted, Reads, AppHas, Stays, app, Topped,
                                  WaitsOnce
<1> QED  BY <1>1, <1>2, <1>3

LEMMA ReaderParts ==
  ASSUME Reads
  PROVE  /\ reader.at \in Places /\ reader.ws \in Conn \cup {NoWs} /\ reader.old \in Conn \cup {NoWs}
         /\ reader.dialled \in Conn \cup {NoWs} /\ reader.early \in Seq(ToApp)
         /\ reader.backlog \in Seq(ToApp) /\ reader.handing \in Handing
  BY DEF Reads, Reader

(* What is acked or closed is written behind what goes to Slack already. *)
LEMMA WritesUp ==
  ASSUME Shapes, NEW c \in Conn, NEW frame \in ToSlack,
         up' = [up EXCEPT ![c] = Append(@, frame)] \/ UNCHANGED up
  PROVE  up' \in [Conn -> Seq(ToSlack)]
<1>1. up[c] \in Seq(ToSlack)
  BY DEF Shapes, Lines
<1>2. Append(up[c], frame) \in Seq(ToSlack)
  BY <1>1, SetAppend
<1> QED  BY <1>2 DEF Shapes, Lines

(* `handle` of a frame keeps the types. *)
LEMMA HandlesShapes ==
  ASSUME SocketConstants, Shapes, NEW r \in Reader, r.at = "reading", NEW frame \in ToApp,
         r.early = <<>>, r.dialled = NoWs, Handles(r, frame)
  PROVE  /\ reader' \in Reader /\ reader'.early = <<>> /\ reader'.dialled = NoWs
         /\ reader'.at # "greeting"
         /\ up' \in [Conn -> Seq(ToSlack)]
<1>1. CASE frame = Hello
  BY <1>1, FrameFacts DEF Handles, Shapes, Lines
<1>2. CASE frame = Disconnect
  <2>1. reader' = [r EXCEPT !.at = "dialling", !.old = r.ws, !.ws = NoWs] /\ UNCHANGED up
    BY <1>2, FrameFacts DEF Handles
  <2> QED  BY <2>1 DEF Reader, Places, Shapes, Lines
<1>3. CASE frame \notin {Hello, Disconnect}
  <2>1. PICK e \in Envelope : frame = Carries(e) /\ frame[2] = e
    BY <1>3, FrameFacts DEF ToApp, Sent
  <2>2. \/ reader' = [r EXCEPT !.handing = <<e>>] /\ UNCHANGED up
        \/ up' = Acked(e) /\ \E after \in AfterAck(r) : reader' = [after EXCEPT !.handing = <<e>>]
    BY <1>3, <2>1 DEF Handles
  <2>3. \A after \in AfterAck(r) : /\ after \in Reader /\ after.early = <<>>
                                  /\ after.dialled = NoWs /\ after.at = "reading"
    BY DEF AfterAck, Reader
  <2>4. <<e>> \in Handing
    BY DEF Handing
  <2>5. /\ reader' \in Reader /\ reader'.early = <<>> /\ reader'.dialled = NoWs
        /\ reader'.at = "reading"
    <3>1. PICK after \in AfterAck(r) \cup {r} : reader' = [after EXCEPT !.handing = <<e>>]
      BY <2>2
    <3>2. after \in Reader /\ after.early = <<>> /\ after.dialled = NoWs /\ after.at = "reading"
      BY <2>3, <3>1
    <3> QED  BY <2>4, <3>1, <3>2 DEF Reader
  <2>6. Carries(e) \in ToSlack /\ reader.ws \in Conn \cup {NoWs}
    BY ReaderParts DEF ToSlack, Sent, Shapes
  <2>7. UNCHANGED up \/ (reader.ws \in Conn /\ up' = [up EXCEPT ![reader.ws] = Append(@, Carries(e))])
    BY <2>2, <2>6 DEF Acked
  <2>8. up' \in [Conn -> Seq(ToSlack)]
    BY <2>6, <2>7, WritesUp DEF Shapes, Lines
  <2> QED  BY <2>5, <2>8
<1> QED  BY <1>1, <1>2, <1>3

LEMMA DialsParts ==
  ASSUME SocketConstants, Shapes, Dials
  PROVE  \E c \in Conn :
           /\ c = MaxConns - budget.conns + 1 /\ c \notin conns
           /\ conns' = conns \cup {c} /\ budget'.conns = budget.conns - 1
           /\ budget' = [budget EXCEPT !.conns = @ - 1]
           /\ \E waiting \in Seq(Sent) :
                /\ waiting = [i \in DOMAIN undelivered |-> Carries(undelivered[i][1])]
                /\ \/ down' = [down EXCEPT ![c] = Append(waiting, Hello)]
                   \/ down' = [down EXCEPT ![c] = <<Hello>> \o waiting]
           /\ reader' = [reader EXCEPT !.at = "greeting", !.dialled = c]
           /\ reader.at = "dialling" /\ reader.early = <<>> /\ reader.dialled = NoWs
<1> DEFINE c == MaxConns - budget.conns + 1
<1>1. budget.conns \in 0 .. MaxConns /\ budget.conns > 0 /\ conns \subseteq 1 .. MaxConns - budget.conns
      /\ budget' = [budget EXCEPT !.conns = @ - 1] /\ budget'.conns = budget.conns - 1
  BY DEF Dials, Spends, Shapes, Links, Budget
<1>2. c \in Conn /\ c \notin conns
  BY <1>1, Numbers DEF Conn
<1>3. undelivered \in Seq(Try)
  BY DEF Shapes, Attempted
<1>4. [i \in DOMAIN undelivered |-> Carries(undelivered[i][1])] \in Seq(Sent)
  <2>1. \A i \in 1 .. Len(undelivered) : Carries(undelivered[i][1]) \in Sent
    BY <1>3 DEF Try, Sent
  <2>2. DOMAIN undelivered = 1 .. Len(undelivered) /\ Len(undelivered) \in Nat
    BY <1>3
  <2> QED  BY <2>1, <2>2, IsASeq
<1>5. reader.at = "dialling" /\ reader.early = <<>> /\ reader.dialled = NoWs
  BY DEF Dials, Shapes, Stays
<1> QED  BY <1>1, <1>2, <1>4, <1>5 DEF Dials

(* What waited for a connection waits for its ack now. *)
LEMMA DialsPending ==
  ASSUME SocketConstants, Shapes, Dials
  PROVE  /\ \A i \in DOMAIN undelivered : pending'[undelivered[i][1]] = undelivered[i][2]
         /\ \A e \in Envelope : \/ \E i \in DOMAIN undelivered :
                                     e = undelivered[i][1] /\ pending'[e] = undelivered[i][2]
                                \/ pending'[e] = pending[e]
<1>1. undelivered \in Seq(Try) /\ \A i \in DOMAIN undelivered : undelivered[i] \in Try
  BY DEF Shapes, Attempted
<1>2. ASSUME NEW i \in DOMAIN undelivered PROVE pending'[undelivered[i][1]] = undelivered[i][2]
  <2> DEFINE e == undelivered[i][1]
  <2>1. e \in Envelope /\ undelivered[i][2] \in Nat
    BY <1>1, Numbers DEF Try
  <2>2. {undelivered[k][2] : k \in {j \in DOMAIN undelivered : undelivered[j][1] = e}}
          = {undelivered[i][2]}
    BY DEF Shapes, WaitsOnce
  <2>3. pending'[e] = Max({undelivered[i][2]})
    BY <2>1, <2>2 DEF Dials
  <2>4. Max({undelivered[i][2]}) = undelivered[i][2]
    BY <2>1 DEF Max
  <2> QED  BY <2>3, <2>4
<1>3. ASSUME NEW e \in Envelope, ~ \E i \in DOMAIN undelivered : undelivered[i][1] = e
      PROVE  pending'[e] = pending[e]
  BY <1>3 DEF Dials
<1> QED  BY <1>2, <1>3

LEMMA DialsShapes == ASSUME SocketConstants, Shapes, Dials PROVE Shapes'
<1>1. PICK c \in Conn, waiting \in Seq(Sent) :
           /\ c = MaxConns - budget.conns + 1 /\ c \notin conns
           /\ conns' = conns \cup {c} /\ budget'.conns = budget.conns - 1
           /\ budget' = [budget EXCEPT !.conns = @ - 1]
           /\ \/ down' = [down EXCEPT ![c] = Append(waiting, Hello)]
              \/ down' = [down EXCEPT ![c] = <<Hello>> \o waiting]
           /\ reader' = [reader EXCEPT !.at = "greeting", !.dialled = c]
  BY DialsParts
<1>2. Lines'
  <2>1. waiting \in Seq(ToApp) /\ <<Hello>> \in Seq(ToApp) /\ Hello \in ToApp
    BY <1>1 DEF ToApp
  <2>2. Append(waiting, Hello) \in Seq(ToApp) /\ <<Hello>> \o waiting \in Seq(ToApp)
    BY <2>1, SetAppend, SetConcat
  <2>3. down' \in [Conn -> Seq(ToApp)]
    BY <1>1, <2>2 DEF Shapes, Lines
  <2> QED  BY <2>3 DEF Dials, Shapes, Lines
<1>3. Links'
  <2>1. budget \in Budget /\ budget.conns \in 0 .. MaxConns /\ conns \subseteq 1 .. MaxConns - budget.conns
        /\ Topped(conns)
    BY DEF Shapes, Links, Budget
  <2>2. budget.conns > 0
    BY DEF Dials, Spends
  <2>3. budget' \in Budget
    <3>1. budget.conns - 1 \in 0 .. MaxConns
      BY <2>1, <2>2, Numbers
    <3> QED  BY <1>1, <2>1, <3>1 DEF Budget
  <2>4. /\ c = MaxConns - budget.conns + 1 /\ budget'.conns = budget.conns - 1
        /\ conns' = conns \cup {c} /\ MaxConns \in Nat /\ budget.conns \in 0 .. MaxConns
    BY <1>1, <2>1, Numbers
  <2>5. conns' \subseteq 1 .. MaxConns - budget'.conns
    <3>1. /\ 1 .. MaxConns - budget'.conns = 1 .. c /\ c \in 1 .. c
          /\ 1 .. MaxConns - budget.conns \subseteq 1 .. c
      BY <2>4, <2>2
    <3> QED  BY <2>4, <2>1, <3>1
  <2>6. \A d \in conns : c >= d /\ d \in Nat
    <3>1. \A d \in 1 .. MaxConns - budget.conns : c >= d /\ d \in Nat
      BY <2>4
    <3> QED  BY <2>1, <3>1
  <2>7. ASSUME NEW T \in SUBSET (conns \cup {c}), T # {}
        PROVE  \E b \in T : \A d \in T : b >= d
    <3>1. CASE c \in T
      BY <1>1, <2>6, <3>1 DEF Conn
    <3>2. CASE c \notin T
      BY <2>1, <2>7, <3>2 DEF Topped
    <3> QED  BY <3>1, <3>2
  <2> QED  BY <1>1, <2>3, <2>5, <2>7 DEF Links, Topped, Dials, Shapes
<1>4. Attempted' /\ WaitsOnce'
  <2>1. undelivered \in Seq(Try) /\ pending \in [Envelope -> 0 .. None] /\ timers \subseteq Try
    BY DEF Shapes, Attempted
  <2>2. ToSet(undelivered) \subseteq Try
    BY <2>1 DEF ToSet
  <2>3. ASSUME NEW e \in Envelope PROVE pending'[e] \in 0 .. None
    <3>1. CASE pending'[e] = pending[e]
      BY <2>1, <3>1
    <3>2. ASSUME NEW i \in DOMAIN undelivered, pending'[e] = undelivered[i][2]
          PROVE  pending'[e] \in 0 .. None
      <4>1. undelivered[i] \in Try
        BY <2>1
      <4>2. undelivered[i][2] \in 0 .. MaxRetries
        BY <4>1 DEF Try
      <4> QED  BY <3>2, <4>2, Numbers
    <3> QED  BY <3>1, <3>2, DialsPending
  <2>4. pending' = [e \in Envelope |-> pending'[e]]
    BY DEF Dials
  <2>5. pending' \in [Envelope -> 0 .. None]
    BY <2>3, <2>4
  <2>6. /\ timers' = timers \cup ToSet(undelivered) /\ undelivered' = <<>>
        /\ UNCHANGED <<unsent, acked>>
    BY DEF Dials
  <2>7. Attempted'
    BY <2>1, <2>2, <2>5, <2>6, EmptySeq DEF Shapes, Attempted
  <2>8. \A t \in ToSet(undelivered) : t[1] \notin unsent
    BY DEF ToSet, Shapes, WaitsOnce
  <2>9. WaitsOnce'
    BY <2>6, <2>8 DEF Shapes, WaitsOnce
  <2> QED  BY <2>7, <2>9
<1>5. Reads' /\ Stays'
  BY <1>1 DEF Shapes, Reads, Reader, Places, Stays
<1> QED  BY <1>2, <1>3, <1>4, <1>5 DEF Shapes, AppHas, Dials, app

(* A step of the reader that touches neither what Slack keeps nor the app. *)
LEMMA ReaderShapes ==
  ASSUME Shapes, UNCHANGED <<slack, answers, app, budget>>,
         down' \in [Conn -> Seq(ToApp)], up' \in [Conn -> Seq(ToSlack)],
         reader' \in Reader, Stays'
  PROVE  Shapes'
  BY DEF Shapes, Links, Lines, Attempted, Reads, AppHas, WaitsOnce, slack, app

LEMMA GreetedShapes == ASSUME SocketConstants, Shapes, Greeted PROVE Shapes'
<1> DEFINE c == reader.dialled
<1>1. /\ c \in Conn /\ down[c] \in Seq(ToApp) /\ down[c] # <<>>
      /\ reader.at = "greeting"
  BY DEF Greeted, Shapes, Stays, Lines
<1>2. Tail(down[c]) \in Seq(ToApp) /\ Head(down[c]) \in ToApp
  BY <1>1, SetTail
<1>3. down' \in [Conn -> Seq(ToApp)]
  BY <1>1, <1>2 DEF Greeted, Shapes, Lines
<1>4. UNCHANGED <<slack, answers, app, budget>>
  BY DEF Greeted
<1>5. CASE Head(down[c]) = Hello
  <2>1. /\ reader' = [reader EXCEPT !.at = "reading", !.ws = c, !.dialled = NoWs,
                                    !.old = NoWs, !.early = <<>>, !.backlog = @ \o reader.early]
        /\ up' = Closes(reader.old)
    BY <1>5 DEF Greeted
  <2>2. reader.backlog \o reader.early \in Seq(ToApp) /\ <<>> \in Seq(ToApp)
    BY ReaderParts, SetConcat, EmptySeq DEF Shapes
  <2>3. reader' \in Reader /\ Stays'
    BY <1>1, <2>1, <2>2 DEF Shapes, Reads, Reader, Places, Stays
  <2>4. up' \in [Conn -> Seq(ToSlack)]
    <3>1. Goodbye \in ToSlack /\ reader.old \in Conn \cup {NoWs} /\ conns \subseteq Conn
      BY ReaderParts, Newest DEF ToSlack, Shapes
    <3> QED  BY <2>1, <3>1, WritesUp DEF Closes, Open, Shapes, Lines
  <2> QED  BY <1>3, <1>4, <2>3, <2>4, ReaderShapes
<1>6. CASE Head(down[c]) # Hello
  <2>1. reader' = [reader EXCEPT !.early = Append(@, Head(down[c]))] /\ UNCHANGED up
    BY <1>6 DEF Greeted, EarlyPutBy
  <2>2. Append(reader.early, Head(down[c])) \in Seq(ToApp)
    BY <1>2, SetAppend, ReaderParts DEF Shapes
  <2>3. reader' \in Reader /\ Stays'
    BY <1>1, <2>1, <2>2 DEF Shapes, Reads, Reader, Places, Stays
  <2> QED  BY <1>3, <1>4, <2>1, <2>3, ReaderShapes DEF Shapes, Lines
<1> QED  BY <1>5, <1>6

LEMMA ReadShapes ==
  ASSUME SocketConstants, Shapes,
         ReadsBacklog \/ ReadsFrame \/ Lost \/ NotGreeted \/ Refused
  PROVE  Shapes'
<1>1. UNCHANGED <<slack, answers, app, budget>>
  BY DEF ReadsBacklog, ReadsFrame, Lost, NotGreeted, Refused
<1>2. CASE ReadsBacklog
  <2> DEFINE r == [reader EXCEPT !.backlog = Tail(@)]
  <2>1. reader.backlog \in Seq(ToApp) /\ reader.backlog # <<>> /\ reader.at = "reading"
    BY <1>2, ReaderParts DEF ReadsBacklog, Shapes
  <2>2. Tail(reader.backlog) \in Seq(ToApp) /\ Head(reader.backlog) \in ToApp
    BY <2>1, SetTail
  <2>3. /\ r \in Reader /\ r.at = "reading" /\ r.early = <<>> /\ r.dialled = NoWs
        /\ Handles(r, Head(reader.backlog)) /\ UNCHANGED down
    BY <1>2, <2>1, <2>2 DEF ReadsBacklog, Shapes, Reads, Reader, Stays
  <2> HIDE DEF r
  <2>4. /\ reader' \in Reader /\ up' \in [Conn -> Seq(ToSlack)]
        /\ reader'.early = <<>> /\ reader'.dialled = NoWs /\ reader'.at # "greeting"
    BY <2>2, <2>3, HandlesShapes
  <2> QED  BY <1>1, <2>3, <2>4, ReaderShapes DEF Shapes, Lines, Stays
<1>3. CASE ReadsFrame
  <2>1. reader.ws \in Conn /\ down[reader.ws] \in Seq(ToApp) /\ down[reader.ws] # <<>>
        /\ reader.at = "reading"
    BY <1>3, ReaderParts DEF ReadsFrame, Shapes, Lines
  <2>2. Tail(down[reader.ws]) \in Seq(ToApp) /\ Head(down[reader.ws]) \in ToApp
    BY <2>1, SetTail
  <2>3. down' \in [Conn -> Seq(ToApp)]
    BY <1>3, <2>2 DEF ReadsFrame, Shapes, Lines
  <2>4. reader \in Reader /\ reader.early = <<>> /\ reader.dialled = NoWs
    BY <2>1 DEF Shapes, Reads, Stays
  <2>5. /\ reader' \in Reader /\ up' \in [Conn -> Seq(ToSlack)]
        /\ reader'.early = <<>> /\ reader'.dialled = NoWs /\ reader'.at # "greeting"
    BY <1>3, <2>1, <2>2, <2>4, HandlesShapes DEF ReadsFrame
  <2> QED  BY <1>1, <2>3, <2>5, ReaderShapes DEF Stays
<1>4. CASE Lost
  <2>1. reader' = [reader EXCEPT !.at = "dialling", !.ws = NoWs] /\ UNCHANGED <<up, down>>
        /\ reader.early = <<>> /\ reader.dialled = NoWs
    BY <1>4 DEF Lost, Shapes, Stays
  <2>2. reader' \in Reader /\ Stays'
    BY <2>1 DEF Shapes, Reads, Reader, Places, Stays
  <2> QED  BY <1>1, <2>1, <2>2, ReaderShapes DEF Shapes, Lines
<1>5. CASE NotGreeted
  <2>1. reader' = [reader EXCEPT !.at = "dialling", !.dialled = NoWs, !.early = <<>>]
        /\ UNCHANGED <<up, down>>
    BY <1>5 DEF NotGreeted
  <2>2. reader' \in Reader /\ Stays'
    BY <2>1, EmptySeq DEF Shapes, Reads, Reader, Places, Stays
  <2> QED  BY <1>1, <2>1, <2>2, ReaderShapes DEF Shapes, Lines
<1>6. CASE Refused
  <2>1. reader' = [reader EXCEPT !.at = "refused"] /\ UNCHANGED <<up, down>>
        /\ reader.early = <<>> /\ reader.dialled = NoWs
    BY <1>6 DEF Refused, Shapes, Stays
  <2>2. reader' \in Reader /\ Stays'
    BY <2>1 DEF Shapes, Reads, Reader, Places, Stays
  <2> QED  BY <1>1, <2>1, <2>2, ReaderShapes DEF Shapes, Lines
<1> QED  BY <1>2, <1>3, <1>4, <1>5, <1>6

(* What the app takes, answers, or loses as it stops. *)
LEMMA AppShapes ==
  ASSUME SocketConstants, Shapes, Hands \/ Takes \/ Stops \/ Answers
  PROVE  Shapes'
<1>1. answers \in Seq(Envelope) /\ queue \in Seq(Envelope) /\ seen \in Seq(Envelope)
      /\ spawned \in Seq(Envelope)
  BY DEF Shapes, AppHas
<1>2. CASE Hands
  <2>1. PICK e \in Envelope : reader.handing = <<e>>
    BY <1>2, ReaderParts DEF Hands, Handing, Shapes
  <2>2. queue' \in Seq(Envelope)
    BY <1>1, <1>2, <2>1, SetAppend DEF Hands
  <2>3. reader' \in Reader /\ Stays'
    BY <1>2 DEF Hands, Shapes, Reads, Reader, Handing, Stays
  <2> QED  BY <1>2, <2>2, <2>3 DEF Hands, Shapes, Links, Lines, Attempted, Reads, AppHas, WaitsOnce, slack
<1>3. CASE Takes
  <2>1. Head(queue) \in Envelope /\ Tail(queue) \in Seq(Envelope)
    BY <1>1, <1>3, SetTail DEF Takes
  <2>2. /\ Append(spawned, Head(queue)) \in Seq(Envelope)
        /\ Append(seen, Head(queue)) \in Seq(Envelope) /\ Append(seen, Head(queue)) # <<>>
        /\ Append(answers, Head(queue)) \in Seq(Envelope)
    BY <1>1, <2>1, SetAppend
  <2>3. ForgetsOldest(Append(seen, Head(queue))) \in Seq(Envelope)
    BY <2>2, SetTail DEF ForgetsOldest
  <2>4. AppHas'
    BY <1>1, <1>3, <2>1, <2>2, <2>3 DEF Takes, AppHas
  <2> QED  BY <1>3, <2>4 DEF Takes, Shapes, Links, Lines, Attempted, Reads, Stays, WaitsOnce, slack
<1>4. CASE Stops
  <2>1. reader' \in Reader /\ Stays'
    BY <1>4 DEF Stops, Shapes, Reads, Reader, Places, Stays
  <2> QED  BY <1>4, <2>1, EmptySeq DEF Stops, Shapes, Links, Lines, Attempted, Reads, AppHas, WaitsOnce, slack
<1>5. CASE Answers
  <2>1. Head(answers) \in Envelope /\ Tail(answers) \in Seq(Envelope)
    BY <1>1, <1>5, SetTail DEF Answers
  <2>2. reader' \in Reader /\ Stays'
    BY <1>5 DEF Answers, AfterAck, Shapes, Reads, Reader, Stays
  <2>3. up' \in [Conn -> Seq(ToSlack)]
    <3>1. Carries(Head(answers)) \in ToSlack /\ reader.ws \in Conn
      BY <1>5, <2>1, ReaderParts DEF ToSlack, Sent, Answers, Shapes
    <3> QED  BY <1>5, <3>1, WritesUp DEF Answers, Acked, Shapes, Lines
  <2> QED  BY <1>5, <2>1, <2>2, <2>3 DEF Answers, Shapes, Links, Lines, Attempted, Reads, AppHas, WaitsOnce, slack, app
<1> QED  BY <1>2, <1>3, <1>4, <1>5

LEMMA StillShapes == ASSUME Shapes, UNCHANGED vars PROVE Shapes'
  BY DEF vars, app, Shapes, Links, Lines, Attempted, Reads, AppHas, Stays, WaitsOnce

LEMMA NextShapes == ASSUME SocketConstants, Shapes, [Next]_vars PROVE Shapes'
<1>1. ASSUME NEW e \in Envelope, Happens(e) \/ \E a \in 0 .. MaxRetries : TimesOut(e, a)
      PROVE  Shapes'
  <2>1. PICK a \in 0 .. MaxRetries : Happens(e) \/ TimesOut(e, a)
    BY <1>1, Numbers
  <2> QED  BY <2>1, DispatchesShapes
<1>2. ASSUME NEW c \in Conn, SlackReads(c) \/ Refreshes(c) \/ Cut(c) PROVE Shapes'
  BY <1>2, ConnShapes
<1> QED  BY <1>1, <1>2, DialsShapes, GreetedShapes, ReadShapes, AppShapes, StillShapes DEF Next, ReaderStep

LEMMA InitShapes == ASSUME SocketConstants, Init PROVE Shapes
<1>1. /\ conns = {} /\ refreshing = {} /\ undelivered = <<>> /\ timers = {} /\ unsent = Envelope
      /\ acked = {} /\ answers = <<>> /\ queue = <<>> /\ seen = <<>> /\ spawned = <<>>
      /\ down = [c \in Conn |-> <<>>] /\ up = [c \in Conn |-> <<>>]
      /\ pending = [e \in Envelope |-> None]
      /\ budget = [conns |-> MaxConns, cuts |-> MaxCuts, refreshes |-> MaxRefreshes,
                   slow |-> MaxSlow]
      /\ reader = [at |-> "dialling", ws |-> NoWs, old |-> NoWs, dialled |-> NoWs,
                   early |-> <<>>, backlog |-> <<>>, handing |-> <<>>]
  BY DEF Init
<1>2. Links /\ WaitsOnce
  BY <1>1, Numbers DEF Links, Topped, Budget, WaitsOnce
<1>3. Lines /\ AppHas
  BY <1>1, EmptySeq DEF Lines, AppHas
<1>4. Attempted
  BY <1>1, EmptySeq, Numbers DEF Attempted
<1>5. Reads /\ Stays
  BY <1>1, EmptySeq DEF Reads, Reader, Places, Handing, Stays
<1> QED  BY <1>2, <1>3, <1>4, <1>5 DEF Shapes

----------------------------------------------------------------------------
(* What is acked was handed *)

Handed(e)  == e \in ToSet(queue) \cup ToSet(spawned) \cup ToSet(reader.handing)
Upwards(e) == e \in acked \cup ToSet(answers) \/ \E c \in Conn : Carries(e) \in ToSet(up[c])

(* An ack that is on its way, or that waits for a connection, is of an     *)
(* envelope the app has; what is remembered was handled.                   *)
AcksHanded  == reader.at # "closed" => \A e \in Envelope : Upwards(e) => Handed(e)
SeenHandled == ToSet(seen) \subseteq ToSet(spawned) /\ Len(seen) <= Remembered

LEMMA UpAppended ==
  ASSUME Shapes, NEW c \in Conn, NEW frame \in ToSlack,
         up' = [up EXCEPT ![c] = Append(@, frame)] \/ UNCHANGED up
  PROVE  \A d \in Conn : \A e \in Envelope :
           Carries(e) \in ToSet(up'[d]) => Carries(e) \in ToSet(up[d]) \/ Carries(e) = frame
<1>1. up[c] \in Seq(ToSlack) /\ up \in [Conn -> Seq(ToSlack)]
  BY DEF Shapes, Lines
<1>2. ToSet(Append(up[c], frame)) = ToSet(up[c]) \cup {frame}
  BY <1>1, SetAppend
<1>3. CASE UNCHANGED up
  BY <1>3
<1>4. CASE up' = [up EXCEPT ![c] = Append(@, frame)]
  <2>1. up'[c] = Append(up[c], frame) /\ \A d \in Conn : d # c => up'[d] = up[d]
    BY <1>1, <1>4
  <2> QED  BY <1>2, <2>1
<1> QED  BY <1>3, <1>4

(* `handle` in words: a frame of Slack's own is no envelope; an envelope   *)
(* is handed over, and an ack is no other's.                               *)
LEMMA HandlesParts ==
  ASSUME SocketConstants, Shapes, NEW r \in Reader, NEW frame \in ToApp, Handles(r, frame)
  PROVE  \/ frame = Hello /\ reader' = r /\ UNCHANGED up
         \/ /\ frame = Disconnect /\ UNCHANGED up
            /\ reader' = [r EXCEPT !.at = "dialling", !.old = r.ws, !.ws = NoWs]
         \/ \E e \in Envelope :
              /\ frame = Carries(e) /\ reader'.handing = <<e>>
              /\ reader'.at = r.at /\ reader'.backlog = r.backlog /\ reader'.early = r.early
              /\ reader'.old = r.old /\ reader'.dialled = r.dialled
              /\ \/ UNCHANGED up
                 \/ reader.ws \in conns /\ reader.ws \in Conn
                    /\ up' = [up EXCEPT ![reader.ws] = Append(@, Carries(e))]
<1>1. CASE frame = Hello
  BY <1>1, FrameFacts DEF Handles
<1>2. CASE frame = Disconnect
  BY <1>2, FrameFacts DEF Handles
<1>3. CASE frame \notin {Hello, Disconnect}
  <2>1. PICK e \in Envelope : frame = Carries(e) /\ frame[2] = e
    BY <1>3, FrameFacts DEF ToApp, Sent
  <2>2. \/ reader' = [r EXCEPT !.handing = <<e>>] /\ UNCHANGED up
        \/ up' = Acked(e) /\ \E after \in AfterAck(r) : reader' = [after EXCEPT !.handing = <<e>>]
    BY <1>3, <2>1 DEF Handles
  <2>3. reader.ws \in Conn \cup {NoWs}
    BY ReaderParts DEF Shapes
  <2>4. /\ reader'.handing = <<e>>
        /\ reader'.at = r.at /\ reader'.backlog = r.backlog /\ reader'.early = r.early
        /\ reader'.old = r.old /\ reader'.dialled = r.dialled
    <3>1. PICK after \in {r, [r EXCEPT !.ws = NoWs]} : reader' = [after EXCEPT !.handing = <<e>>]
      BY <2>2 DEF AfterAck
    <3> QED  BY <3>1 DEF Reader
  <2>5. \/ UNCHANGED up
        \/ reader.ws \in conns /\ reader.ws \in Conn
           /\ up' = [up EXCEPT ![reader.ws] = Append(@, Carries(e))]
    BY <2>2, <2>3 DEF Acked, Open
  <2> QED  BY <2>1, <2>4, <2>5
<1> QED  BY <1>1, <1>2, <1>3

(* The app gives nothing back, while the gateway leads.                    *)
KeepsHanded == reader'.at # "closed" => \A e \in Envelope : Handed(e) => Handed(e)'

(* The rule of the proof: a step that takes nothing from the app, and      *)
(* sends no ack of what the app does not have.                             *)
LEMMA HandsMore ==
  ASSUME AcksHanded, reader.at # "closed",
         \A e \in Envelope : /\ Handed(e) => Handed(e)'
                             /\ Upwards(e)' => Upwards(e) \/ Handed(e)'
  PROVE  AcksHanded' /\ KeepsHanded
  BY DEF AcksHanded, KeepsHanded

LEMMA SlackHands ==
  ASSUME SocketConstants, Shapes, AcksHanded, SeenHandled,
         \/ \E e \in Envelope : Happens(e) \/ \E a \in 0 .. MaxRetries : TimesOut(e, a)
         \/ \E c \in Conn : SlackReads(c) \/ Refreshes(c) \/ Cut(c)
  PROVE  AcksHanded' /\ SeenHandled' /\ KeepsHanded
<1>1. UNCHANGED <<reader, answers, queue, seen, spawned>>
  BY DEF Happens, TimesOut, SlackReads, Refreshes, Cut, app
<1>2. \A e \in Envelope : Handed(e)' <=> Handed(e)
  BY <1>1 DEF Handed
<1>3. ASSUME NEW e \in Envelope, Upwards(e)' PROVE Upwards(e)
  <2>1. CASE UNCHANGED <<up, acked>>
    BY <1>1, <1>3, <2>1 DEF Upwards
  <2>2. ASSUME NEW c \in Conn, SlackReads(c) PROVE Upwards(e)
    <3>1. up[c] \in Seq(ToSlack) /\ up[c] # <<>> /\ up \in [Conn -> Seq(ToSlack)]
      BY <2>2 DEF SlackReads, Shapes, Lines
    <3>2. ToSet(up[c]) = ToSet(Tail(up[c])) \cup {Head(up[c])} /\ Head(up[c]) \in ToSlack
      BY <3>1, SetTail
    <3>3. up' = [up EXCEPT ![c] = Tail(@)]
      BY <2>2 DEF SlackReads
    <3>4. \A d \in Conn : ToSet(up'[d]) \subseteq ToSet(up[d])
      BY <3>1, <3>2, <3>3
    <3>5. e \in acked' => e \in acked \/ Carries(e) = Head(up[c])
      <4>1. ASSUME e \in acked', e \notin acked PROVE Carries(e) = Head(up[c])
        <5>1. Head(up[c]) # Goodbye /\ e = Head(up[c])[2]
          BY <2>2, <4>1 DEF SlackReads
        <5>2. Head(up[c]) \in Sent
          BY <3>2, <5>1 DEF ToSlack
        <5> QED  BY <5>1, <5>2, FrameFacts DEF Sent
      <4> QED  BY <4>1
    <3> QED  BY <1>1, <1>3, <3>2, <3>4, <3>5 DEF Upwards
  <2>3. ASSUME NEW c \in Conn, Cut(c) PROVE Upwards(e)
    <3>1. up \in [Conn -> Seq(ToSlack)] /\ up' = [up EXCEPT ![c] = <<>>] /\ UNCHANGED acked
      BY <2>3 DEF Cut, Shapes, Lines
    <3>2. \A d \in Conn : ToSet(up'[d]) \subseteq ToSet(up[d])
      BY <3>1, SetEmpty
    <3> QED  BY <1>1, <1>3, <3>1, <3>2 DEF Upwards
  <2> QED  BY <2>1, <2>2, <2>3 DEF Happens, TimesOut, Refreshes
<1> QED  BY <1>1, <1>2, <1>3 DEF AcksHanded, SeenHandled, KeepsHanded

LEMMA ReaderHands ==
  ASSUME SocketConstants, Shapes, AcksHanded, SeenHandled,
         Dials \/ Greeted \/ NotGreeted \/ ReadsBacklog \/ ReadsFrame \/ Lost \/ Refused
  PROVE  AcksHanded' /\ SeenHandled' /\ KeepsHanded
<1>1. UNCHANGED <<acked, answers, queue, seen, spawned>>
  BY DEF Dials, Greeted, NotGreeted, ReadsBacklog, ReadsFrame, Lost, Refused, slack, app
<1>2. SeenHandled'
  BY <1>1 DEF SeenHandled
<1>3. reader.at # "closed"
  BY DEF Dials, Greeted, NotGreeted, ReadsBacklog, ReadsFrame, Lost, Refused
<1>4. SUFFICES \A e \in Envelope : /\ Handed(e) => Handed(e)'
                                   /\ Upwards(e)' => Upwards(e) \/ Handed(e)'
  BY <1>2, <1>3, HandsMore
<1>5. CASE Dials \/ NotGreeted \/ Lost \/ Refused
  <2>1. UNCHANGED up
    BY <1>5 DEF Dials, NotGreeted, Lost, Refused
  <2>2. UNCHANGED reader.handing
    BY <1>5 DEF Dials, NotGreeted, Lost, Refused, Shapes, Reads, Reader
  <2> QED  BY <1>1, <2>1, <2>2 DEF Handed, Upwards
<1>6. CASE Greeted
  <2>1. UNCHANGED reader.handing
    BY <1>6 DEF Greeted, Shapes, Reads, Reader
  <2>2. up' = Closes(reader.old) \/ UNCHANGED up
    BY <1>6 DEF Greeted, EarlyPutBy
  <2>3. Goodbye \in ToSlack /\ reader.old \in Conn \cup {NoWs} /\ conns \subseteq Conn
    BY ReaderParts, Newest DEF ToSlack, Shapes
  <2>4. \/ UNCHANGED up
        \/ reader.old \in Conn /\ up' = [up EXCEPT ![reader.old] = Append(@, Goodbye)]
    BY <2>2, <2>3 DEF Closes, Open
  <2>5. \A d \in Conn : \A e \in Envelope :
          Carries(e) \in ToSet(up'[d]) => Carries(e) \in ToSet(up[d])
    BY <2>3, <2>4, UpAppended, FrameFacts
  <2> QED  BY <1>1, <2>1, <2>5 DEF Handed, Upwards
<1>7. ASSUME NEW r \in Reader, r.handing = <<>>, reader.handing = <<>>, NEW frame \in ToApp,
             Handles(r, frame)
      PROVE  \A e \in Envelope : /\ Handed(e) => Handed(e)'
                                 /\ Upwards(e)' => Upwards(e) \/ Handed(e)'
  <2>1. ToSet(reader.handing) = {}
    BY <1>7, SetEmpty
  <2>2. \A e \in Envelope : Handed(e) => Handed(e)'
    BY <1>1, <2>1 DEF Handed
  <2>3. CASE UNCHANGED up
    BY <1>1, <2>2, <2>3 DEF Upwards
  <2>4. ASSUME NEW d \in Envelope, reader'.handing = <<d>>, reader.ws \in Conn,
               up' = [up EXCEPT ![reader.ws] = Append(@, Carries(d))]
        PROVE  \A e \in Envelope : Upwards(e)' => Upwards(e) \/ Handed(e)'
    <3>1. Carries(d) \in ToSlack
      BY DEF ToSlack, Sent
    <3>2. \A c \in Conn : \A e \in Envelope :
            Carries(e) \in ToSet(up'[c]) => Carries(e) \in ToSet(up[c]) \/ Carries(e) = Carries(d)
      BY <2>4, <3>1, UpAppended
    <3>3. d \in ToSet(reader'.handing)
      <4>1. ToSet(<<d>>) = {d}
        BY DEF ToSet
      <4> QED  BY <2>4, <4>1
    <3>4. Handed(d)'
      BY <3>3 DEF Handed
    <3> QED  BY <1>1, <3>2, <3>4, FrameFacts DEF Upwards
  <2> QED  BY <1>7, <2>2, <2>3, <2>4, HandlesParts
<1>8. CASE ReadsBacklog
  <2> DEFINE r == [reader EXCEPT !.backlog = Tail(@)]
  <2>1. reader.backlog \in Seq(ToApp) /\ reader.backlog # <<>> /\ reader.handing = <<>>
    BY <1>8, ReaderParts DEF ReadsBacklog, Shapes
  <2>2. Tail(reader.backlog) \in Seq(ToApp) /\ Head(reader.backlog) \in ToApp
    BY <2>1, SetTail
  <2>3. r \in Reader /\ r.handing = <<>> /\ Handles(r, Head(reader.backlog))
    BY <1>8, <2>1, <2>2 DEF ReadsBacklog, Shapes, Reads, Reader
  <2> HIDE DEF r
  <2> QED  BY <1>7, <2>1, <2>2, <2>3
<1>9. CASE ReadsFrame
  <2>1. reader.ws \in Conn /\ down[reader.ws] \in Seq(ToApp) /\ down[reader.ws] # <<>>
        /\ reader.handing = <<>> /\ reader \in Reader
    BY <1>9, ReaderParts DEF ReadsFrame, Shapes, Lines, Reads
  <2>2. Head(down[reader.ws]) \in ToApp /\ Handles(reader, Head(down[reader.ws]))
    BY <1>9, <2>1, SetTail DEF ReadsFrame
  <2> QED  BY <1>7, <2>1, <2>2
<1> QED  BY <1>5, <1>6, <1>8, <1>9

LEMMA AppHands ==
  ASSUME SocketConstants, Shapes, AcksHanded, SeenHandled, Hands \/ Takes \/ Stops \/ Answers
  PROVE  AcksHanded' /\ SeenHandled' /\ KeepsHanded
<1>1. answers \in Seq(Envelope) /\ queue \in Seq(Envelope) /\ seen \in Seq(Envelope)
      /\ spawned \in Seq(Envelope)
  BY DEF Shapes, AppHas
<1>2. CASE Hands
  <2>1. PICK d \in Envelope : reader.handing = <<d>>
    BY <1>2, ReaderParts DEF Hands, Handing, Shapes
  <2>2. ToSet(queue') = ToSet(queue) \cup {d}
    BY <1>1, <1>2, <2>1, SetAppend DEF Hands
  <2>3. ToSet(reader.handing) = {d}
    BY <2>1 DEF ToSet
  <2>4. UNCHANGED <<up, acked, answers, seen, spawned>> /\ reader.at # "closed"
    BY <1>2 DEF Hands, slack
  <2>5. \A e \in Envelope : (Handed(e) => Handed(e)') /\ (Upwards(e)' => Upwards(e))
    BY <2>2, <2>3, <2>4 DEF Handed, Upwards
  <2> QED  BY <2>4, <2>5, HandsMore DEF SeenHandled
<1>3. CASE Takes
  <2> DEFINE d == Head(queue)
  <2>1. d \in Envelope /\ ToSet(queue) = ToSet(Tail(queue)) \cup {d} /\ queue' = Tail(queue)
        /\ UNCHANGED <<up, acked, reader>> /\ reader.at # "closed"
    BY <1>1, <1>3, SetTail DEF Takes, slack, Running
  <2>2. ToSet(Append(spawned, d)) = ToSet(spawned) \cup {d}
        /\ ToSet(Append(answers, d)) = ToSet(answers) \cup {d}
        /\ ToSet(Append(seen, d)) = ToSet(seen) \cup {d}
        /\ Append(seen, d) \in Seq(Envelope) /\ Append(seen, d) # <<>>
        /\ Len(Append(seen, d)) = Len(seen) + 1
    BY <1>1, <2>1, SetAppend
  <2>3. ToSet(spawned') = ToSet(spawned) \cup {d}
    <3>1. CASE spawned' = Append(spawned, d)
      BY <2>2, <3>1
    <3>2. CASE UNCHANGED spawned /\ d \in ToSet(seen)
      BY <3>2 DEF SeenHandled
    <3> QED  BY <1>3, <3>1, <3>2 DEF Takes
  <2>4. SeenHandled'
    <3>1. CASE UNCHANGED seen
      BY <2>3, <3>1 DEF SeenHandled
    <3>2. CASE seen' = ForgetsOldest(Append(seen, d))
      <4>1. /\ Tail(Append(seen, d)) \in Seq(Envelope)
            /\ ToSet(Tail(Append(seen, d))) \subseteq ToSet(seen) \cup {d}
            /\ Len(Tail(Append(seen, d))) = Len(seen) /\ Len(seen) \in Nat
        <5>1. /\ Tail(Append(seen, d)) \in Seq(Envelope)
              /\ ToSet(Append(seen, d)) = ToSet(Tail(Append(seen, d))) \cup {Head(Append(seen, d))}
          BY <2>2, SetTail
        <5>2. /\ Len(Tail(Append(seen, d))) = Len(Append(seen, d)) - 1 /\ Len(seen) \in Nat
          BY <1>1, <2>2, HeadTailProperties
        <5> QED  BY <2>2, <5>1, <5>2
      <4>2. ToSet(seen') \subseteq ToSet(seen) \cup {d} /\ Len(seen') <= Remembered
        BY <2>2, <3>2, <4>1, Numbers DEF ForgetsOldest, SeenHandled
      <4> QED  BY <2>3, <4>2 DEF SeenHandled
    <3> QED  BY <1>3, <3>1, <3>2 DEF Takes
  <2>5. ToSet(answers') \subseteq ToSet(answers) \cup {d}
    BY <1>3, <2>2 DEF Takes
  <2>6. \A e \in Envelope : (Handed(e) => Handed(e)') /\ (Upwards(e)' => Upwards(e) \/ Handed(e)')
    BY <2>1, <2>3, <2>5 DEF Handed, Upwards
  <2> QED  BY <2>1, <2>4, <2>6, HandsMore
<1>4. CASE Stops
  <2>1. reader'.at = "closed" /\ UNCHANGED <<seen, spawned>>
    BY <1>4 DEF Stops, Shapes, Reads, Reader
  <2> QED  BY <2>1 DEF AcksHanded, SeenHandled, KeepsHanded
<1>5. CASE Answers
  <2> DEFINE d == Head(answers)
  <2>1. d \in Envelope /\ ToSet(answers) = ToSet(Tail(answers)) \cup {d} /\ answers' = Tail(answers)
        /\ UNCHANGED <<acked, queue, seen, spawned>> /\ reader.at # "closed"
    BY <1>1, <1>5, SetTail DEF Answers, slack, app
  <2>2. UNCHANGED reader.handing
    BY <1>5 DEF Answers, AfterAck, Shapes, Reads, Reader
  <2>3. Carries(d) \in ToSlack /\ reader.ws \in Conn
    BY <1>5, <2>1, ReaderParts DEF ToSlack, Sent, Answers, Shapes
  <2>4. up' = [up EXCEPT ![reader.ws] = Append(@, Carries(d))] \/ UNCHANGED up
    BY <1>5 DEF Answers, Acked
  <2>5. \A c \in Conn : \A e \in Envelope :
          Carries(e) \in ToSet(up'[c]) => Carries(e) \in ToSet(up[c]) \/ e = d
    BY <2>3, <2>4, UpAppended, FrameFacts
  <2>6. \A e \in Envelope : (Handed(e) => Handed(e)') /\ (Upwards(e)' => Upwards(e))
    BY <2>1, <2>2, <2>5 DEF Handed, Upwards
  <2> QED  BY <2>1, <2>6, HandsMore DEF SeenHandled
<1> QED  BY <1>2, <1>3, <1>4, <1>5

(* What holds of every state, for what the app is handed. *)
Hand == Shapes /\ AcksHanded /\ SeenHandled

LEMMA InitHand == ASSUME SocketConstants, Init PROVE Hand
<1>1. Shapes
  BY InitShapes
<1>2. /\ acked = {} /\ ToSet(answers) = {} /\ \A c \in Conn : ToSet(up[c]) = {}
      /\ ToSet(seen) = {} /\ Len(seen) = 0
  BY SetEmpty DEF Init
<1> QED  BY <1>1, <1>2, Numbers DEF Hand, AcksHanded, SeenHandled, Upwards

LEMMA NextHand == ASSUME SocketConstants, Hand, [Next]_vars PROVE Hand'
<1>1. Shapes'
  BY NextShapes DEF Hand
<1>2. CASE UNCHANGED vars
  BY <1>1, <1>2 DEF vars, app, Hand, AcksHanded, SeenHandled, Upwards, Handed
<1> QED  BY <1>1, <1>2, SlackHands, ReaderHands, AppHands DEF Hand, Next, ReaderStep

LEMMA HandAcked == ASSUME SocketConstants, Hand PROVE AckedIsHanded
  BY DEF Hand, Shapes, Attempted, AcksHanded, Upwards, Handed, AckedIsHanded

(* What Slack counts as acked, and so never sends again, was handed to the *)
(* app, unless the gateway stopped: of socket.rs, that acks as it reads    *)
(* and hands over before it reads on, however many connections are cut.    *)
THEOREM AckedReachesApp == ASSUME SocketConstants PROVE Spec => []AckedIsHanded
<1>1. Init => Hand
  BY InitHand
<1>2. Hand /\ [Next]_vars => Hand'
  BY NextHand
<1>3. Hand => AckedIsHanded
  BY HandAcked
<1> QED  BY <1>1, <1>2, <1>3, PTL DEF Spec

----------------------------------------------------------------------------
(* An event is handled once *)

IsEvent(e) == KindOf[e] = "event"

(* The events handled behind the i-th thing that was.                      *)
Behind(order, i) == {k \in i + 1 .. Len(order) : IsEvent(order[k])}

(* An event that was handled is remembered, and as far from being          *)
(* forgotten as others came behind it, unless REMEMBERED_EVENTS did.       *)
Remembers ==
  \A i \in DOMAIN spawned : IsEvent(spawned[i]) =>
    \/ Cardinality(Behind(spawned, i)) >= Remembered
    \/ \E k \in DOMAIN seen :
         seen[k] = spawned[i] /\ Cardinality(Behind(spawned, i)) >= Len(seen) - k

LEMMA BehindCounts ==
  ASSUME SocketConstants, NEW order \in Seq(Envelope), NEW i \in 1 .. Len(order)
  PROVE  IsFiniteSet(Behind(order, i)) /\ Cardinality(Behind(order, i)) \in Nat
<1>1. i + 1 \in Int /\ Len(order) \in Int
  OBVIOUS
<1>2. IsFiniteSet(i + 1 .. Len(order))
  BY <1>1, FS_Interval
<1>3. Behind(order, i) \in SUBSET (i + 1 .. Len(order))
  BY DEF Behind
<1> QED  BY <1>2, <1>3, FS_Subset, FS_CardinalityType

(* One more is behind all others, and is counted if it is an event.        *)
LEMMA BehindGrows ==
  ASSUME SocketConstants, NEW order \in Seq(Envelope), NEW e \in Envelope, NEW i \in 1 .. Len(order)
  PROVE  /\ IsEvent(e) => Cardinality(Behind(Append(order, e), i)) = Cardinality(Behind(order, i)) + 1
         /\ Cardinality(Behind(Append(order, e), i)) >= Cardinality(Behind(order, i))
<1> DEFINE n == Len(order)
           longer == Append(order, e)
<1>1. /\ n \in Nat /\ Len(longer) = n + 1 /\ longer[n + 1] = e
      /\ \A k \in 1 .. n : longer[k] = order[k]
  OBVIOUS
<1>2. IsFiniteSet(Behind(order, i)) /\ Cardinality(Behind(order, i)) \in Nat
  BY BehindCounts
<1>3. n + 1 \notin Behind(order, i)
  BY <1>1 DEF Behind
<1> HIDE DEF n, longer
<1>4. \A k : k \in Behind(longer, i) <=> (k \in Behind(order, i) \/ (k = n + 1 /\ IsEvent(e)))
  <2>1. \A k \in i + 1 .. n + 1 : k = n + 1 \/ k \in i + 1 .. n
    BY <1>1
  <2>2. n + 1 \in i + 1 .. n + 1 /\ \A k \in i + 1 .. n : k \in i + 1 .. n + 1 /\ k \in 1 .. n
    BY <1>1 DEF n
  <2> QED  BY <1>1, <2>1, <2>2 DEF Behind, n
<1>5. CASE IsEvent(e)
  <2>1. Behind(longer, i) = Behind(order, i) \cup {n + 1}
    BY <1>4, <1>5
  <2>2. Cardinality(Behind(longer, i)) = Cardinality(Behind(order, i)) + 1
    BY <1>2, <1>3, <2>1, FS_AddElement
  <2> QED  BY <1>2, <2>2 DEF longer
<1>6. CASE ~IsEvent(e)
  <2>1. Behind(longer, i) = Behind(order, i)
    BY <1>4, <1>6
  <2> QED  BY <1>2, <1>6, <2>1 DEF longer
<1> QED  BY <1>5, <1>6

(* `Events::first_time`: what is taken is handled unless it is an event    *)
(* that is remembered, and an event is remembered from then on.            *)
LEMMA TakesParts ==
  ASSUME SocketConstants, Shapes, Takes
  PROVE  \E e \in Envelope :
           \/ IsEvent(e) /\ e \in ToSet(seen) /\ UNCHANGED <<seen, spawned>>
           \/ /\ ~(IsEvent(e) /\ e \in ToSet(seen))
              /\ spawned' = Append(spawned, e)
              /\ seen' = IF IsEvent(e) THEN ForgetsOldest(Append(seen, e)) ELSE seen
<1>1. queue \in Seq(Envelope) /\ queue # <<>>
  BY DEF Takes, Shapes, AppHas
<1>2. Head(queue) \in Envelope
  BY <1>1, SetTail
<1> QED  BY <1>2 DEF Takes, IsEvent

LEMMA TakesRemembers ==
  ASSUME SocketConstants, Shapes, SeenHandled, Remembers, HandledOnce, Takes
  PROVE  Remembers' /\ HandledOnce'
<1>1. PICK e \in Envelope :
           \/ IsEvent(e) /\ e \in ToSet(seen) /\ UNCHANGED <<seen, spawned>>
           \/ /\ ~(IsEvent(e) /\ e \in ToSet(seen))
              /\ spawned' = Append(spawned, e)
              /\ seen' = IF IsEvent(e) THEN ForgetsOldest(Append(seen, e)) ELSE seen
  BY TakesParts
<1>2. CASE UNCHANGED <<seen, spawned>>
  BY <1>2 DEF Remembers, HandledOnce
<1>3. CASE /\ ~(IsEvent(e) /\ e \in ToSet(seen))
           /\ spawned' = Append(spawned, e)
           /\ seen' = IF IsEvent(e) THEN ForgetsOldest(Append(seen, e)) ELSE seen
  <2> DEFINE n == Len(spawned)
             m == Len(seen)
  <2>1. /\ n \in Nat /\ DOMAIN spawned = 1 .. n /\ DOMAIN spawned' = 1 .. n + 1
        /\ Len(spawned') = n + 1 /\ spawned'[n + 1] = e
        /\ \A i \in 1 .. n : spawned'[i] = spawned[i]
        /\ spawned \in Seq(Envelope)
    BY <1>3 DEF Shapes, AppHas
  <2>2. /\ m \in Nat /\ DOMAIN seen = 1 .. m /\ m <= Remembered
        /\ Append(seen, e) \in Seq(Envelope) /\ Len(Append(seen, e)) = m + 1
        /\ Append(seen, e)[m + 1] = e /\ \A k \in 1 .. m : Append(seen, e)[k] = seen[k]
    BY DEF Shapes, AppHas, SeenHandled
  <2> HIDE DEF n, m
  <2>3. \A i \in 1 .. n + 1 : i \in 1 .. n \/ i = n + 1
    BY <2>1
  <2>4. \A i \in 1 .. n :
           /\ Cardinality(Behind(spawned, i)) \in Nat /\ Cardinality(Behind(spawned', i)) \in Nat
           /\ Cardinality(Behind(spawned', i)) >= Cardinality(Behind(spawned, i))
           /\ IsEvent(e) => Cardinality(Behind(spawned', i)) = Cardinality(Behind(spawned, i)) + 1
    <3> SUFFICES ASSUME NEW i \in 1 .. n
                 PROVE  /\ Cardinality(Behind(spawned, i)) \in Nat /\ Cardinality(Behind(spawned', i)) \in Nat
                        /\ Cardinality(Behind(spawned', i)) >= Cardinality(Behind(spawned, i))
                        /\ IsEvent(e) => Cardinality(Behind(spawned', i))
                                           = Cardinality(Behind(spawned, i)) + 1
      OBVIOUS
    <3>1. i \in 1 .. Len(spawned) /\ i \in 1 .. Len(Append(spawned, e))
          /\ Append(spawned, e) \in Seq(Envelope)
      BY <1>3, <2>1 DEF n
    <3> QED  BY <1>3, <2>1, <3>1, BehindCounts, BehindGrows
  <2>5. Cardinality(Behind(spawned', n + 1)) \in Nat
    <3>1. spawned' \in Seq(Envelope) /\ n + 1 \in 1 .. Len(spawned')
      BY <1>3, <2>1, SetAppend
    <3> QED  BY <3>1, BehindCounts
  <2>6. Remembers'
    <3>1. ASSUME ~IsEvent(e) PROVE Remembers'
      <4>1. UNCHANGED seen
        BY <1>3, <3>1
      <4>2. ASSUME NEW i \in 1 .. n, IsEvent(spawned[i])
            PROVE  \/ Cardinality(Behind(spawned', i)) >= Remembered
                   \/ \E k \in DOMAIN seen : seen[k] = spawned[i]
                                             /\ Cardinality(Behind(spawned', i)) >= m - k
        <5>1. CASE Cardinality(Behind(spawned, i)) >= Remembered
          BY <2>4, <5>1, Numbers
        <5>2. ASSUME NEW k \in DOMAIN seen, seen[k] = spawned[i],
                     Cardinality(Behind(spawned, i)) >= m - k
              PROVE  Cardinality(Behind(spawned', i)) >= m - k
          BY <2>2, <2>4, <5>2
        <5> QED  BY <4>2, <2>1, <5>1, <5>2 DEF Remembers, m
      <4> QED  BY <2>1, <2>3, <3>1, <4>1, <4>2 DEF Remembers, IsEvent, m
    <3>2. ASSUME IsEvent(e) PROVE Remembers'
      <4>1. seen' = ForgetsOldest(Append(seen, e))
        BY <1>3, <3>2
      <4>2. CASE m + 1 <= Remembered
        <5>1. seen' = Append(seen, e) /\ Len(seen') = m + 1 /\ DOMAIN seen' = 1 .. m + 1
          BY <2>2, <4>1, <4>2, Numbers DEF ForgetsOldest
        <5>2. ASSUME NEW i \in 1 .. n, IsEvent(spawned[i])
              PROVE  \/ Cardinality(Behind(spawned', i)) >= Remembered
                     \/ \E k \in 1 .. m + 1 : seen'[k] = spawned[i]
                                              /\ Cardinality(Behind(spawned', i)) >= m + 1 - k
          <6>1. CASE Cardinality(Behind(spawned, i)) >= Remembered
            BY <2>4, <6>1, Numbers
          <6>2. ASSUME NEW k \in 1 .. m, seen[k] = spawned[i],
                       Cardinality(Behind(spawned, i)) >= m - k
                PROVE  /\ k \in 1 .. m + 1 /\ seen'[k] = spawned[i]
                       /\ Cardinality(Behind(spawned', i)) >= m + 1 - k
            BY <2>2, <2>4, <3>2, <5>1, <6>2
          <6> QED  BY <2>1, <2>2, <5>2, <6>1, <6>2 DEF Remembers, m
        <5>3. seen'[m + 1] = e /\ m + 1 \in 1 .. m + 1
              /\ Cardinality(Behind(spawned', n + 1)) >= m + 1 - (m + 1)
          BY <2>2, <2>5, <5>1
        <5>4. ASSUME NEW i \in 1 .. n + 1, IsEvent(spawned'[i])
              PROVE  \/ Cardinality(Behind(spawned', i)) >= Remembered
                     \/ \E k \in 1 .. m + 1 : seen'[k] = spawned'[i]
                                              /\ Cardinality(Behind(spawned', i)) >= m + 1 - k
          BY <2>1, <2>3, <5>2, <5>3, <5>4
        <5>5. ASSUME NEW i \in 1 .. n + 1, IsEvent(spawned'[i])
              PROVE  \/ Cardinality(Behind(spawned', i)) >= Remembered
                     \/ \E k \in DOMAIN seen' : seen'[k] = spawned'[i]
                                                /\ Cardinality(Behind(spawned', i)) >= Len(seen') - k
          <6>1. Len(seen') = m + 1 /\ DOMAIN seen' = 1 .. m + 1
            BY <5>1
          <6>2. \/ Cardinality(Behind(spawned', i)) >= Remembered
                \/ \E k \in 1 .. m + 1 : seen'[k] = spawned'[i]
                                         /\ Cardinality(Behind(spawned', i)) >= m + 1 - k
            BY <5>4, <5>5
          <6>3. \A k \in 1 .. m + 1 : m + 1 - k = Len(seen') - k
            BY <2>2, <6>1
          <6> QED  BY <6>1, <6>2, <6>3
        <5> QED  BY <2>1, <5>5 DEF Remembers
      <4>3. CASE ~(m + 1 <= Remembered)
        <5>1. /\ seen' = Tail(Append(seen, e)) /\ m = Remembered /\ m > 0
          BY <2>2, <4>1, <4>3, Numbers DEF ForgetsOldest
        <5>2. /\ Len(seen') = m /\ DOMAIN seen' = 1 .. m
              /\ \A k \in 1 .. m : seen'[k] = Append(seen, e)[k + 1]
          <6>1. Append(seen, e) # <<>>
            BY SetAppend DEF Shapes, AppHas
          <6>2. /\ Len(Tail(Append(seen, e))) = m /\ DOMAIN Tail(Append(seen, e)) = 1 .. m
                /\ \A k \in 1 .. m : Tail(Append(seen, e))[k] = Append(seen, e)[k + 1]
            BY <2>2, <6>1, HeadTailProperties
          <6> QED  BY <5>1, <6>2
        <5>3. ASSUME NEW i \in 1 .. n, IsEvent(spawned[i])
              PROVE  \/ Cardinality(Behind(spawned', i)) >= Remembered
                     \/ \E k \in 1 .. m : seen'[k] = spawned[i]
                                          /\ Cardinality(Behind(spawned', i)) >= m - k
          <6>1. CASE Cardinality(Behind(spawned, i)) >= Remembered
            BY <2>4, <6>1, Numbers
          <6>2. ASSUME NEW k \in 1 .. m, seen[k] = spawned[i],
                       Cardinality(Behind(spawned, i)) >= m - k
                PROVE  \/ Cardinality(Behind(spawned', i)) >= Remembered
                       \/ \E l \in 1 .. m : seen'[l] = spawned[i]
                                            /\ Cardinality(Behind(spawned', i)) >= m - l
            <7>1. CASE k = 1
              <8>1. /\ Cardinality(Behind(spawned', i)) = Cardinality(Behind(spawned, i)) + 1
                    /\ Cardinality(Behind(spawned, i)) \in Nat
                BY <2>4, <3>2
              <8>2. Cardinality(Behind(spawned, i)) >= m - 1
                BY <6>2, <7>1
              <8> QED  BY <2>2, <5>1, <8>1, <8>2
            <7>2. ASSUME k # 1
                  PROVE  \E l \in 1 .. m : seen'[l] = spawned[i]
                                           /\ Cardinality(Behind(spawned', i)) >= m - l
              <8>1. k - 1 \in 1 .. m /\ (k - 1) + 1 = k /\ m - (k - 1) = (m - k) + 1
                BY <2>2, <7>2
              <8>2. seen'[k - 1] = spawned[i]
                BY <2>2, <5>2, <6>2, <8>1
              <8>3. Cardinality(Behind(spawned', i)) >= m - (k - 1)
                BY <2>2, <2>4, <3>2, <6>2, <8>1
              <8>4. PICK l : l = k - 1
                OBVIOUS
              <8> QED  BY <8>1, <8>2, <8>3, <8>4
            <7> QED  BY <7>1, <7>2
          <6> QED  BY <2>1, <2>2, <5>3, <6>1, <6>2 DEF Remembers, m
        <5>4. m \in 1 .. m /\ seen'[m] = e /\ Cardinality(Behind(spawned', n + 1)) >= m - m
          BY <2>2, <2>5, <5>1, <5>2
        <5>5. ASSUME NEW i \in 1 .. n + 1, IsEvent(spawned'[i])
              PROVE  \/ Cardinality(Behind(spawned', i)) >= Remembered
                     \/ \E k \in 1 .. m : seen'[k] = spawned'[i]
                                          /\ Cardinality(Behind(spawned', i)) >= m - k
          BY <2>1, <2>3, <5>3, <5>4, <5>5
        <5> QED  BY <2>1, <5>2, <5>5 DEF Remembers
      <4> QED  BY <4>2, <4>3
    <3> QED  BY <3>1, <3>2
  <2>7. HandledOnce'
    <3> SUFFICES ASSUME NEW i \in 1 .. n + 1, NEW j \in 1 .. n + 1,
                        i < j, spawned'[i] = spawned'[j], IsEvent(spawned'[i])
                 PROVE  Cardinality({k \in i + 1 .. j - 1 : KindOf[spawned'[k]] = "event"})
                          >= Remembered
      BY <2>1 DEF HandledOnce, IsEvent
    <3>1. i \in 1 .. n
      BY <2>1
    <3>2. \A k \in i + 1 .. j - 1 : k \in 1 .. n
      BY <2>1
    <3>3. {k \in i + 1 .. j - 1 : KindOf[spawned'[k]] = "event"}
            = {k \in i + 1 .. j - 1 : KindOf[spawned[k]] = "event"}
      BY <2>1, <3>2
    <3>4. CASE j \in 1 .. n
      BY <2>1, <3>1, <3>3, <3>4 DEF HandledOnce, IsEvent
    <3>5. CASE j = n + 1
      <4>1. spawned[i] = e /\ IsEvent(e) /\ e \notin ToSet(seen)
        BY <1>3, <2>1, <3>1, <3>5
      <4>2. ~ \E k \in DOMAIN seen : seen[k] = e
        BY <4>1 DEF ToSet
      <4>3. Cardinality(Behind(spawned, i)) >= Remembered
        BY <2>1, <3>1, <4>1, <4>2 DEF Remembers
      <4>4. Behind(spawned, i) = {k \in i + 1 .. j - 1 : KindOf[spawned[k]] = "event"}
        BY <2>1, <3>5 DEF Behind, IsEvent, n
      <4> QED  BY <3>3, <4>3, <4>4
    <3> QED  BY <2>3, <3>4, <3>5
  <2> QED  BY <2>6, <2>7
<1> QED  BY <1>1, <1>2, <1>3

Once == Hand /\ Remembers /\ HandledOnce

LEMMA NextOnce == ASSUME SocketConstants, Once, [Next]_vars PROVE Once'
<1>1. Hand'
  BY NextHand DEF Once
<1>2. CASE UNCHANGED <<seen, spawned>>
  BY <1>1, <1>2 DEF Once, Remembers, HandledOnce
<1>3. CASE Takes
  BY <1>1, <1>3, TakesRemembers DEF Once, Hand
<1>4. \/ UNCHANGED <<seen, spawned>> \/ Takes
  BY DEF Next, ReaderStep, Happens, TimesOut, SlackReads, Refreshes, Cut, Dials, Greeted, NotGreeted,
         ReadsBacklog, ReadsFrame, Hands, Lost, Answers, Refused, Stops, vars, app
<1> QED  BY <1>2, <1>3, <1>4

(* An event that Slack repeats is handled once, unless as many others as   *)
(* run.rs remembers came in between: for any number of connections, cuts   *)
(* and late acks.                                                          *)
THEOREM HandledOnceEach == ASSUME SocketConstants PROVE Spec => []HandledOnce
<1>1. Init => Once
  <2>1. ASSUME Init PROVE Remembers /\ HandledOnce
    <3>1. spawned = <<>> /\ DOMAIN spawned = {}
      BY <2>1 DEF Init
    <3> QED  BY <3>1 DEF Remembers, HandledOnce
  <2> QED  BY <2>1, InitHand DEF Once
<1>2. Once /\ [Next]_vars => Once'
  BY NextOnce
<1>3. Once => HandledOnce
  BY DEF Once
<1> QED  BY <1>1, <1>2, <1>3, PTL DEF Spec

----------------------------------------------------------------------------
(* What a connection still brings                                          *)

(* A disconnect is the last word of a connection, and comes after a hello. *)
EndsWithIt(s) ==
  \A i \in DOMAIN s : s[i] = Disconnect => \A j \in DOMAIN s : j > i => s[j] \notin Sent
HelloFirst(s) ==
  \A i \in DOMAIN s : s[i] = Disconnect => \E j \in DOMAIN s : j < i /\ s[j] = Hello

(* No envelope is on its way. *)
Drained(c) == ToSet(down[c]) \cap Sent = {}

(* What is put by are envelopes.                                           *)
PutBy == ToSet(reader.early) \subseteq Sent /\ ToSet(reader.backlog) \subseteq Sent

(* Slack asks connections it gave, and sends nothing behind that.          *)
LastWord ==
  /\ refreshing \subseteq 1 .. MaxConns - budget.conns
  /\ \A c \in Conn :
       /\ Disconnect \in ToSet(down[c]) => c \in refreshing
       /\ EndsWithIt(down[c])

(* What the reader closes, or will, was asked of it and was read out.      *)
Replaced ==
  /\ reader.old # NoWs => /\ reader.old \in refreshing
                          /\ reader.old \in conns => Drained(reader.old)
  /\ \A c \in Conn : Goodbye \in ToSet(up[c]) => /\ c \in refreshing
                                                 /\ c \in conns => Drained(c)

(* A connection that has yet to greet will, before it asks to be replaced. *)
Greets ==
  reader.at = "greeting" =>
    /\ reader.dialled \in conns => Hello \in ToSet(down[reader.dialled])
    /\ HelloFirst(down[reader.dialled])
    /\ Goodbye \notin ToSet(up[reader.dialled])

Order == PutBy /\ LastWord /\ Replaced /\ Greets

LEMMA NoLastWord ==
  ASSUME NEW s, Disconnect \notin ToSet(s)
  PROVE  EndsWithIt(s) /\ HelloFirst(s)
  BY DEF ToSet, EndsWithIt, HelloFirst

LEMMA LastWordSaid ==
  ASSUME NEW s \in Seq(ToApp), Disconnect \notin ToSet(s)
  PROVE  /\ EndsWithIt(Append(s, Disconnect))
         /\ Hello \in ToSet(s) => HelloFirst(Append(s, Disconnect))
<1> DEFINE n == Len(s)
           t == Append(s, Disconnect)
<1>1. /\ n \in Nat /\ DOMAIN s = 1 .. n /\ DOMAIN t = 1 .. n + 1 /\ t[n + 1] = Disconnect
      /\ \A i \in 1 .. n : t[i] = s[i]
  OBVIOUS
<1>2. \A i \in DOMAIN s : s[i] # Disconnect
  BY DEF ToSet
<1> HIDE DEF n, t
<1>3. \A i \in 1 .. n + 1 : t[i] = Disconnect => i = n + 1
  <2>1. \A i \in 1 .. n + 1 : i \in 1 .. n \/ i = n + 1
    BY <1>1
  <2> QED  BY <1>1, <1>2, <2>1
<1>4. EndsWithIt(t)
  <2>1. \A j \in 1 .. n + 1 : ~(j > n + 1)
    BY <1>1
  <2> QED  BY <1>1, <1>3, <2>1 DEF EndsWithIt
<1>5. ASSUME Hello \in ToSet(s) PROVE HelloFirst(t)
  <2>1. PICK j \in 1 .. n : s[j] = Hello
    BY <1>1, <1>5 DEF ToSet
  <2>2. j \in 1 .. n + 1 /\ j < n + 1 /\ t[j] = Hello
    BY <1>1, <2>1
  <2> QED  BY <1>1, <1>3, <2>2 DEF HelloFirst
<1> QED  BY <1>4, <1>5 DEF t

LEMMA ReadOut ==
  ASSUME NEW s \in Seq(ToApp), s # <<>>, EndsWithIt(s)
  PROVE  /\ EndsWithIt(Tail(s))
         /\ Head(s) = Disconnect => ToSet(Tail(s)) \cap Sent = {}
         /\ HelloFirst(s) => Head(s) # Disconnect
         /\ HelloFirst(s) /\ Head(s) # Hello => HelloFirst(Tail(s))
<1> DEFINE n == Len(s)
           t == Tail(s)
<1>1. /\ n \in Nat /\ n > 0 /\ DOMAIN s = 1 .. n /\ DOMAIN t = 1 .. n - 1
      /\ \A i \in 1 .. n - 1 : t[i] = s[i + 1] /\ i + 1 \in 1 .. n
      /\ Head(s) = s[1]
  BY EmptySeq, HeadTailProperties
<1> HIDE DEF n, t
<1>2. EndsWithIt(t)
  <2> SUFFICES ASSUME NEW i \in 1 .. n - 1, t[i] = Disconnect, NEW j \in 1 .. n - 1, j > i
               PROVE  t[j] \notin Sent
    BY <1>1 DEF EndsWithIt
  <2>1. s[i + 1] = Disconnect /\ t[j] = s[j + 1] /\ i + 1 \in 1 .. n /\ j + 1 \in 1 .. n
        /\ j + 1 > i + 1
    BY <1>1
  <2> QED  BY <1>1, <2>1 DEF EndsWithIt
<1>3. ASSUME Head(s) = Disconnect PROVE ToSet(t) \cap Sent = {}
  <2> SUFFICES ASSUME NEW i \in 1 .. n - 1 PROVE t[i] \notin Sent
    BY <1>1 DEF ToSet
  <2>1. t[i] = s[i + 1] /\ i + 1 \in 1 .. n /\ i + 1 > 1 /\ 1 \in 1 .. n
    BY <1>1
  <2> QED  BY <1>1, <1>3, <2>1 DEF EndsWithIt
<1>4. ASSUME HelloFirst(s) PROVE Head(s) # Disconnect
  <2>1. 1 \in 1 .. n /\ \A j \in 1 .. n : ~(j < 1)
    BY <1>1
  <2> QED  BY <1>1, <1>4, <2>1 DEF HelloFirst
<1>5. ASSUME HelloFirst(s), Head(s) # Hello PROVE HelloFirst(t)
  <2> SUFFICES ASSUME NEW i \in 1 .. n - 1, t[i] = Disconnect
               PROVE  \E j \in 1 .. n - 1 : j < i /\ t[j] = Hello
    BY <1>1 DEF HelloFirst
  <2>1. s[i + 1] = Disconnect /\ i + 1 \in 1 .. n
    BY <1>1
  <2>2. PICK j \in 1 .. n : j < i + 1 /\ s[j] = Hello
    BY <1>1, <1>5, <2>1 DEF HelloFirst
  <2>3. j # 1
    BY <1>1, <1>5, <2>2
  <2>4. PICK k : k = j - 1
    OBVIOUS
  <2>5. k \in 1 .. n - 1 /\ k + 1 = j /\ k < i
    BY <1>1, <2>2, <2>3, <2>4
  <2>6. t[k] = Hello
    BY <1>1, <2>2, <2>5
  <2> QED  BY <2>5, <2>6
<1> QED  BY <1>2, <1>3, <1>4, <1>5 DEF t

(* `dispatch` in words: what waits, or what a connection is to bring that  *)
(* Slack did not ask to replace.                                           *)
LEMMA DispatchWrites ==
  ASSUME SocketConstants, Shapes, NEW e \in Envelope, NEW attempt, NEW before,
         Dispatch(e, attempt, before)
  PROVE  \/ /\ UNCHANGED down /\ undelivered' = Append(undelivered, <<e, attempt>>)
            /\ pending' = [pending EXCEPT ![e] = None]
            /\ timers' = timers \ {<<e, before>>}
         \/ /\ UNCHANGED undelivered /\ pending' = [pending EXCEPT ![e] = attempt]
            /\ timers' = (timers \ {<<e, before>>}) \cup {<<e, attempt>>}
            /\ \E c \in Conn : /\ c \in conns /\ c \notin refreshing
                               /\ down' = [down EXCEPT ![c] = Append(@, Carries(e))]
<1>1. CASE FreshConns = {}
  BY <1>1 DEF Dispatch
<1>2. CASE FreshConns # {}
  <2>1. Max(FreshConns) \in FreshConns /\ Max(FreshConns) \in Conn
    BY <1>2, Newest
  <2>2. Max(FreshConns) \in conns /\ Max(FreshConns) \notin refreshing
    BY <2>1 DEF FreshConns
  <2> QED  BY <1>2, <2>1, <2>2 DEF Dispatch
<1> QED  BY <1>1, <1>2

(* Frames written where Slack asked for nothing.                           *)
LEMMA WritesOrder ==
  ASSUME SocketConstants, Shapes, Order, NEW c \in Conn, c \notin refreshing, NEW e \in Envelope,
         down' = [down EXCEPT ![c] = Append(@, Carries(e))],
         UNCHANGED <<conns, refreshing, up, reader, budget.conns>>
  PROVE  Order'
<1>1. down[c] \in Seq(ToApp) /\ Carries(e) \in ToApp /\ down \in [Conn -> Seq(ToApp)]
  BY DEF Shapes, Lines, ToApp, Sent
<1>2. ToSet(Append(down[c], Carries(e))) = ToSet(down[c]) \cup {Carries(e)}
  BY <1>1, SetAppend
<1>3. Disconnect \notin ToSet(down[c]) /\ Carries(e) # Disconnect
  BY FrameFacts DEF Order, LastWord
<1>4. /\ down'[c] = Append(down[c], Carries(e)) /\ Disconnect \notin ToSet(down'[c])
      /\ \A d \in Conn \ {c} : down'[d] = down[d]
  BY <1>1, <1>2, <1>3
<1>5. EndsWithIt(down'[c]) /\ HelloFirst(down'[c])
  BY <1>4, NoLastWord
<1>6. LastWord'
  BY <1>4, <1>5 DEF Order, LastWord
<1>7. Replaced'
  BY <1>4 DEF Order, Replaced, Drained
<1>8. Greets'
  <2>1. reader.at = "greeting" => reader.dialled \in Conn
    BY DEF Shapes, Stays
  <2>2. Hello \in ToSet(down[c]) => Hello \in ToSet(down'[c])
    BY <1>2, <1>4
  <2> QED  BY <1>4, <1>5, <2>1, <2>2 DEF Order, Greets
<1> QED  BY <1>6, <1>7, <1>8 DEF Order, PutBy

(* Acks written or read, connections gone: nothing on its way is asked of. *)
LEMMA UpOrder ==
  ASSUME Shapes, Order, UNCHANGED <<down, refreshing, budget.conns>>, conns' \subseteq conns,
         \A c \in Conn : Goodbye \in ToSet(up'[c]) => Goodbye \in ToSet(up[c]),
         PutBy', reader'.old = reader.old \/ reader'.old = NoWs,
         reader'.at # "greeting" \/ (reader.at = "greeting" /\ UNCHANGED reader.dialled)
  PROVE  Order'
<1>1. LastWord'
  BY DEF Order, LastWord
<1>2. Replaced'
  BY DEF Order, Replaced, Drained
<1>3. Greets'
  <2>1. reader.at = "greeting" => reader.dialled \in Conn
    BY DEF Shapes, Stays
  <2> QED  BY <2>1 DEF Order, Greets
<1> QED  BY <1>1, <1>2, <1>3 DEF Order

LEMMA SlackOrder ==
  ASSUME SocketConstants, Shapes, Order,
         \/ \E e \in Envelope : Happens(e) \/ \E a \in 0 .. MaxRetries : TimesOut(e, a)
         \/ \E c \in Conn : SlackReads(c) \/ Refreshes(c) \/ Cut(c)
  PROVE  Order'
<1>1. ASSUME NEW e \in Envelope, NEW a, NEW b, Dispatch(e, a, b),
             UNCHANGED <<conns, refreshing, up, reader, budget.conns>>
      PROVE  Order'
  <2>1. CASE UNCHANGED down
    BY <1>1, <2>1, UpOrder DEF Order, PutBy
  <2> QED  BY <1>1, <2>1, DispatchWrites, WritesOrder
<1>2. ASSUME NEW e \in Envelope, Happens(e) PROVE Order'
  BY <1>1, <1>2 DEF Happens
<1>3. ASSUME NEW e \in Envelope, NEW a \in 0 .. MaxRetries, TimesOut(e, a) PROVE Order'
  <2>1. UNCHANGED <<conns, refreshing, up, reader, budget.conns>>
    BY <1>3 DEF TimesOut, Spends, Shapes, Links, Budget
  <2>2. CASE UNCHANGED down
    BY <2>1, <2>2, UpOrder DEF Order, PutBy
  <2> QED  BY <1>1, <1>3, <2>1, <2>2 DEF TimesOut
<1>4. ASSUME NEW c \in Conn, SlackReads(c) PROVE Order'
  <2>1. up[c] \in Seq(ToSlack) /\ up[c] # <<>> /\ up \in [Conn -> Seq(ToSlack)]
    BY <1>4 DEF SlackReads, Shapes, Lines
  <2>2. ToSet(Tail(up[c])) \subseteq ToSet(up[c])
    BY <2>1, SetTail
  <2>3. \A d \in Conn : Goodbye \in ToSet(up'[d]) => Goodbye \in ToSet(up[d])
    BY <1>4, <2>1, <2>2 DEF SlackReads
  <2>4. conns' \subseteq conns /\ UNCHANGED <<down, refreshing, reader, budget>>
    BY <1>4 DEF SlackReads
  <2> QED  BY <2>3, <2>4, UpOrder DEF Order, PutBy
<1>5. ASSUME NEW c \in Conn, Refreshes(c) PROVE Order'
  <2>1. /\ UNCHANGED <<conns, up, reader, budget.conns>> /\ c \in conns /\ c \notin refreshing
        /\ refreshing' = refreshing \cup {c} /\ down' = [down EXCEPT ![c] = Append(@, Disconnect)]
    BY <1>5 DEF Refreshes, Open, Spends, Shapes, Links, Budget
  <2>2. /\ down[c] \in Seq(ToApp) /\ Disconnect \in ToApp /\ down \in [Conn -> Seq(ToApp)]
        /\ Disconnect \notin ToSet(down[c]) /\ c \in 1 .. MaxConns - budget.conns
    BY <2>1 DEF Shapes, Lines, Links, ToApp, Order, LastWord
  <2>3. /\ down'[c] = Append(down[c], Disconnect) /\ \A d \in Conn \ {c} : down'[d] = down[d]
    BY <2>1, <2>2
  <2>4. /\ EndsWithIt(down'[c]) /\ (Hello \in ToSet(down[c]) => HelloFirst(down'[c]))
        /\ ToSet(down'[c]) = ToSet(down[c]) \cup {Disconnect}
    BY <2>2, <2>3, LastWordSaid, SetAppend
  <2>5. LastWord'
    BY <2>1, <2>2, <2>3, <2>4 DEF Order, LastWord
  <2>6. Replaced'
    BY <2>1, <2>3 DEF Order, Replaced, Drained
  <2>7. Greets'
    <3>1. reader.at = "greeting" => reader.dialled \in Conn
      BY DEF Shapes, Stays
    <3>2. CASE reader.dialled = c
      BY <2>1, <2>4, <3>2 DEF Order, Greets
    <3>3. CASE reader.dialled # c
      BY <2>1, <2>3, <3>1, <3>3 DEF Order, Greets
    <3> QED  BY <3>2, <3>3
  <2> QED  BY <2>1, <2>5, <2>6, <2>7 DEF Order, PutBy
<1>6. ASSUME NEW c \in Conn, Cut(c) PROVE Order'
  <2>1. PICK received \in {<<>>, down[c]} : down' = [down EXCEPT ![c] = received]
    BY <1>6 DEF Cut
  <2>2. /\ UNCHANGED <<refreshing, reader, budget.conns>> /\ conns' = conns \ {c}
        /\ up' = [up EXCEPT ![c] = <<>>] /\ up \in [Conn -> Seq(ToSlack)]
        /\ down \in [Conn -> Seq(ToApp)]
    BY <1>6 DEF Cut, Spends, Shapes, Links, Lines, Budget
  <2>3. \A d \in Conn : ToSet(up'[d]) \subseteq ToSet(up[d])
    BY <2>2, SetEmpty
  <2>4. /\ \A d \in Conn \ {c} : down'[d] = down[d]
        /\ down'[c] = <<>> \/ down'[c] = down[c]
    BY <2>1, <2>2
  <2>5. EndsWithIt(<<>>) /\ HelloFirst(<<>>) /\ Disconnect \notin ToSet(<<>>)
    BY SetEmpty, NoLastWord
  <2>6. LastWord'
    BY <2>2, <2>4, <2>5 DEF Order, LastWord
  <2>7. Replaced'
    <3>1. \A d \in conns' : d \in conns /\ d \in Conn /\ down'[d] = down[d]
      BY <2>2, <2>4, Newest
    <3>2. UNCHANGED <<reader, refreshing>>
      BY <2>2
    <3> QED  BY <2>3, <3>1, <3>2 DEF Order, Replaced, Drained
  <2>8. Greets'
    <3>1. reader.at = "greeting" => reader.dialled \in Conn
      BY DEF Shapes, Stays
    <3> QED  BY <2>2, <2>3, <2>4, <2>5, <3>1 DEF Order, Greets
  <2> QED  BY <2>2, <2>6, <2>7, <2>8 DEF Order, PutBy
<1> QED  BY <1>2, <1>3, <1>4, <1>5, <1>6

(* A connection that is dialled brings a hello, and no disconnect.         *)
LEMMA DialsOrder == ASSUME SocketConstants, Shapes, Order, Dials PROVE Order'
<1>1. PICK c \in Conn :
           /\ c = MaxConns - budget.conns + 1 /\ c \notin conns
           /\ conns' = conns \cup {c} /\ budget'.conns = budget.conns - 1
           /\ \E waiting \in Seq(Sent) :
                \/ down' = [down EXCEPT ![c] = Append(waiting, Hello)]
                \/ down' = [down EXCEPT ![c] = <<Hello>> \o waiting]
           /\ reader' = [reader EXCEPT !.at = "greeting", !.dialled = c]
  BY DialsParts
<1>2. PICK waiting \in Seq(Sent) :
        \/ down' = [down EXCEPT ![c] = Append(waiting, Hello)]
        \/ down' = [down EXCEPT ![c] = <<Hello>> \o waiting]
  BY <1>1
<1>3. UNCHANGED <<refreshing, up>> /\ down \in [Conn -> Seq(ToApp)]
  BY DEF Dials, Shapes, Lines
<1>4. budget.conns \in 0 .. MaxConns /\ c \notin refreshing
  BY <1>1, Numbers DEF Shapes, Links, Budget, Order, LastWord
<1>5. /\ ToSet(down'[c]) \subseteq Sent \cup {Hello} /\ Hello \in ToSet(down'[c])
      /\ \A d \in Conn \ {c} : down'[d] = down[d]
  <2>1. /\ waiting \in Seq(ToApp) /\ <<Hello>> \in Seq(ToApp) /\ Hello \in ToApp
        /\ ToSet(waiting) \subseteq Sent
    BY DEF ToApp, ToSet
  <2>2. PICK first \in Seq(ToApp) : first = <<Hello>>
    BY <2>1
  <2>3. ToSet(Append(waiting, Hello)) = ToSet(waiting) \cup {Hello}
    BY <2>1, SetAppend
  <2>4. ToSet(first \o waiting) = ToSet(first) \cup ToSet(waiting)
    BY <2>1, SetConcat
  <2>5. ToSet(first) = {Hello}
    BY <2>2 DEF ToSet
  <2> QED  BY <1>2, <1>3, <2>1, <2>2, <2>3, <2>4, <2>5
<1>6. Disconnect \notin ToSet(down'[c])
  BY <1>5, FrameFacts DEF Sent
<1>7. EndsWithIt(down'[c]) /\ HelloFirst(down'[c])
  BY <1>6, NoLastWord
<1>8. LastWord'
  <2>1. refreshing' \subseteq 1 .. MaxConns - budget'.conns
    BY <1>1, <1>3, <1>4, Numbers DEF Order, LastWord
  <2> QED  BY <1>3, <1>5, <1>6, <1>7, <2>1 DEF Order, LastWord
<1>9. reader'.at = "greeting" /\ reader'.dialled = c
      /\ UNCHANGED <<reader.old, reader.early, reader.backlog>>
  BY <1>1 DEF Shapes, Reads, Reader
<1>10. Replaced'
  <2>1. \A d \in refreshing : d \in Conn \ {c} /\ (d \in conns' => d \in conns)
    BY <1>1, <1>4 DEF Shapes, Links
  <2> QED  BY <1>3, <1>5, <1>9, <2>1 DEF Order, Replaced, Drained
<1>11. Greets'
  BY <1>3, <1>4, <1>5, <1>7, <1>9 DEF Order, Replaced, Greets
<1> QED  BY <1>8, <1>9, <1>10, <1>11 DEF Order, PutBy

LEMMA GreetedOrder == ASSUME SocketConstants, Shapes, Order, Greeted PROVE Order'
<1> DEFINE c == reader.dialled
<1>1. /\ c \in Conn /\ down[c] \in Seq(ToApp) /\ down[c] # <<>> /\ reader.at = "greeting"
      /\ down' = [down EXCEPT ![c] = Tail(@)] /\ down \in [Conn -> Seq(ToApp)]
      /\ UNCHANGED <<conns, refreshing, budget>>
  BY DEF Greeted, Shapes, Stays, Lines, slack
<1>2. /\ Head(down[c]) \in ToApp /\ ToSet(down[c]) = ToSet(Tail(down[c])) \cup {Head(down[c])}
      /\ Tail(down[c]) \in Seq(ToApp)
  BY <1>1, SetTail
<1>3. /\ EndsWithIt(down[c]) /\ HelloFirst(down[c])
  BY <1>1 DEF Order, LastWord, Greets
<1>4. /\ EndsWithIt(Tail(down[c])) /\ Head(down[c]) # Disconnect
      /\ Head(down[c]) # Hello => HelloFirst(Tail(down[c]))
  BY <1>1, <1>3, ReadOut
<1>5. down'[c] = Tail(down[c]) /\ \A d \in Conn \ {c} : down'[d] = down[d]
  BY <1>1
<1>6. \A d \in Conn : ToSet(down'[d]) \subseteq ToSet(down[d])
  BY <1>2, <1>5
<1>7. LastWord'
  BY <1>1, <1>4, <1>5, <1>6 DEF Order, LastWord
<1>8. \A d \in Conn : Drained(d) => Drained(d)'
  BY <1>6 DEF Drained
<1>9. CASE Head(down[c]) = Hello
  <2>1. /\ reader' = [reader EXCEPT !.at = "reading", !.ws = c, !.dialled = NoWs,
                                    !.old = NoWs, !.early = <<>>, !.backlog = @ \o reader.early]
        /\ up' = Closes(reader.old)
    BY <1>9 DEF Greeted
  <2>2. /\ reader'.at = "reading" /\ reader'.old = NoWs /\ reader'.early = <<>>
        /\ reader'.backlog = reader.backlog \o reader.early
    BY <2>1 DEF Shapes, Reads, Reader
  <2>3. PutBy'
    <3>1. ToSet(reader'.backlog) = ToSet(reader.backlog) \cup ToSet(reader.early)
      BY <2>2, SetConcat, ReaderParts DEF Shapes
    <3> QED  BY <2>2, <3>1, SetEmpty DEF Order, PutBy
  <2>4. Replaced'
    <3>1. CASE UNCHANGED up
      BY <1>1, <1>8, <2>2, <3>1 DEF Order, Replaced
    <3>2. CASE reader.old \in conns /\ up' = [up EXCEPT ![reader.old] = Append(@, Goodbye)]
      <4>1. /\ reader.old \in Conn /\ reader.old # NoWs /\ up \in [Conn -> Seq(ToSlack)]
            /\ conns \subseteq Conn
        BY <3>2, Newest, Numbers DEF Shapes, Lines
      <4>2. \A d \in Conn \ {reader.old} : up'[d] = up[d]
        BY <3>2, <4>1
      <4>3. reader.old \in refreshing /\ Drained(reader.old)
        BY <3>2, <4>1 DEF Order, Replaced
      <4> QED  BY <1>1, <1>8, <2>2, <4>1, <4>2, <4>3 DEF Order, Replaced
    <3> QED  BY <2>1, <3>1, <3>2 DEF Closes, Open
  <2>5. Greets'
    BY <2>2 DEF Greets
  <2> QED  BY <1>7, <2>3, <2>4, <2>5 DEF Order
<1>10. CASE Head(down[c]) # Hello
  <2>1. reader' = [reader EXCEPT !.early = Append(@, Head(down[c]))] /\ UNCHANGED up
    BY <1>10 DEF Greeted, EarlyPutBy
  <2>2. /\ reader'.early = Append(reader.early, Head(down[c]))
        /\ UNCHANGED <<reader.at, reader.old, reader.dialled, reader.backlog>>
    BY <2>1 DEF Shapes, Reads, Reader
  <2>3. PutBy'
    <3>1. Head(down[c]) \in Sent
      BY <1>2, <1>4, <1>10 DEF ToApp
    <3>2. ToSet(reader'.early) = ToSet(reader.early) \cup {Head(down[c])}
      BY <1>2, <2>2, SetAppend, ReaderParts DEF Shapes
    <3> QED  BY <2>2, <3>1, <3>2 DEF Order, PutBy
  <2>4. Replaced'
    <3>1. reader.old \in refreshing => reader.old \in Conn
      BY DEF Shapes, Links
    <3> QED  BY <1>1, <1>8, <2>1, <2>2, <3>1 DEF Order, Replaced
  <2>5. Greets'
    BY <1>1, <1>2, <1>4, <1>5, <1>10, <2>1, <2>2 DEF Order, Greets
  <2> QED  BY <1>7, <2>3, <2>4, <2>5 DEF Order
<1> QED  BY <1>9, <1>10

(* A frame read while the reader reads, from either place.                 *)
LEMMA ReadsOrder ==
  ASSUME SocketConstants, Shapes, Order, ReadsBacklog \/ ReadsFrame PROVE Order'
<1>1. UNCHANGED <<conns, refreshing, budget>> /\ reader.at = "reading"
  BY DEF ReadsBacklog, ReadsFrame, slack
<1>2. ASSUME NEW e \in Envelope, reader.ws \in Conn,
             up' = [up EXCEPT ![reader.ws] = Append(@, Carries(e))]
      PROVE  \A d \in Conn : Goodbye \in ToSet(up'[d]) => Goodbye \in ToSet(up[d])
  <2>1. /\ up[reader.ws] \in Seq(ToSlack) /\ up \in [Conn -> Seq(ToSlack)] /\ Carries(e) \in ToSlack
    BY <1>2 DEF Shapes, Lines, ToSlack, Sent
  <2>2. ToSet(Append(up[reader.ws], Carries(e))) = ToSet(up[reader.ws]) \cup {Carries(e)}
    BY <2>1, SetAppend
  <2> QED  BY <1>2, <2>1, <2>2, FrameFacts
<1>3. CASE ReadsBacklog
  <2> DEFINE r == [reader EXCEPT !.backlog = Tail(@)]
  <2>1. reader.backlog \in Seq(ToApp) /\ reader.backlog # <<>>
    BY <1>3, ReaderParts DEF ReadsBacklog, Shapes
  <2>2. /\ Tail(reader.backlog) \in Seq(ToApp) /\ Head(reader.backlog) \in ToApp
        /\ Head(reader.backlog) \in Sent /\ ToSet(Tail(reader.backlog)) \subseteq Sent
    BY <2>1, SetTail DEF Order, PutBy
  <2>3. /\ r \in Reader /\ Handles(r, Head(reader.backlog)) /\ UNCHANGED down
        /\ r.at = "reading" /\ r.backlog = Tail(reader.backlog) /\ r.early = reader.early
        /\ r.old = reader.old
    BY <1>1, <1>3, <2>1, <2>2 DEF ReadsBacklog, Shapes, Reads, Reader
  <2> HIDE DEF r
  <2>4. Head(reader.backlog) \notin {Hello, Disconnect}
    BY <2>2, FrameFacts DEF Sent
  <2>5. /\ reader'.at = "reading" /\ reader'.backlog = Tail(reader.backlog)
        /\ UNCHANGED <<reader.early, reader.old>>
        /\ \A d \in Conn : Goodbye \in ToSet(up'[d]) => Goodbye \in ToSet(up[d])
    BY <1>2, <2>2, <2>3, <2>4, HandlesParts
  <2>6. PutBy'
    BY <2>2, <2>5 DEF Order, PutBy
  <2> QED  BY <1>1, <2>3, <2>5, <2>6, UpOrder
<1>4. CASE ReadsFrame
  <2> DEFINE c == reader.ws
  <2>1. /\ c \in Conn /\ down[c] \in Seq(ToApp) /\ down[c] # <<>> /\ down \in [Conn -> Seq(ToApp)]
        /\ down' = [down EXCEPT ![c] = Tail(@)] /\ Handles(reader, Head(down[c]))
        /\ reader \in Reader
    BY <1>4, ReaderParts DEF ReadsFrame, Shapes, Lines, Reads
  <2>2. /\ Head(down[c]) \in ToApp /\ ToSet(down[c]) = ToSet(Tail(down[c])) \cup {Head(down[c])}
    BY <2>1, SetTail
  <2>3. EndsWithIt(down[c])
    BY <2>1 DEF Order, LastWord
  <2>4. /\ EndsWithIt(Tail(down[c]))
        /\ Head(down[c]) = Disconnect => ToSet(Tail(down[c])) \cap Sent = {}
    BY <2>1, <2>3, ReadOut
  <2>5. down'[c] = Tail(down[c]) /\ \A d \in Conn \ {c} : down'[d] = down[d]
    BY <2>1
  <2>6. \A d \in Conn : ToSet(down'[d]) \subseteq ToSet(down[d])
    BY <2>2, <2>5
  <2>7. LastWord'
    BY <1>1, <2>4, <2>5, <2>6 DEF Order, LastWord
  <2>8. \A d \in Conn : Drained(d) => Drained(d)'
    BY <2>6 DEF Drained
  <2>9. CASE Head(down[c]) = Disconnect
    <3>1. /\ reader' = [reader EXCEPT !.at = "dialling", !.old = c, !.ws = NoWs] /\ UNCHANGED up
      BY <2>1, <2>9, FrameFacts DEF Handles
    <3>2. /\ reader'.at = "dialling" /\ reader'.old = c
          /\ UNCHANGED <<reader.early, reader.backlog>>
      BY <2>1, <3>1 DEF Reader
    <3>3. c \in refreshing /\ ToSet(down'[c]) \cap Sent = {}
      <4>1. Disconnect \in ToSet(down[c])
        BY <2>2, <2>9
      <4> QED  BY <2>1, <2>4, <2>5, <2>9, <4>1 DEF Order, LastWord
    <3>4. Replaced'
      <4>1. \A d : d = c => d \in refreshing /\ Drained(d)'
        BY <3>3 DEF Drained
      <4> QED  BY <1>1, <2>8, <3>1, <3>2, <4>1 DEF Order, Replaced
    <3> QED  BY <2>7, <3>2, <3>4 DEF Order, PutBy, Greets
  <2>10. CASE Head(down[c]) # Disconnect
    <3>1. /\ reader'.at = "reading" /\ UNCHANGED <<reader.early, reader.backlog, reader.old>>
          /\ \A d \in Conn : Goodbye \in ToSet(up'[d]) => Goodbye \in ToSet(up[d])
      BY <1>1, <1>2, <2>1, <2>2, <2>10, HandlesParts
    <3>2. Replaced'
      <4>1. reader.old \in refreshing => reader.old \in Conn
        BY DEF Shapes, Links
      <4> QED  BY <1>1, <2>8, <3>1, <4>1 DEF Order, Replaced
    <3> QED  BY <2>7, <3>1, <3>2 DEF Order, PutBy, Greets
  <2> QED  BY <2>9, <2>10
<1> QED  BY <1>3, <1>4

LEMMA RestOrder ==
  ASSUME SocketConstants, Shapes, Order,
         NotGreeted \/ Lost \/ Refused \/ Hands \/ Takes \/ Stops \/ Answers \/ UNCHANGED vars
  PROVE  Order'
<1>1. UNCHANGED <<down, conns, refreshing, budget>>
  BY DEF NotGreeted, Lost, Refused, Hands, Takes, Stops, Answers, slack, vars
<1>2. \A d \in Conn : Goodbye \in ToSet(up'[d]) => Goodbye \in ToSet(up[d])
  <2>1. CASE UNCHANGED up
    BY <2>1
  <2>2. CASE Answers
    <3>1. Head(answers) \in Envelope /\ reader.ws \in Conn
      BY <2>2, SetTail, ReaderParts DEF Answers, Shapes, AppHas
    <3>2. /\ up[reader.ws] \in Seq(ToSlack) /\ up \in [Conn -> Seq(ToSlack)]
          /\ Carries(Head(answers)) \in ToSlack
      BY <3>1 DEF Shapes, Lines, ToSlack, Sent
    <3>3. ToSet(Append(up[reader.ws], Carries(Head(answers))))
            = ToSet(up[reader.ws]) \cup {Carries(Head(answers))}
      BY <3>2, SetAppend
    <3> QED  BY <2>1, <2>2, <3>2, <3>3, FrameFacts DEF Answers, Acked
  <2> QED  BY <2>1, <2>2 DEF NotGreeted, Lost, Refused, Hands, Takes, Stops, vars
<1>3. /\ reader'.early = reader.early \/ reader'.early = <<>>
      /\ UNCHANGED <<reader.backlog, reader.old>>
      /\ reader'.at # "greeting" \/ (reader.at = "greeting" /\ UNCHANGED reader.dialled)
  <2>1. reader \in Reader
    BY DEF Shapes, Reads
  <2>2. CASE NotGreeted
    BY <2>1, <2>2 DEF NotGreeted, Reader
  <2>3. CASE Lost
    BY <2>1, <2>3 DEF Lost, Reader
  <2>4. CASE Refused
    BY <2>1, <2>4 DEF Refused, Reader
  <2>5. CASE Hands
    BY <2>1, <2>5 DEF Hands, Reader
  <2>6. CASE Takes
    BY <2>6 DEF Takes
  <2>7. CASE Stops
    BY <2>1, <2>7 DEF Stops, Reader
  <2>8. CASE Answers
    BY <2>1, <2>8 DEF Answers, AfterAck, Reader
  <2> QED  BY <2>2, <2>3, <2>4, <2>5, <2>6, <2>7, <2>8 DEF vars
<1>4. PutBy'
  BY <1>3, SetEmpty DEF Order, PutBy
<1> QED  BY <1>1, <1>2, <1>3, <1>4, UpOrder

LEMMA NextOrder == ASSUME SocketConstants, Shapes, Order, [Next]_vars PROVE Order'
  BY SlackOrder, DialsOrder, GreetedOrder, ReadsOrder, RestOrder DEF Next, ReaderStep

LEMMA InitOrder == ASSUME SocketConstants, Init PROVE Order
<1>1. /\ refreshing = {} /\ \A c \in Conn : ToSet(down[c]) = {} /\ ToSet(up[c]) = {}
      /\ reader.at = "dialling" /\ reader.old = NoWs
      /\ ToSet(reader.early) = {} /\ ToSet(reader.backlog) = {}
  BY SetEmpty DEF Init
<1>2. \A c \in Conn : EndsWithIt(down[c])
  BY <1>1, NoLastWord
<1> QED  BY <1>1, <1>2 DEF Order, PutBy, LastWord, Replaced, Greets

----------------------------------------------------------------------------
(* No event is given up                                                    *)

(* Slack repeats an event as often as connections are cut and acks are     *)
(* late.  The simulator's MAX_RETRIES, like Slack's own, is a bound: with  *)
(* more failures than that an event is given up, as its comment says.      *)
Few == MaxCuts + MaxSlow <= MaxRetries

(* The cuts there were, and the late acks. *)
Losses == (MaxCuts - budget.cuts) + (MaxSlow - budget.slow)

(* An envelope is still to be read, from where it is now.                  *)
Reaches(e) ==
  \/ \E c \in conns : Carries(e) \in ToSet(down[c])
  \/ Carries(e) \in ToSet(reader.early) /\ reader.dialled \in conns
  \/ Carries(e) \in ToSet(reader.backlog)

(* An attempt has a loss of its own behind it, unless it still reaches the *)
(* reader: so there are never more attempts than losses.                   *)
Waits(e) == \E i \in DOMAIN undelivered : undelivered[i][1] = e /\ undelivered[i][2] <= Losses
Tried(e) ==
  /\ <<e, pending[e]>> \in timers /\ pending[e] <= Losses
  /\ Reaches(e) \/ pending[e] < Losses

Attempts ==
  Running => \A e \in Envelope \ unsent : IsEvent(e) => Handed(e) \/ Waits(e) \/ Tried(e)

Spared == Hand /\ Order /\ Attempts

LEMMA LossesFacts ==
  ASSUME SocketConstants, Shapes
  PROVE  /\ Losses \in Nat /\ Losses <= MaxCuts + MaxSlow
         /\ budget.cuts \in 0 .. MaxCuts /\ budget.slow \in 0 .. MaxSlow
         /\ \A e \in Envelope : pending[e] \in 0 .. None
         /\ \A i \in DOMAIN undelivered : undelivered[i][1] \in Envelope
                                          /\ undelivered[i][2] \in 0 .. MaxRetries
<1>1. budget.cuts \in 0 .. MaxCuts /\ budget.slow \in 0 .. MaxSlow
  BY DEF Shapes, Links, Budget
<1>2. Losses \in Nat /\ Losses <= MaxCuts + MaxSlow
  BY <1>1, Numbers DEF Losses
<1>3. \A i \in DOMAIN undelivered : undelivered[i] \in Try
  BY DEF Shapes, Attempted
<1> QED  BY <1>1, <1>2, <1>3 DEF Shapes, Attempted, Try

LEMMA HandedStays ==
  ASSUME SocketConstants, Hand, Next, reader'.at # "closed"
  PROVE  \A e \in Envelope : Handed(e) => Handed(e)'
<1>1. KeepsHanded
  BY SlackHands, ReaderHands, AppHands DEF Hand, Next, ReaderStep
<1> QED  BY <1>1 DEF KeepsHanded

(* The rule for one envelope: what waits waits on, and an attempt that     *)
(* goes on reaches the reader, or lost its way by a further loss.          *)
LEMMA AttemptKept ==
  ASSUME SocketConstants, Shapes, NEW e \in Envelope, Handed(e) \/ Waits(e) \/ Tried(e),
         Handed(e) => Handed(e)', Losses' \in Nat, Losses' >= Losses,
         \A i \in DOMAIN undelivered : i \in DOMAIN undelivered' /\ undelivered'[i] = undelivered[i],
         pending'[e] = pending[e], <<e, pending[e]>> \in timers => <<e, pending[e]>> \in timers',
         Reaches(e) => Reaches(e)' \/ Losses' > Losses
  PROVE  Handed(e)' \/ Waits(e)' \/ Tried(e)'
<1>1. Losses \in Nat /\ pending[e] \in Nat
      /\ \A i \in DOMAIN undelivered : undelivered[i][2] \in Nat
  BY LossesFacts, Numbers
<1>2. CASE Waits(e)
  <2>1. PICK i \in DOMAIN undelivered : undelivered[i][1] = e /\ undelivered[i][2] <= Losses
    BY <1>2 DEF Waits
  <2>2. undelivered[i][2] <= Losses'
    BY <1>1, <2>1
  <2> QED  BY <2>1, <2>2 DEF Waits
<1>3. CASE Tried(e)
  <2>1. pending[e] <= Losses' /\ (pending[e] < Losses => pending[e] < Losses')
        /\ (Losses' > Losses => pending[e] < Losses')
    BY <1>1, <1>3 DEF Tried
  <2> QED  BY <1>3, <2>1 DEF Tried
<1> QED  BY <1>2, <1>3

(* An attempt made now: it waits for a connection or is on its way.        *)
LEMMA AttemptMade ==
  ASSUME SocketConstants, Shapes, NEW e \in Envelope, NEW a \in 0 .. MaxRetries, NEW before,
         Dispatch(e, a, before), a <= Losses', UNCHANGED <<conns, reader>>
  PROVE  Waits(e)' \/ Tried(e)'
<1>1. CASE undelivered' = Append(undelivered, <<e, a>>)
  <2>1. undelivered \in Seq(Try) /\ <<e, a>> \in Try
    BY DEF Shapes, Attempted, Try
  <2>2. /\ Len(undelivered) + 1 \in DOMAIN undelivered'
        /\ undelivered'[Len(undelivered) + 1] = <<e, a>>
    BY <1>1, <2>1
  <2> QED  BY <2>2 DEF Waits
<1>2. ASSUME pending' = [pending EXCEPT ![e] = a],
             timers' = (timers \ {<<e, before>>}) \cup {<<e, a>>},
             NEW c \in Conn, c \in conns, down' = [down EXCEPT ![c] = Append(@, Carries(e))]
      PROVE  Tried(e)'
  <2>1. /\ down[c] \in Seq(ToApp) /\ Carries(e) \in ToApp /\ down \in [Conn -> Seq(ToApp)]
        /\ pending \in [Envelope -> 0 .. None]
    BY DEF Shapes, Lines, Attempted, ToApp, Sent
  <2>2. Carries(e) \in ToSet(down'[c])
    BY <1>2, <2>1, SetAppend
  <2>3. pending'[e] = a /\ <<e, pending'[e]>> \in timers'
    BY <1>2, <2>1
  <2>4. Reaches(e)'
    BY <1>2, <2>2 DEF Reaches
  <2> QED  BY <2>3, <2>4 DEF Tried
<1> QED  BY <1>1, <1>2, DispatchWrites

(* What is sent changes nothing for the others.                            *)
LEMMA OthersWait ==
  ASSUME SocketConstants, Shapes, NEW e \in Envelope, NEW a \in 0 .. MaxRetries, NEW before,
         Dispatch(e, a, before), UNCHANGED <<conns, reader, queue, spawned>>,
         Losses' \in Nat, Losses' >= Losses,
         NEW d \in Envelope, d # e, Handed(d) \/ Waits(d) \/ Tried(d)
  PROVE  Handed(d)' \/ Waits(d)' \/ Tried(d)'
<1>1. /\ pending \in [Envelope -> 0 .. None] /\ undelivered \in Seq(Try) /\ <<e, a>> \in Try
      /\ down \in [Conn -> Seq(ToApp)] /\ conns \subseteq Conn
  BY Newest DEF Shapes, Attempted, Lines, Try
<1>2. pending'[d] = pending[d]
  BY <1>1, DispatchWrites
<1>3. \A n : <<d, n>> \in timers => <<d, n>> \in timers'
  BY DispatchWrites
<1>4. \A i \in DOMAIN undelivered : i \in DOMAIN undelivered' /\ undelivered'[i] = undelivered[i]
  <2>1. CASE UNCHANGED undelivered
    BY <2>1
  <2>2. CASE undelivered' = Append(undelivered, <<e, a>>)
    BY <1>1, <2>2
  <2> QED  BY <2>1, <2>2, DispatchWrites
<1>5. \A c \in conns : ToSet(down[c]) \subseteq ToSet(down'[c])
  <2>1. ASSUME NEW b \in Conn, down' = [down EXCEPT ![b] = Append(@, Carries(e))]
        PROVE  \A c \in conns : ToSet(down[c]) \subseteq ToSet(down'[c])
    <3>1. down[b] \in Seq(ToApp) /\ Carries(e) \in ToApp
      BY <1>1 DEF ToApp, Sent
    <3>2. ToSet(Append(down[b], Carries(e))) = ToSet(down[b]) \cup {Carries(e)}
      BY <3>1, SetAppend
    <3> QED  BY <1>1, <2>1, <3>2
  <2> QED  BY <2>1, DispatchWrites
<1>6. Reaches(d) => Reaches(d)'
  BY <1>5 DEF Reaches
<1>7. Handed(d) => Handed(d)'
  BY DEF Handed
<1> QED  BY <1>2, <1>3, <1>4, <1>6, <1>7, AttemptKept

LEMMA HappensSpared ==
  ASSUME SocketConstants, Spared, NEW e \in Envelope, Happens(e) PROVE Attempts'
<1>1. /\ Dispatch(e, 0, None) /\ UNCHANGED <<conns, reader, queue, spawned, budget>>
      /\ unsent' = unsent \ {e} /\ Running
  BY DEF Happens, app
<1>2. Losses' = Losses /\ Losses \in Nat /\ 0 \in 0 .. MaxRetries /\ Shapes
  BY <1>1, LossesFacts, Numbers DEF Losses, Spared, Hand
<1>3. Waits(e)' \/ Tried(e)'
  BY <1>1, <1>2, AttemptMade
<1>4. ASSUME NEW d \in Envelope \ unsent', IsEvent(d), d # e
      PROVE  Handed(d)' \/ Waits(d)' \/ Tried(d)'
  <2>1. Handed(d) \/ Waits(d) \/ Tried(d)
    BY <1>1, <1>4 DEF Spared, Attempts
  <2> QED  BY <1>1, <1>2, <1>4, <2>1, OthersWait
<1> QED  BY <1>3, <1>4 DEF Attempts

(* An ack that is late while the envelope is under way is a loss; one that *)
(* is late without is of a loss that was counted.  So MAX_RETRIES is not   *)
(* reached.                                                                *)
LEMMA TimesOutSpared ==
  ASSUME SocketConstants, Few, Spared, NEW e \in Envelope, NEW a \in 0 .. MaxRetries, TimesOut(e, a)
  PROVE  Attempts'
<1>1. /\ UNCHANGED <<conns, reader, queue, spawned, unsent>> /\ Running /\ Shapes
  BY DEF TimesOut, app, Spared, Hand
<1>2. /\ Losses \in Nat /\ budget.slow \in 0 .. MaxSlow /\ budget.cuts \in 0 .. MaxCuts
      /\ Losses <= MaxCuts + MaxSlow
  BY <1>1, LossesFacts
<1>3. /\ Losses' \in Nat /\ Losses' >= Losses
      /\ pending[e] = a /\ UnderWay(e) => Losses' = Losses + 1 /\ Losses' <= MaxCuts + MaxSlow
  <2>1. CASE UNCHANGED budget /\ ~(pending[e] = a /\ UnderWay(e))
    BY <1>2, <2>1 DEF Losses
  <2>2. CASE Spends("slow")
    <3>1. /\ budget.slow > 0 /\ budget'.slow = budget.slow - 1 /\ budget'.cuts = budget.cuts
      BY <1>1, <2>2 DEF Spends, Shapes, Links, Budget
    <3> QED  BY <1>2, <3>1, Numbers DEF Losses
  <2> QED  BY <2>1, <2>2 DEF TimesOut
<1>4. ASSUME NEW d \in Envelope \ unsent, IsEvent(d) PROVE Handed(d) \/ Waits(d) \/ Tried(d)
  BY <1>1, <1>4 DEF Spared, Attempts
<1>5. \A d : Handed(d) => Handed(d)'
  BY <1>1 DEF Handed
<1>6. CASE pending[e] = a /\ Again(e, a)
  <2>1. Dispatch(e, a + 1, a) /\ a + 1 \in 0 .. MaxRetries
    BY <1>6, Numbers DEF TimesOut, Again
  <2>2. ASSUME e \notin unsent, IsEvent(e) PROVE Handed(e)' \/ Waits(e)' \/ Tried(e)'
    <3>1. CASE Handed(e)
      BY <1>5, <3>1
    <3>2. ~Waits(e)
      BY <1>1, <1>6, Numbers DEF Waits, Shapes, WaitsOnce
    <3>3. CASE Tried(e)
      <4>1. a + 1 <= Losses'
        <5>1. CASE UnderWay(e)
          BY <1>2, <1>3, <1>6, <3>3, <5>1 DEF Tried
        <5>2. CASE ~UnderWay(e)
          <6>1. ~Reaches(e)
            BY <5>2 DEF Reaches, UnderWay
          <6> QED  BY <1>2, <1>3, <1>6, <3>3, <6>1 DEF Tried
        <5> QED  BY <5>1, <5>2
      <4> QED  BY <1>1, <2>1, <4>1, AttemptMade
    <3> QED  BY <1>4, <2>2, <3>1, <3>2, <3>3
  <2>3. ASSUME NEW d \in Envelope \ unsent, IsEvent(d), d # e
        PROVE  Handed(d)' \/ Waits(d)' \/ Tried(d)'
    BY <1>1, <1>3, <1>4, <2>1, <2>3, OthersWait
  <2> QED  BY <1>1, <2>2, <2>3 DEF Attempts
<1>7. CASE ~(pending[e] = a /\ Again(e, a))
  <2>1. /\ pending' = [pending EXCEPT ![e] = IF @ = a THEN None ELSE @]
        /\ timers' = timers \ {<<e, a>>} /\ UNCHANGED <<down, undelivered>>
    BY <1>7 DEF TimesOut
  <2>2. pending \in [Envelope -> 0 .. None]
    BY <1>1 DEF Shapes, Attempted
  <2>3. ASSUME NEW d \in Envelope \ unsent, IsEvent(d)
        PROVE  Handed(d)' \/ Waits(d)' \/ Tried(d)'
    <3>1. Reaches(d) => Reaches(d)'
      BY <1>1, <2>1 DEF Reaches
    <3>2. CASE d # e \/ pending[e] # a
      <4>1. pending'[d] = pending[d] /\ (<<d, pending[d]>> \in timers => <<d, pending[d]>> \in timers')
        BY <2>1, <2>2, <3>2
      <4> QED  BY <1>1, <1>3, <1>4, <1>5, <2>1, <2>3, <3>1, <4>1, AttemptKept
    <3>3. CASE d = e /\ pending[e] = a
      <4>1. ~(a < MaxRetries)
        BY <1>7, <2>3, <3>3 DEF Again, IsEvent
      <4>2. ~Waits(d)
        BY <1>1, <3>3, Numbers DEF Waits, Shapes, WaitsOnce
      <4>3. ~Tried(d)
        <5>1. SUFFICES ASSUME Tried(d) PROVE FALSE
          OBVIOUS
        <5>2. CASE UnderWay(e)
          BY <1>2, <1>3, <3>3, <4>1, <5>1, <5>2, Numbers DEF Tried, Few
        <5>3. CASE ~UnderWay(e)
          <6>1. ~Reaches(d)
            BY <3>3, <5>3 DEF Reaches, UnderWay
          <6> QED  BY <1>2, <3>3, <4>1, <5>1, <6>1, Numbers DEF Tried, Few
        <5> QED  BY <5>2, <5>3
      <4> QED  BY <1>4, <1>5, <2>3, <4>2, <4>3
    <3> QED  BY <3>2, <3>3
  <2> QED  BY <1>1, <2>3 DEF Attempts
<1> QED  BY <1>6, <1>7

(* A connection that Slack drops as the reader closed it brings nothing    *)
(* more; one that is cut is a loss.                                        *)
LEMMA ConnSpared ==
  ASSUME SocketConstants, Spared, NEW c \in Conn, SlackReads(c) \/ Refreshes(c) \/ Cut(c)
  PROVE  Attempts'
<1>1. UNCHANGED <<reader, queue, spawned, unsent, undelivered, timers>> /\ Running /\ Shapes
  BY DEF SlackReads, Refreshes, Cut, app, Spared, Hand
<1>2. /\ Losses \in Nat /\ budget.slow \in 0 .. MaxSlow /\ budget.cuts \in 0 .. MaxCuts
  BY <1>1, LossesFacts
<1>3. \A e \in Envelope \ unsent : IsEvent(e) => Handed(e) \/ Waits(e) \/ Tried(e)
  BY <1>1 DEF Spared, Attempts
<1>4. \A e : Handed(e) <=> Handed(e)'
  BY <1>1 DEF Handed
<1>5. SUFFICES ASSUME NEW e \in Envelope, Handed(e) \/ Waits(e) \/ Tried(e)
               PROVE  Handed(e)' \/ Waits(e)' \/ Tried(e)'
  BY <1>1, <1>3 DEF Attempts
<1>6. CASE SlackReads(c)
  <2>1. /\ up[c] \in Seq(ToSlack) /\ up[c] # <<>> /\ UNCHANGED <<down, budget>>
        /\ Losses' = Losses /\ Losses' \in Nat /\ Losses' >= Losses
    BY <1>1, <1>2, <1>6 DEF SlackReads, Shapes, Lines, Losses
  <2>2. Head(up[c]) \in ToSlack /\ Head(up[c]) \in ToSet(up[c])
    BY <2>1, SetTail
  <2>3. CASE Head(up[c]) = Goodbye
    <3>1. conns' = conns \ {c} /\ UNCHANGED pending
      BY <1>6, <2>3 DEF SlackReads
    <3>2. c \in conns => Drained(c)
      BY <2>2, <2>3 DEF Spared, Order, Replaced
    <3>3. Carries(e) \in Sent
      BY DEF Sent
    <3>4. reader.at = "greeting" => reader.dialled # c
      BY <2>2, <2>3 DEF Spared, Order, Greets
    <3>5. reader.at # "greeting" => Carries(e) \notin ToSet(reader.early)
      BY <1>1, SetEmpty DEF Shapes, Stays, Reads, Reader, Places, Running
    <3>6. Reaches(e) => Reaches(e)'
      BY <1>1, <2>1, <3>1, <3>2, <3>3, <3>4, <3>5 DEF Reaches, Drained
    <3> QED  BY <1>1, <1>2, <1>4, <1>5, <2>1, <3>1, <3>6, AttemptKept
  <2>4. CASE Head(up[c]) # Goodbye
    <3>1. PICK d \in Envelope : Head(up[c]) = Carries(d) /\ Head(up[c])[2] = d
      BY <2>2, <2>4, FrameFacts DEF ToSlack, Sent
    <3>2. pending' = [pending EXCEPT ![d] = None] /\ UNCHANGED conns
      BY <1>6, <2>4, <3>1 DEF SlackReads
    <3>3. CASE e = d
      <4>1. Upwards(d)
        BY <2>2, <3>1 DEF Upwards
      <4>2. Handed(d)
        BY <1>1, <4>1 DEF Spared, Hand, AcksHanded, Running
      <4> QED  BY <1>4, <3>3, <4>2
    <3>4. CASE e # d
      <4>1. pending'[e] = pending[e]
        BY <1>1, <3>2, <3>4 DEF Shapes, Attempted
      <4>2. Reaches(e) => Reaches(e)'
        BY <1>1, <2>1, <3>2 DEF Reaches
      <4> QED  BY <1>1, <1>2, <1>4, <1>5, <2>1, <4>1, <4>2, AttemptKept
    <3> QED  BY <3>3, <3>4
  <2> QED  BY <2>3, <2>4
<1>7. CASE Refreshes(c)
  <2>1. /\ UNCHANGED <<conns, pending, budget.cuts, budget.slow>>
        /\ down' = [down EXCEPT ![c] = Append(@, Disconnect)]
    BY <1>1, <1>7 DEF Refreshes, Spends, Shapes, Links, Budget
  <2>2. Losses' = Losses /\ Losses' \in Nat /\ Losses' >= Losses
    BY <1>2, <2>1 DEF Losses
  <2>3. /\ down \in [Conn -> Seq(ToApp)] /\ Disconnect \in ToApp
    BY <1>1 DEF Shapes, Lines, ToApp
  <2>4. ToSet(Append(down[c], Disconnect)) = ToSet(down[c]) \cup {Disconnect}
    BY <2>3, SetAppend
  <2>5. \A d \in Conn : ToSet(down[d]) \subseteq ToSet(down'[d])
    BY <2>1, <2>3, <2>4
  <2>6. Reaches(e) => Reaches(e)'
    BY <1>1, <2>1, <2>5, Newest DEF Reaches
  <2> QED  BY <1>1, <1>2, <1>4, <1>5, <2>1, <2>2, <2>6, AttemptKept
<1>8. CASE Cut(c)
  <2>1. /\ UNCHANGED pending /\ budget.cuts > 0 /\ budget'.cuts = budget.cuts - 1
        /\ budget'.slow = budget.slow
    BY <1>1, <1>8 DEF Cut, Spends, Shapes, Links, Budget
  <2>2. Losses' = Losses + 1
    BY <1>2, <2>1, Numbers DEF Losses
  <2>3. Losses' \in Nat /\ Losses' > Losses /\ Losses' >= Losses
    BY <1>2, <2>2
  <2> QED  BY <1>1, <1>4, <1>5, <2>1, <2>3, AttemptKept
<1> QED  BY <1>6, <1>7, <1>8

(* What waited for a connection is on its way on the new one.              *)
LEMMA DialsSpared == ASSUME SocketConstants, Spared, Dials PROVE Attempts'
<1>1. Shapes /\ Running /\ UNCHANGED <<queue, spawned, unsent>>
  BY DEF Dials, Running, app, Spared, Hand
<1>2. PICK c \in Conn, waiting \in Seq(Sent) :
           /\ c \notin conns /\ conns' = conns \cup {c}
           /\ budget' = [budget EXCEPT !.conns = @ - 1]
           /\ waiting = [i \in DOMAIN undelivered |-> Carries(undelivered[i][1])]
           /\ \/ down' = [down EXCEPT ![c] = Append(waiting, Hello)]
              \/ down' = [down EXCEPT ![c] = <<Hello>> \o waiting]
           /\ reader' = [reader EXCEPT !.at = "greeting", !.dialled = c]
           /\ reader.early = <<>>
  BY <1>1, DialsParts
<1>3. /\ Losses' = Losses /\ Losses \in Nat
  <2>1. budget'.cuts = budget.cuts /\ budget'.slow = budget.slow
    BY <1>1, <1>2 DEF Shapes, Links, Budget
  <2> QED  BY <1>1, <2>1, LossesFacts DEF Losses
<1>4. /\ UNCHANGED <<reader.handing, reader.backlog, reader.early>>
  BY <1>1, <1>2 DEF Shapes, Reads, Reader
<1>5. \A e : Handed(e) => Handed(e)'
  BY <1>1, <1>4 DEF Handed
<1>6. /\ timers' = timers \cup ToSet(undelivered)
  BY DEF Dials
<1>7. ToSet(waiting) \subseteq ToSet(down'[c]) /\ \A d \in Conn \ {c} : down'[d] = down[d]
  <2>1. waiting \in Seq(ToApp) /\ Hello \in ToApp /\ <<Hello>> \in Seq(ToApp)
        /\ down \in [Conn -> Seq(ToApp)]
    BY <1>1 DEF ToApp, Shapes, Lines
  <2>2. PICK first \in Seq(ToApp) : first = <<Hello>>
    BY <2>1
  <2>3. ToSet(waiting) \subseteq ToSet(Append(waiting, Hello))
    BY <2>1, SetAppend
  <2>4. ToSet(waiting) \subseteq ToSet(first \o waiting)
    BY <2>1, SetConcat
  <2> QED  BY <1>2, <2>1, <2>2, <2>3, <2>4
<1>8. ASSUME NEW e \in Envelope \ unsent', IsEvent(e)
      PROVE  Handed(e)' \/ Waits(e)' \/ Tried(e)'
  <2>1. Handed(e) \/ Waits(e) \/ Tried(e)
    BY <1>1, <1>8 DEF Spared, Attempts
  <2>2. CASE Handed(e)
    BY <1>5, <2>2
  <2>3. CASE Waits(e)
    <3>1. PICK i \in DOMAIN undelivered : undelivered[i][1] = e /\ undelivered[i][2] <= Losses
      BY <2>3 DEF Waits
    <3>2. pending'[e] = undelivered[i][2]
      BY <1>1, <3>1, DialsPending
    <3>3. undelivered[i] = <<e, pending'[e]>>
      BY <1>1, <3>1, <3>2 DEF Shapes, Attempted, Try
    <3>4. <<e, pending'[e]>> \in timers'
      BY <1>6, <3>3 DEF ToSet
    <3>5. Carries(e) \in ToSet(waiting)
      BY <1>2, <3>1 DEF ToSet
    <3>6. Reaches(e)'
      BY <1>2, <1>7, <3>5 DEF Reaches
    <3> QED  BY <1>3, <3>1, <3>2, <3>4, <3>6 DEF Tried
  <2>4. CASE Tried(e) /\ ~Waits(e)
    <3>1. ~ \E i \in DOMAIN undelivered : undelivered[i][1] = e
      <4>1. pending[e] # None
        BY <1>1, <2>4, Numbers DEF Tried, Shapes, Attempted, Try
      <4> QED  BY <1>1, <4>1 DEF Shapes, WaitsOnce
    <3>2. pending'[e] = pending[e]
      BY <1>1, <3>1, DialsPending
    <3>3. Reaches(e) => Reaches(e)'
      BY <1>1, <1>2, <1>4, <1>7, Newest, SetEmpty DEF Reaches
    <3> QED  BY <1>3, <1>6, <2>4, <3>2, <3>3 DEF Tried
  <2> QED  BY <2>1, <2>2, <2>3, <2>4
<1> QED  BY <1>8 DEF Attempts

(* A step of the reader: what it takes from a connection it puts by, or    *)
(* hands over, and what it puts by it reads or hands over.                 *)
LEMMA ReaderSpared ==
  ASSUME SocketConstants, Spared, reader.at \notin {"refused", "closed"},
         UNCHANGED <<slack, budget, queue, spawned>>,
         \A e \in Envelope : Handed(e) => Handed(e)',
         \A e \in Envelope : Reaches(e) => Reaches(e)' \/ Handed(e)'
  PROVE  Attempts'
<1>1. Shapes /\ Losses' \in Nat /\ Losses' >= Losses
  <2>1. Shapes /\ Losses' = Losses
    BY DEF Spared, Hand, Losses
  <2> QED  BY <2>1, LossesFacts
<1>2. ASSUME NEW e \in Envelope \ unsent', IsEvent(e)
      PROVE  Handed(e)' \/ Waits(e)' \/ Tried(e)'
  <2>1. Handed(e) \/ Waits(e) \/ Tried(e)
    BY <1>2 DEF Spared, Attempts, Running, slack
  <2>2. UNCHANGED <<undelivered, timers, pending>>
    BY DEF slack
  <2>3. CASE Handed(e)'
    BY <2>3
  <2>4. CASE ~Handed(e)'
    <3>1. Reaches(e) => Reaches(e)'
      BY <2>4
    <3> QED  BY <1>1, <2>1, <2>2, <2>4, <3>1, AttemptKept
  <2> QED  BY <2>3, <2>4
<1> QED  BY <1>2 DEF Attempts

LEMMA GreetsSpared ==
  ASSUME SocketConstants, Spared, Greeted \/ NotGreeted
  PROVE  Attempts'
<1>1. Shapes /\ UNCHANGED <<slack, queue, spawned, budget>> /\ reader.at = "greeting"
      /\ reader \in Reader
  BY DEF Greeted, NotGreeted, app, Spared, Hand, Shapes, Reads
<1>2. UNCHANGED conns /\ conns \subseteq Conn
  BY <1>1, Newest DEF slack
<1> DEFINE c == reader.dialled
<1>3. \A e \in Envelope : Handed(e) => Handed(e)'
  <2>1. reader'.handing = reader.handing
    BY <1>1 DEF Greeted, NotGreeted, Reader
  <2> QED  BY <1>1, <2>1 DEF Handed
<1>4. SUFFICES ASSUME NEW e \in Envelope, Reaches(e) PROVE Reaches(e)'
  BY <1>1, <1>3, ReaderSpared
<1>5. CASE NotGreeted
  <2>1. /\ reader' = [reader EXCEPT !.at = "dialling", !.dialled = NoWs, !.early = <<>>]
        /\ UNCHANGED down /\ c \notin conns
    BY <1>5 DEF NotGreeted, Open
  <2>2. reader'.backlog = reader.backlog
    BY <1>1, <2>1 DEF Reader
  <2> QED  BY <1>2, <1>4, <2>1, <2>2 DEF Reaches
<1>6. CASE Greeted
  <2>1. /\ c \in Conn /\ down[c] \in Seq(ToApp) /\ down[c] # <<>>
        /\ down' = [down EXCEPT ![c] = Tail(@)] /\ down \in [Conn -> Seq(ToApp)]
    BY <1>1, <1>6 DEF Greeted, Shapes, Stays, Lines
  <2>2. /\ Head(down[c]) \in ToApp /\ ToSet(down[c]) = ToSet(Tail(down[c])) \cup {Head(down[c])}
    BY <2>1, SetTail
  <2>3. down'[c] = Tail(down[c]) /\ \A d \in Conn \ {c} : down'[d] = down[d]
    BY <2>1
  <2>4. CASE Head(down[c]) = Hello
    <3>1. reader' = [reader EXCEPT !.at = "reading", !.ws = c, !.dialled = NoWs,
                                   !.old = NoWs, !.early = <<>>, !.backlog = @ \o reader.early]
      BY <1>6, <2>4 DEF Greeted
    <3>2. reader'.backlog = reader.backlog \o reader.early
      BY <1>1, <3>1 DEF Reader
    <3>3. ToSet(reader'.backlog) = ToSet(reader.backlog) \cup ToSet(reader.early)
      BY <1>1, <3>2, SetConcat DEF Reader
    <3>4. Carries(e) # Hello
      BY FrameFacts
    <3>5. ASSUME NEW d \in conns, Carries(e) \in ToSet(down[d]) PROVE Carries(e) \in ToSet(down'[d])
      BY <1>2, <2>2, <2>3, <2>4, <3>4, <3>5
    <3> QED  BY <1>2, <1>4, <3>3, <3>5 DEF Reaches
  <2>5. CASE Head(down[c]) # Hello
    <3>1. reader' = [reader EXCEPT !.early = Append(@, Head(down[c]))]
      BY <1>6, <2>5 DEF Greeted
    <3>2. /\ reader'.early = Append(reader.early, Head(down[c]))
          /\ UNCHANGED <<reader.dialled, reader.backlog>>
      BY <1>1, <3>1 DEF Reader
    <3>3. ToSet(reader'.early) = ToSet(reader.early) \cup {Head(down[c])}
      BY <1>1, <2>2, <3>2, SetAppend DEF Reader
    <3>4. ASSUME NEW d \in conns, Carries(e) \in ToSet(down[d])
          PROVE  \/ Carries(e) \in ToSet(down'[d])
                 \/ c \in conns /\ Carries(e) \in ToSet(reader'.early)
      BY <1>2, <2>2, <2>3, <3>3, <3>4
    <3> QED  BY <1>2, <1>4, <3>2, <3>3, <3>4 DEF Reaches
  <2> QED  BY <2>4, <2>5
<1> QED  BY <1>5, <1>6

LEMMA ReadsSpared ==
  ASSUME SocketConstants, Spared, ReadsBacklog \/ ReadsFrame
  PROVE  Attempts'
<1>1. /\ Shapes /\ UNCHANGED <<slack, queue, spawned, budget>> /\ reader.at = "reading"
      /\ reader \in Reader /\ reader.early = <<>>
  BY DEF ReadsBacklog, ReadsFrame, app, Spared, Hand, Shapes, Reads, Stays
<1>2. UNCHANGED conns /\ conns \subseteq Conn
  BY <1>1, Newest DEF slack
<1>3. \A e \in Envelope : Handed(e) => Handed(e)'
  <2>1. ToSet(reader.handing) = {}
    BY SetEmpty DEF ReadsBacklog, ReadsFrame
  <2> QED  BY <1>1, <2>1 DEF Handed
<1>4. SUFFICES ASSUME NEW e \in Envelope, Reaches(e) PROVE Reaches(e)' \/ Handed(e)'
  BY <1>1, <1>3, ReaderSpared
<1>5. ASSUME NEW d \in Envelope, reader'.handing = <<d>> PROVE Handed(d)'
  <2>1. d \in ToSet(reader'.handing)
    BY <1>5 DEF ToSet
  <2> QED  BY <2>1 DEF Handed
<1>6. Carries(e) \notin ToSet(reader.early)
  BY <1>1, SetEmpty
<1>7. CASE ReadsBacklog
  <2> DEFINE r == [reader EXCEPT !.backlog = Tail(@)]
  <2>1. reader.backlog \in Seq(ToApp) /\ reader.backlog # <<>> /\ UNCHANGED down
    BY <1>1, <1>7, ReaderParts DEF ReadsBacklog, Shapes
  <2>2. /\ Tail(reader.backlog) \in Seq(ToApp) /\ Head(reader.backlog) \in ToApp
        /\ Head(reader.backlog) \in ToSet(reader.backlog)
        /\ ToSet(reader.backlog) = ToSet(Tail(reader.backlog)) \cup {Head(reader.backlog)}
    BY <2>1, SetTail
  <2>3. /\ r \in Reader /\ Handles(r, Head(reader.backlog)) /\ r.backlog = Tail(reader.backlog)
    BY <1>1, <1>7, <2>1, <2>2 DEF ReadsBacklog, Reader
  <2> HIDE DEF r
  <2>4. Head(reader.backlog) \notin {Hello, Disconnect}
    <3>1. Head(reader.backlog) \in Sent
      BY <2>2 DEF Spared, Order, PutBy
    <3> QED  BY <3>1, FrameFacts DEF Sent
  <2>5. PICK d \in Envelope : /\ Head(reader.backlog) = Carries(d) /\ reader'.handing = <<d>>
                              /\ reader'.backlog = Tail(reader.backlog)
    BY <1>1, <2>2, <2>3, <2>4, HandlesParts
  <2>6. CASE e = d
    BY <1>5, <2>5, <2>6
  <2>7. CASE e # d
    <3>1. Carries(e) # Carries(d)
      BY <2>7, FrameFacts
    <3> QED  BY <1>2, <1>4, <1>6, <2>1, <2>2, <2>5, <3>1 DEF Reaches
  <2> QED  BY <2>6, <2>7
<1>8. CASE ReadsFrame
  <2> DEFINE c == reader.ws
  <2>1. /\ c \in Conn /\ down[c] \in Seq(ToApp) /\ down[c] # <<>> /\ down \in [Conn -> Seq(ToApp)]
        /\ down' = [down EXCEPT ![c] = Tail(@)] /\ Handles(reader, Head(down[c]))
        /\ reader.backlog = <<>>
    BY <1>1, <1>8, ReaderParts DEF ReadsFrame, Shapes, Lines
  <2>2. /\ Head(down[c]) \in ToApp /\ ToSet(down[c]) = ToSet(Tail(down[c])) \cup {Head(down[c])}
    BY <2>1, SetTail
  <2>3. down'[c] = Tail(down[c]) /\ \A d \in Conn \ {c} : down'[d] = down[d]
    BY <2>1
  <2>4. PICK b \in conns : Carries(e) \in ToSet(down[b])
    BY <1>4, <1>6, <2>1, SetEmpty DEF Reaches
  <2>5. CASE Carries(e) = Head(down[c])
    <3>1. Head(down[c]) \notin {Hello, Disconnect}
      BY <2>5, FrameFacts
    <3>2. PICK d \in Envelope : Head(down[c]) = Carries(d) /\ reader'.handing = <<d>>
      BY <1>1, <2>1, <2>2, <3>1, HandlesParts
    <3>3. reader'.handing = <<e>>
      BY <2>5, <3>2, FrameFacts
    <3> QED  BY <1>5, <3>3
  <2>6. CASE Carries(e) # Head(down[c])
    <3>1. Carries(e) \in ToSet(down'[b])
      BY <1>2, <2>2, <2>3, <2>4, <2>6
    <3> QED  BY <1>2, <3>1 DEF Reaches
  <2> QED  BY <2>5, <2>6
<1> QED  BY <1>7, <1>8

LEMMA RestSpared ==
  ASSUME SocketConstants, Spared, Hands \/ Takes \/ Answers \/ Lost \/ Refused \/ Stops,
         \A e \in Envelope : reader'.at # "closed" => (Handed(e) => Handed(e)')
  PROVE  Attempts'
<1>1. Shapes /\ UNCHANGED <<slack, down, budget>> /\ reader \in Reader /\ Running
  BY DEF Hands, Takes, Answers, Lost, Refused, Stops, Running, Spared, Hand, Shapes, Reads
<1>2. CASE Refused \/ Stops
  <2>1. reader'.at \in {"refused", "closed"}
    BY <1>1, <1>2 DEF Refused, Stops, Reader
  <2> QED  BY <2>1 DEF Attempts, Running
<1>3. CASE Hands \/ Takes \/ Answers \/ Lost
  <2>1. /\ reader'.at # "closed" /\ UNCHANGED <<reader.backlog, reader.early, reader.dialled>>
    <3>1. CASE Hands
      BY <1>1, <3>1 DEF Hands, Reader
    <3>2. CASE Takes
      BY <1>1, <3>2 DEF Takes, Running
    <3>3. CASE Answers
      BY <1>1, <3>3 DEF Answers, AfterAck, Reader
    <3>4. CASE Lost
      BY <1>1, <3>4 DEF Lost, Reader
    <3> QED  BY <1>3, <3>1, <3>2, <3>3, <3>4
  <2>2. UNCHANGED <<conns, pending, undelivered, timers, unsent>>
    BY <1>1 DEF slack
  <2>3. Losses' \in Nat /\ Losses' >= Losses
    <3>1. Losses' = Losses
      BY <1>1 DEF Losses
    <3> QED  BY <1>1, <3>1, LossesFacts
  <2>4. ASSUME NEW e \in Envelope \ unsent', IsEvent(e)
        PROVE  Handed(e)' \/ Waits(e)' \/ Tried(e)'
    <3>1. Handed(e) \/ Waits(e) \/ Tried(e)
      BY <1>1, <2>2, <2>4 DEF Spared, Attempts
    <3>2. Reaches(e) => Reaches(e)'
      BY <1>1, <2>1, <2>2 DEF Reaches
    <3> QED  BY <1>1, <2>1, <2>2, <2>3, <2>4, <3>1, <3>2, AttemptKept
  <2> QED  BY <2>4 DEF Attempts
<1> QED  BY <1>2, <1>3

LEMMA NextSpared == ASSUME SocketConstants, Few, Spared, [Next]_vars PROVE Spared'
<1>1. Hand' /\ Order'
  BY NextHand, NextOrder DEF Spared, Hand
<1>2. CASE UNCHANGED vars
  <2>1. Attempts'
    BY <1>2 DEF vars, app, Spared, Attempts, Running, Handed, Waits, Tried, Reaches, Losses
  <2> QED  BY <1>1, <2>1 DEF Spared
<1>3. CASE Next
  <2>1. \A e \in Envelope : reader'.at # "closed" => (Handed(e) => Handed(e)')
    BY <1>3, HandedStays DEF Spared
  <2>2. ASSUME NEW e \in Envelope, Happens(e) \/ \E a \in 0 .. MaxRetries : TimesOut(e, a)
        PROVE  Attempts'
    BY <2>2, HappensSpared, TimesOutSpared
  <2>3. ASSUME NEW c \in Conn, SlackReads(c) \/ Refreshes(c) \/ Cut(c) PROVE Attempts'
    BY <2>3, ConnSpared
  <2>4. ASSUME Hands \/ Takes \/ Answers \/ Lost \/ Refused \/ Stops PROVE Attempts'
    BY <2>1, <2>4, RestSpared
  <2>5. Attempts'
    BY <1>3, <2>2, <2>3, <2>4, DialsSpared, GreetsSpared, ReadsSpared DEF Next, ReaderStep
  <2> QED  BY <1>1, <2>5 DEF Spared
<1> QED  BY <1>2, <1>3

LEMMA SparedIsNotGivenUp == ASSUME SocketConstants, Spared PROVE NotGivenUp
  BY DEF Spared, Attempts, IsEvent, Handed, Waits, Tried, NotGivenUp

(* With no more cuts and late acks than Slack repeats an event, no event   *)
(* is given up while the gateway goes on, whatever connections were        *)
(* replaced: of socket.rs, that reads a connection out before it closes    *)
(* it, reads what came before the hello, and never acks what it drops.     *)
THEOREM NoneGivenUp == ASSUME SocketConstants, Few PROVE Spec => []NotGivenUp
<1>1. Init => Spared
  <2>1. ASSUME Init PROVE Attempts
    BY <2>1 DEF Init, Attempts
  <2> QED  BY <2>1, InitHand, InitOrder DEF Spared
<1>2. Spared /\ [Next]_vars => Spared'
  BY NextSpared
<1>3. Spared => NotGivenUp
  BY SparedIsNotGivenUp
<1> QED  BY <1>1, <1>2, <1>3, PTL DEF Spec

----------------------------------------------------------------------------
(* The requests that start runs *)

(* What the constants are. *)
WorkConstants == Work!RequestAssumption /\ Work!NoneAssumption

----------------------------------------------------------------------------
(* The inductive invariant *)

(* The keys that met nothing by which they name no run, or two.            *)
Sure == Key \ (crossed \cup lapsed \cup forgotten)

(* Who started a run was accepted. *)
RunsAccepted == \A q \in runs : request[q] = "accepted"

(* What a key names is a run that was started with it. *)
NamesRuns ==
  \A k \in Key : started[k] # NoRun => started[k] \in runs /\ KeyOf[started[k]] = k

(* A run's key names it. *)
Named == \A q \in runs : KeyOf[q] \in Sure => started[KeyOf[q]] = q

(* Requests that are handled at once and share a key were noticed. *)
Noticed ==
  \A p, q \in Request :
    request[p] \in Work!Open /\ request[q] \in Work!Open /\ KeyOf[p] = KeyOf[q] /\ KeyOf[p] # NoRun
      => p = q \/ KeyOf[p] \in crossed

(* While a request is handled, its key names nothing. *)
NothingYet ==
  \A p \in Request : request[p] \in Work!Open /\ KeyOf[p] \in Sure => started[KeyOf[p]] = NoRun

WInv ==
  /\ Work!TypeOK /\ Work!AnswerRan /\ Work!OneRunPerKey
  /\ RunsAccepted /\ NamesRuns /\ Named /\ Noticed /\ NothingYet

----------------------------------------------------------------------------
(* Steps *)

(* The stages differ. *)
LEMMA StageFacts ==
  /\ Work!Open \subseteq Work!Stages /\ "accepted" \notin Work!Open /\ "new" \notin Work!Open
  /\ "refused" \notin Work!Open /\ "gone" \notin Work!Open
  /\ {"accepted", "refused", "gone", "new", "checking", "posting"} = Work!Stages
  BY DEF Work!Open, Work!Stages

(* A request that moves between the stages in which it is handled, or is   *)
(* given up, disturbs nothing.                                             *)
LEMMA HandledInv ==
  ASSUME WorkConstants, WInv, NEW q \in Request, NEW stage \in Work!Stages \ {"accepted"},
         request[q] \in Work!Open, Work!Moves(q, stage),
         UNCHANGED <<answer, started, runs, arriving, turns, barged, Work!doubts>>
  PROVE  WInv'
<1> USE DEF WInv
<1>1. /\ request' \in [Request -> Work!Stages] /\ request'[q] = stage
      /\ \A p \in Request \ {q} : request'[p] = request[p]
  BY DEF Work!Moves, Work!TypeOK
<1>2. request[q] # "accepted"
  BY StageFacts
<1>3. /\ \A p \in Request : request'[p] \in Work!Open => request[p] \in Work!Open
      /\ \A p \in Request : request'[p] = "accepted" <=> request[p] = "accepted"
  BY <1>1, <1>2
<1>4. UNCHANGED <<crossed, lapsed, forgotten>> /\ Sure' = Sure
  BY DEF Work!doubts, Sure
<1>5. Work!TypeOK'
  BY <1>1, <1>3, <1>4 DEF Work!TypeOK
<1>6. Work!AnswerRan' /\ Work!OneRunPerKey' /\ NamesRuns' /\ Named'
  BY <1>3, <1>4 DEF Work!AnswerRan, Work!OneRunPerKey, NamesRuns, Named
<1>7. RunsAccepted'
  BY <1>3 DEF RunsAccepted, Work!TypeOK
<1>8. Noticed' /\ NothingYet'
  BY <1>3, <1>4 DEF Noticed, NothingYet
<1> QED  BY <1>5, <1>6, <1>7, <1>8

LEMMA CheckedInv ==
  ASSUME WorkConstants, WInv, NEW q \in Request,
         Work!Checked(q) \/ Work!Refuse(q) \/ Work!ClientGoes(q)
  PROVE  WInv'
  BY HandledInv, StageFacts DEF Work!Checked, Work!Refuse, Work!ClientGoes, Work!At, Work!Open,
     Work!RememberedWhenChecked

LEMMA ReceiveInv ==
  ASSUME WorkConstants, WInv, NEW q \in Request, Work!Receive(q)
  PROVE  WInv'
<1> USE DEF WInv
<1>1. /\ request[q] = "new"
      /\ UNCHANGED <<started, runs, arriving, turns, barged, lapsed, forgotten>>
      /\ crossed \subseteq crossed'
      /\ KeyOf[q] # NoRun /\ Work!Overlaps(q) => KeyOf[q] \in crossed'
      /\ crossed' \subseteq crossed \cup ({KeyOf[q]} \ {NoRun})
  BY DEF Work!Receive, Work!At
<1>2. PICK stage \in {"accepted", "checking", "refused"} :
        /\ Work!Moves(q, stage)
        /\ stage = "accepted" => Work!Known(q)
        /\ stage = "checking" => ~Work!Known(q)
  BY DEF Work!Receive
<1>3. /\ request' \in [Request -> Work!Stages] /\ request'[q] = stage
      /\ \A p \in Request \ {q} : request'[p] = request[p]
  BY <1>2, StageFacts DEF Work!Moves, Work!TypeOK
<1>4. /\ stage = "accepted" => answer' = [answer EXCEPT ![q] = Work!Remembered(q)]
      /\ stage # "accepted" => answer' = answer
  BY <1>3 DEF Work!Receive
<1>5. stage = "accepted" =>
        /\ Work!Remembered(q) # NoRun /\ KeyOf[q] # NoRun /\ KeyOf[q] \in Key
        /\ Work!Remembered(q) = started[KeyOf[q]]
        /\ Work!Remembered(q) \in runs /\ KeyOf[Work!Remembered(q)] = KeyOf[q]
  BY <1>2 DEF Work!Known, Work!Remembered, NamesRuns, WorkConstants, Work!RequestAssumption
<1>6. Sure' \subseteq Sure
  BY <1>1 DEF Sure
<1>7. Work!TypeOK'
  <2>1. answer' \in [Request -> Request \cup {NoRun}]
    BY <1>4, <1>5 DEF Work!TypeOK
  <2>2. \A p \in Request : answer'[p] # NoRun <=> request'[p] = "accepted"
    BY <1>1, <1>2, <1>3, <1>4, <1>5 DEF Work!TypeOK
  <2>3. crossed' \subseteq Key
    BY <1>1 DEF Work!TypeOK, WorkConstants, Work!RequestAssumption
  <2> QED  BY <1>1, <1>3, <2>1, <2>2, <2>3 DEF Work!TypeOK
<1>8. Work!AnswerRan'
  <2> SUFFICES ASSUME NEW p \in Request, request'[p] = "accepted"
               PROVE  /\ answer'[p] \in runs
                      /\ answer'[p] = p \/ (KeyOf[p] # NoRun /\ KeyOf[answer'[p]] = KeyOf[p])
    BY <1>1 DEF Work!AnswerRan
  <2>1. CASE p = q
    BY <2>1, <1>3, <1>4, <1>5 DEF Work!TypeOK
  <2>2. CASE p # q
    BY <2>2, <1>3, <1>4 DEF Work!AnswerRan, Work!TypeOK
  <2> QED  BY <2>1, <2>2
<1>9. Work!OneRunPerKey'
  BY <1>1 DEF Work!OneRunPerKey
<1>10. RunsAccepted'
  BY <1>1, <1>3 DEF RunsAccepted, Work!TypeOK
<1>11. NamesRuns' /\ Named'
  BY <1>1, <1>6 DEF NamesRuns, Named
<1>12. Noticed'
  <2> SUFFICES ASSUME NEW p \in Request, NEW r \in Request,
                      request'[p] \in Work!Open, request'[r] \in Work!Open,
                      KeyOf[p] = KeyOf[r], KeyOf[p] # NoRun, p # r
               PROVE  KeyOf[p] \in crossed'
    BY DEF Noticed
  <2>1. CASE p # q /\ r # q
    BY <2>1, <1>1, <1>3 DEF Noticed
  <2>2. CASE p = q \/ r = q
    BY <2>2, <1>1, <1>3 DEF Work!Overlaps
  <2> QED  BY <2>1, <2>2
<1>13. NothingYet'
  <2> SUFFICES ASSUME NEW p \in Request, request'[p] \in Work!Open, KeyOf[p] \in Sure'
               PROVE  started[KeyOf[p]] = NoRun
    BY <1>1 DEF NothingYet
  <2>1. CASE p = q
    <3>1. stage = "checking" /\ KeyOf[p] # NoRun
      BY <2>1, <1>2, <1>3, StageFacts DEF Sure, WorkConstants, Work!NoneAssumption
    <3> QED  BY <2>1, <3>1, <1>2 DEF Work!Known, Work!Remembered
  <2>2. CASE p # q
    BY <2>2, <1>3, <1>6 DEF NothingYet
  <2> QED  BY <2>1, <2>2
<1> QED  BY <1>7, <1>8, <1>9, <1>10, <1>11, <1>12, <1>13

(* A run started for a key that met nothing is the key's first.            *)
LEMMA StartInv ==
  ASSUME WorkConstants, WInv, NEW q \in Request, Work!Start(q)
  PROVE  WInv'
<1> USE DEF WInv
<1>1. /\ request[q] = "posting" /\ request[q] \in Work!Open
      /\ runs' = runs \cup {q} /\ arriving' = arriving \cup {q}
      /\ barged \subseteq barged' /\ barged' \subseteq barged \cup {q}
      /\ answer' = [answer EXCEPT ![q] = q]
      /\ UNCHANGED <<turns, crossed, lapsed, forgotten>>
  BY DEF Work!Start, Work!At, Work!Open, Work!doubts
<1>2. /\ request' \in [Request -> Work!Stages] /\ request'[q] = "accepted"
      /\ \A p \in Request \ {q} : request'[p] = request[p]
  BY StageFacts DEF Work!Start, Work!Moves, Work!TypeOK
<1>3. q # NoRun /\ KeyOf[q] \in Key \cup {NoRun}
  BY DEF WorkConstants, Work!NoneAssumption, Work!RequestAssumption
<1>4. /\ started' \in [Key -> Request \cup {NoRun}]
      /\ KeyOf[q] \in Key => started'[KeyOf[q]] = q
      /\ \A k \in Key \ {KeyOf[q]} : started'[k] = started[k]
  <2>1. CASE KeyOf[q] = NoRun
    BY <2>1 DEF Work!Start, Work!Remembers, Work!TypeOK, WorkConstants, Work!NoneAssumption
  <2>2. CASE KeyOf[q] # NoRun
    BY <2>2, <1>3 DEF Work!Start, Work!Remembers, Work!TypeOK
  <2> QED  BY <2>1, <2>2
<1>5. Sure' = Sure
  BY <1>1 DEF Sure
<1>6. q \notin runs
  BY <1>1 DEF RunsAccepted
<1>7. KeyOf[q] \in Sure => \A r \in runs : KeyOf[r] # KeyOf[q]
  <2> SUFFICES ASSUME KeyOf[q] \in Sure, NEW r \in runs, KeyOf[r] = KeyOf[q]
               PROVE  FALSE
    OBVIOUS
  <2>1. started[KeyOf[q]] = NoRun
    BY <1>1 DEF NothingYet
  <2>2. started[KeyOf[q]] = r /\ r \in Request
    BY DEF Named, Work!TypeOK
  <2> QED  BY <2>1, <2>2 DEF WorkConstants, Work!NoneAssumption
<1>8. Work!TypeOK'
  <2>1. answer' \in [Request -> Request \cup {NoRun}]
    BY <1>1 DEF Work!TypeOK
  <2>2. \A p \in Request : answer'[p] # NoRun <=> request'[p] = "accepted"
    BY <1>1, <1>2, <1>3 DEF Work!TypeOK
  <2> QED  BY <1>1, <1>2, <1>4, <2>1, <2>2 DEF Work!TypeOK
<1>9. Work!AnswerRan'
  <2> SUFFICES ASSUME NEW p \in Request, request'[p] = "accepted"
               PROVE  /\ answer'[p] \in runs'
                      /\ answer'[p] = p \/ (KeyOf[p] # NoRun /\ KeyOf[answer'[p]] = KeyOf[p])
    BY DEF Work!AnswerRan
  <2>1. CASE p = q
    BY <2>1, <1>1 DEF Work!TypeOK
  <2>2. CASE p # q
    BY <2>2, <1>1, <1>2 DEF Work!AnswerRan, Work!TypeOK
  <2> QED  BY <2>1, <2>2
<1>10. Work!OneRunPerKey'
  <2> SUFFICES ASSUME NEW p \in runs', NEW r \in runs', KeyOf[p] = KeyOf[r],
                      KeyOf[p] \notin crossed \cup lapsed \cup forgotten \cup {NoRun}
               PROVE  p = r
    BY <1>1 DEF Work!OneRunPerKey
  <2>1. KeyOf[p] \in Sure
    BY <1>1 DEF Sure, Work!TypeOK, WorkConstants, Work!RequestAssumption
  <2>2. CASE p = q \/ r = q
    BY <2>1, <2>2, <1>1, <1>7
  <2>3. CASE p # q /\ r # q
    BY <2>3, <1>1 DEF Work!OneRunPerKey
  <2> QED  BY <2>2, <2>3
<1>11. RunsAccepted'
  BY <1>1, <1>2 DEF RunsAccepted, Work!TypeOK
<1>12. NamesRuns'
  <2> SUFFICES ASSUME NEW k \in Key, started'[k] # NoRun
               PROVE  started'[k] \in runs' /\ KeyOf[started'[k]] = k
    BY DEF NamesRuns
  <2>1. CASE k = KeyOf[q]
    BY <2>1, <1>1, <1>4
  <2>2. CASE k # KeyOf[q]
    BY <2>2, <1>1, <1>4 DEF NamesRuns
  <2> QED  BY <2>1, <2>2
<1>13. Named'
  <2> SUFFICES ASSUME NEW r \in runs', KeyOf[r] \in Sure
               PROVE  started'[KeyOf[r]] = r
    BY <1>5 DEF Named
  <2>1. CASE r = q
    BY <2>1, <1>4 DEF Sure
  <2>2. CASE r # q
    <3>1. r \in runs /\ KeyOf[r] \in Key \ {KeyOf[q]}
      BY <2>2, <1>1, <1>7 DEF Sure
    <3> QED  BY <3>1, <1>4 DEF Named
  <2> QED  BY <2>1, <2>2
<1>14. \A p \in Request : request'[p] \in Work!Open => p # q /\ request[p] \in Work!Open
  BY <1>2, StageFacts
<1>15. Noticed'
  BY <1>1, <1>14 DEF Noticed
<1>16. NothingYet'
  <2> SUFFICES ASSUME NEW p \in Request, request'[p] \in Work!Open, KeyOf[p] \in Sure
               PROVE  started'[KeyOf[p]] = NoRun
    BY <1>5 DEF NothingYet
  <2>1. KeyOf[p] # KeyOf[q]
    <3> SUFFICES ASSUME KeyOf[p] = KeyOf[q] PROVE FALSE
      OBVIOUS
    <3>1. KeyOf[p] \in crossed
      BY <1>1, <1>14 DEF Noticed, Sure, WorkConstants, Work!NoneAssumption
    <3> QED  BY <3>1 DEF Sure
  <2> QED  BY <2>1, <1>4, <1>14 DEF NothingYet, Sure
<1> QED  BY <1>8, <1>9, <1>10, <1>11, <1>12, <1>13, <1>15, <1>16

LEMMA TurnsInv ==
  ASSUME WInv,
         \/ \E q \in Request : Work!Arrives(q)
         \/ \E t \in Thread : Work!TurnBegins(t) \/ Work!TurnEnds(t),
         WorkConstants
  PROVE  WInv'
<1>1. /\ UNCHANGED <<request, answer, started, runs, barged, crossed, lapsed, forgotten>>
      /\ arriving' \subseteq arriving
  BY DEF Work!Arrives, Work!TurnBegins, Work!TurnEnds, Work!doubts
<1>2. turns' \subseteq Thread
  BY DEF Work!Arrives, Work!TurnBegins, Work!TurnEnds, WInv, Work!TypeOK, WorkConstants, Work!RequestAssumption
<1> QED  BY <1>1, <1>2 DEF WInv, Work!TypeOK, Work!AnswerRan, Work!OneRunPerKey, RunsAccepted,
             NamesRuns, Named, Noticed, NothingYet, Sure

LEMMA ExpiresInv ==
  ASSUME WorkConstants, WInv, NEW k \in Key, Work!Expires(k)
  PROVE  WInv'
<1> USE DEF WInv
<1>1. /\ UNCHANGED <<request, answer, runs, arriving, turns, barged, crossed, forgotten>>
      /\ started' \in [Key -> Request \cup {NoRun}] /\ started'[k] = NoRun
      /\ \A l \in Key \ {k} : started'[l] = started[l]
      /\ lapsed' = lapsed \cup {k}
  BY DEF Work!Expires, Work!TypeOK
<1>2. Sure' = Sure \ {k}
  BY <1>1 DEF Sure
<1>3. Work!TypeOK' /\ Work!AnswerRan' /\ RunsAccepted'
  BY <1>1 DEF Work!TypeOK, Work!AnswerRan, RunsAccepted
<1>4. Work!OneRunPerKey' /\ Noticed'
  BY <1>1 DEF Work!OneRunPerKey, Noticed
<1>5. NamesRuns'
  BY <1>1 DEF NamesRuns
<1>6. Named' /\ NothingYet'
  BY <1>1, <1>2 DEF Named, NothingYet, Sure
<1> QED  BY <1>3, <1>4, <1>5, <1>6

LEMMA RestartsInv ==
  ASSUME WorkConstants, WInv, Work!Restarts
  PROVE  WInv'
<1> USE DEF WInv
<1>1. /\ UNCHANGED <<answer, runs, barged, crossed, lapsed>>
      /\ started' = [l \in Key |-> NoRun] /\ arriving' = {} /\ turns' = {}
      /\ forgotten' = forgotten \cup {l \in Key : started[l] # NoRun}
      /\ request' = [q \in Request |-> IF request[q] \in Work!Open THEN "gone" ELSE request[q]]
  BY DEF Work!Restarts
<1>2. /\ request' \in [Request -> Work!Stages]
      /\ \A q \in Request : /\ request'[q] \notin Work!Open
                            /\ request'[q] = "accepted" <=> request[q] = "accepted"
  BY <1>1, StageFacts DEF Work!TypeOK
<1>3. Sure' \subseteq Sure /\ \A l \in Sure' : started[l] = NoRun
  BY <1>1 DEF Sure
<1>4. Work!TypeOK'
  BY <1>1, <1>2 DEF Work!TypeOK
<1>5. Work!AnswerRan' /\ RunsAccepted'
  BY <1>1, <1>2 DEF Work!AnswerRan, RunsAccepted, Work!TypeOK
<1>6. Work!OneRunPerKey' /\ NamesRuns'
  BY <1>1 DEF Work!OneRunPerKey, NamesRuns
<1>7. Named'
  <2> SUFFICES ASSUME NEW r \in runs, KeyOf[r] \in Sure' PROVE FALSE
    BY <1>1 DEF Named
  <2>1. started[KeyOf[r]] = NoRun /\ started[KeyOf[r]] = r
    BY <1>3 DEF Named
  <2> QED  BY <2>1 DEF Work!TypeOK, WorkConstants, Work!NoneAssumption
<1>8. Noticed' /\ NothingYet'
  BY <1>2 DEF Noticed, NothingYet
<1> QED  BY <1>4, <1>5, <1>6, <1>7, <1>8

----------------------------------------------------------------------------
(* Theorems *)

LEMMA WorkInit == ASSUME WorkConstants PROVE Work!Init => WInv
  BY StageFacts DEF Work!Init, WInv, Work!TypeOK, Work!AnswerRan, Work!OneRunPerKey, RunsAccepted,
     NamesRuns, Named, Noticed, NothingYet, Sure

LEMMA WorkNext == ASSUME WorkConstants PROVE WInv /\ [Work!Next]_(Work!vars) => WInv'
<1> SUFFICES ASSUME WInv, [Work!Next]_(Work!vars) PROVE WInv'
  OBVIOUS
<1>1. ASSUME NEW q \in Request,
             Work!Receive(q) \/ Work!Checked(q) \/ Work!Refuse(q) \/ Work!Start(q) \/ Work!ClientGoes(q) \/ Work!Arrives(q)
      PROVE  WInv'
  BY <1>1, ReceiveInv, CheckedInv, StartInv, TurnsInv
<1>2. ASSUME NEW t \in Thread, Work!TurnBegins(t) \/ Work!TurnEnds(t) PROVE WInv'
  BY <1>2, TurnsInv
<1>3. ASSUME NEW k \in Key, Work!Expires(k) PROVE WInv'
  BY <1>3, ExpiresInv
<1>4. CASE Work!Restarts
  BY <1>4, RestartsInv
<1>5. CASE UNCHANGED Work!vars
  BY <1>5 DEF Work!vars, Work!doubts, WInv, Work!TypeOK, Work!AnswerRan, Work!OneRunPerKey, RunsAccepted,
              NamesRuns, Named, Noticed, NothingYet, Sure
<1> QED  BY <1>1, <1>2, <1>3, <1>4, <1>5 DEF Work!Next

(* For any requests, threads and keys: a client that is accepted is told   *)
(* of a run that started, its own or its key's, and a key that no two      *)
(* requests used at once, that has not lapsed and was not forgotten by a   *)
(* restart, starts one run.                                                *)
THEOREM OneRunAnswered ==
  ASSUME WorkConstants
  PROVE  Work!Spec => [](Work!AnswerRan /\ Work!OneRunPerKey)
<1>1. WInv => Work!AnswerRan /\ Work!OneRunPerKey
  BY DEF WInv
<1> QED  BY <1>1, WorkInit, WorkNext, PTL DEF Work!Spec

----------------------------------------------------------------------------
(* What the constants are. *)
RetryConstants == Retry!AuthorAssumption /\ Retry!LimitsAssumption

----------------------------------------------------------------------------
(* Offers to send again *)

(* The offers made since m's. *)
Newer(m) == {o \in Retry!Offered : retries[o] > retries[m]}

(* Offers have times of their own, that are past, and an author who did    *)
(* not press them.                                                         *)
Timed ==
  /\ now \in 0 .. MaxNow /\ retries \in [Message -> 0 .. MaxNow \cup {Retry!Never}]
  /\ IsFiniteSet(Retry!Offered)
  /\ \A m \in Retry!Offered : retries[m] <= now /\ m \notin pressed
  /\ \A m, o \in Retry!Offered : retries[m] = retries[o] => m = o

(* A failure is owed one more turn, no more, and each offer is for one.    *)
Owes ==
  /\ failures \in 0 .. MaxFailures /\ owed \in [Message -> 0 .. failures]
  /\ \A m \in Retry!Offered : owed[m] > 0

(* An offer that is newer is of a turn that failed later. *)
Counts ==
  /\ later \in [Message -> Nat]
  /\ \A m \in Retry!Offered : later[m] >= Cardinality(Newer(m))

OInv == Timed /\ Owes /\ Counts

LEMMA RetryNumbers ==
  ASSUME RetryConstants
  PROVE  /\ RetriesMost \in Nat /\ RetriesMost > 0 /\ RetryTtl \in Nat /\ MaxNow \in Nat
         /\ MaxFailures \in Nat /\ Retry!Never \notin 0 .. MaxNow /\ 0 \in 0 .. MaxNow
  BY DEF RetryConstants, Retry!LimitsAssumption, Retry!Never

LEMMA NewerFinite ==
  ASSUME Timed, NEW m \in Message
  PROVE  IsFiniteSet(Newer(m)) /\ Cardinality(Newer(m)) \in Nat
<1>1. Newer(m) \in SUBSET Retry!Offered
  BY DEF Newer
<1> QED  BY <1>1, FS_Subset, FS_CardinalityType DEF Timed

(* What is kept: all that are not past their time, or all but the oldest   *)
(* as RETRIES_MOST of them are.                                            *)
LEMMA KeptParts ==
  ASSUME RetryConstants, Timed, NEW live, live \subseteq Retry!Offered, NEW held \in Retry!Kept(live)
  PROVE  /\ held \subseteq live
         /\ held = live \/ /\ Cardinality(live) >= RetriesMost
                           /\ \E m \in Retry!Oldest(live) : held = live \ {m}
<1>1. IsFiniteSet(live) /\ Cardinality(live) \in Nat
  BY FS_Subset, FS_CardinalityType DEF Timed
<1>2. Retry!Cardinality(live) = Cardinality(live)
  BY DEF Cardinality, Retry!Cardinality
<1>3. CASE Cardinality(live) < RetriesMost
  BY <1>2, <1>3 DEF Retry!Kept
<1>4. CASE ~(Cardinality(live) < RetriesMost)
  BY <1>1, <1>2, <1>4, RetryNumbers DEF Retry!Kept
<1> QED  BY <1>3, <1>4

LEMMA OffersInv ==
  ASSUME RetryConstants, OInv, NEW x \in Message, Retry!Offers(x)
  PROVE  OInv' /\ \A m \in Retry!Offered : Retry!GoesOnlyCrowded(m)
<1> DEFINE live == {o \in Retry!Offered : ~Retry!Lapsed(o)}
<1>1. live \subseteq Retry!Offered
  OBVIOUS
<1>2. PICK held \in Retry!Kept(live) :
        retries' = [o \in Message |->
                      IF o = x THEN now ELSE IF o \in held THEN retries[o] ELSE Retry!Never]
  BY DEF Retry!Offers
<1>3. /\ held \subseteq live
      /\ held = live \/ /\ Cardinality(live) >= RetriesMost
                        /\ \E m \in Retry!Oldest(live) : held = live \ {m}
  BY <1>1, KeptParts DEF OInv
<1> HIDE DEF live
<1>4. /\ now \in 0 .. MaxNow /\ now' = now /\ retries \in [Message -> 0 .. MaxNow \cup {Retry!Never}]
      /\ now # Retry!Never /\ Retry!Offered \subseteq Message
  BY RetryNumbers DEF OInv, Timed, Retry!Offers, Retry!Offered
<1>5. /\ retries' \in [Message -> 0 .. MaxNow \cup {Retry!Never}] /\ retries'[x] = now
      /\ \A o \in held \ {x} : retries'[o] = retries[o]
      /\ Retry!Offered' = held \cup {x}
  <2>1. retries' \in [Message -> 0 .. MaxNow \cup {Retry!Never}]
    BY <1>2, <1>4
  <2>2. held \subseteq Message /\ \A o \in held : retries[o] # Retry!Never
    BY <1>1, <1>3 DEF Retry!Offered
  <2>3. retries'[x] = now /\ \A o \in held \ {x} : retries'[o] = retries[o]
    BY <1>2, <2>2
  <2>4. \A o \in Message : retries'[o] # Retry!Never <=> o \in held \cup {x}
    BY <1>2, <1>4, <2>2
  <2> QED  BY <2>1, <2>2, <2>3, <2>4 DEF Retry!Offered
<1>6. \A o \in held \ {x} : o \in Retry!Offered /\ retries[o] < now /\ retries[o] \in 0 .. MaxNow
  <2>1. \A o \in Message : retries[o] # now
    BY DEF Retry!Offers
  <2>2. \A o \in Retry!Offered : retries[o] \in 0 .. MaxNow /\ retries[o] <= now
    BY <1>4 DEF Retry!Offered, OInv, Timed
  <2> QED  BY <1>1, <1>3, <1>4, <2>1, <2>2
<1>7. Timed'
  <2>1. IsFiniteSet(Retry!Offered')
    <3>1. IsFiniteSet(held)
      BY <1>1, <1>3, FS_Subset DEF OInv, Timed
    <3> QED  BY <1>5, <3>1, FS_AddElement
  <2>2. \A m \in Retry!Offered' : retries'[m] <= now' /\ m \notin pressed'
    <3>1. pressed' = pressed \ {x}
      BY DEF Retry!Offers
    <3> QED  BY <1>4, <1>5, <1>6, <3>1 DEF OInv, Timed
  <2>3. \A m, o \in Retry!Offered' : retries'[m] = retries'[o] => m = o
    BY <1>4, <1>5, <1>6 DEF OInv, Timed
  <2> QED  BY <1>4, <1>5, <2>1, <2>2, <2>3 DEF Timed
<1>8. Owes'
  <2>1. /\ failures \in 0 .. MaxFailures /\ failures < MaxFailures /\ failures' = failures + 1
        /\ owed \in [Message -> 0 .. failures] /\ owed' = [owed EXCEPT ![x] = @ + 1]
    BY DEF Retry!Offers, OInv, Owes
  <2>2. failures' \in 0 .. MaxFailures /\ owed' \in [Message -> 0 .. failures']
    BY <2>1, RetryNumbers
  <2>3. \A m \in Message : owed'[m] >= owed[m] /\ owed'[x] > 0
    BY <2>1
  <2>4. \A m \in Retry!Offered' : owed'[m] > 0
    BY <1>4, <1>5, <1>6, <2>1, <2>3 DEF OInv, Owes
  <2> QED  BY <2>2, <2>4 DEF Owes
<1>9. /\ later \in [Message -> Nat] /\ later' \in [Message -> Nat] /\ later'[x] = 0
      /\ \A m \in Message \ {x} : later'[m] = later[m] + 1
  BY DEF Retry!Offers, OInv, Counts
<1>10. Counts'
  <2>1. ASSUME NEW m \in held \ {x} PROVE later'[m] >= Cardinality(Newer(m)')
    <3>1. m \in Message /\ m \in Retry!Offered /\ retries'[m] = retries[m]
      BY <1>4, <1>5, <1>6
    <3>2. IsFiniteSet(Newer(m)) /\ Cardinality(Newer(m)) \in Nat
      BY <3>1, NewerFinite DEF OInv
    <3>3. Newer(m)' \subseteq Newer(m) \cup {x}
      BY <1>4, <1>5, <1>6, <3>1 DEF Newer
    <3>4. /\ IsFiniteSet(Newer(m) \cup {x})
          /\ Cardinality(Newer(m) \cup {x}) <= Cardinality(Newer(m)) + 1
      <4>1. /\ IsFiniteSet(Newer(m) \cup {x})
            /\ \/ Cardinality(Newer(m) \cup {x}) = Cardinality(Newer(m))
               \/ Cardinality(Newer(m) \cup {x}) = Cardinality(Newer(m)) + 1
        BY <3>2, FS_AddElement, Zenon
      <4> QED  BY <3>2, <4>1
    <3>5. IsFiniteSet(Newer(m)') /\ Cardinality(Newer(m)') <= Cardinality(Newer(m) \cup {x})
      BY <3>3, <3>4, FS_Subset
    <3>6. Cardinality(Newer(m)') \in Nat /\ Cardinality(Newer(m) \cup {x}) \in Nat
      BY <3>4, <3>5, FS_CardinalityType
    <3>7. later[m] >= Cardinality(Newer(m)) /\ later[m] \in Nat /\ later'[m] = later[m] + 1
      BY <1>9, <2>1, <3>1 DEF OInv, Counts
    <3> QED  BY <3>2, <3>4, <3>5, <3>6, <3>7
  <2>2. Newer(x)' = {}
    <3>1. \A o \in Retry!Offered' : ~(retries'[o] > retries'[x])
      BY <1>4, <1>5, <1>6
    <3> QED  BY <3>1 DEF Newer
  <2>3. later'[x] >= Cardinality(Newer(x)')
    BY <1>9, <2>2, FS_EmptySet
  <2> QED  BY <1>5, <1>9, <2>1, <2>3 DEF Counts
<1>11. ASSUME NEW m \in Retry!Offered, retries'[m] = Retry!Never, ~Retry!Lapsed(m) PROVE later'[m] >= RetriesMost
  <2>1. m \in live /\ m # x /\ m \notin held /\ m \in Message
    BY <1>4, <1>5, <1>11 DEF live, Retry!Offered
  <2>2. Cardinality(live) >= RetriesMost /\ m \in Retry!Oldest(live)
    BY <1>3, <2>1
  <2>3. live \ {m} \subseteq Newer(m)
    <3>1. ASSUME NEW o \in live, o # m PROVE o \in Newer(m)
      <4>1. o \in Retry!Offered /\ retries[m] <= retries[o] /\ retries[m] # retries[o]
        BY <1>1, <1>11, <2>2, <3>1 DEF Retry!Oldest, OInv, Timed
      <4>2. retries[m] \in 0 .. MaxNow /\ retries[o] \in 0 .. MaxNow
        BY <1>4, <1>11, <4>1 DEF Retry!Offered
      <4> QED  BY <4>1, <4>2 DEF Newer
    <3> QED  BY <3>1
  <2>4. IsFiniteSet(live) /\ Cardinality(live) \in Nat
    BY <1>1, FS_Subset, FS_CardinalityType DEF OInv, Timed
  <2>5. IsFiniteSet(Newer(m)) /\ Cardinality(Newer(m)) \in Nat
    BY <2>1, NewerFinite DEF OInv
  <2>6. Cardinality(live \ {m}) = Cardinality(live) - 1
    BY <2>1, <2>4, FS_RemoveElement
  <2>7. Cardinality(live \ {m}) <= Cardinality(Newer(m))
    BY <2>3, <2>5, FS_Subset
  <2>8. later[m] >= Cardinality(Newer(m)) /\ later[m] \in Nat /\ later'[m] = later[m] + 1
    BY <1>9, <1>11, <2>1 DEF OInv, Counts
  <2> QED  BY <2>2, <2>4, <2>5, <2>6, <2>7, <2>8, RetryNumbers
<1> QED  BY <1>7, <1>8, <1>10, <1>11 DEF OInv, Retry!GoesOnlyCrowded

(* An offer that is taken, or dropped as it is late, is gone.              *)
LEMMA GoneInv ==
  ASSUME RetryConstants, OInv, NEW x \in Retry!Offered, retries' = [retries EXCEPT ![x] = Retry!Never],
         now' = now, UNCHANGED <<failures, later>>,
         pressed' = pressed \/ pressed' = pressed \cup {x},
         \A m \in Message \ {x} : owed'[m] = owed[m], owed' \in [Message -> 0 .. failures]
  PROVE  OInv'
<1>1. /\ Retry!Offered' = Retry!Offered \ {x} /\ \A m \in Retry!Offered' : retries'[m] = retries[m]
      /\ retries' \in [Message -> 0 .. MaxNow \cup {Retry!Never}] /\ Retry!Offered \subseteq Message
  BY DEF OInv, Timed, Retry!Offered
<1>2. Timed'
  <2>1. IsFiniteSet(Retry!Offered')
    BY <1>1, FS_RemoveElement DEF OInv, Timed
  <2> QED  BY <1>1, <2>1 DEF OInv, Timed
<1>3. Owes'
  BY <1>1 DEF OInv, Owes
<1>4. Counts'
  <2>1. ASSUME NEW m \in Retry!Offered' PROVE later'[m] >= Cardinality(Newer(m)')
    <3>1. m \in Retry!Offered /\ m \in Message
      BY <1>1
    <3>2. IsFiniteSet(Newer(m)) /\ Cardinality(Newer(m)) \in Nat
      BY <3>1, NewerFinite DEF OInv
    <3>3. Newer(m)' \subseteq Newer(m)
      BY <1>1 DEF Newer
    <3>4. IsFiniteSet(Newer(m)') /\ Cardinality(Newer(m)') <= Cardinality(Newer(m))
      BY <3>2, <3>3, FS_Subset
    <3>5. Cardinality(Newer(m)') \in Nat
      BY <3>4, FS_CardinalityType
    <3>6. later[m] >= Cardinality(Newer(m)) /\ later[m] \in Nat
      BY <3>1 DEF OInv, Counts
    <3> QED  BY <3>2, <3>4, <3>5, <3>6
  <2> QED  BY <2>1 DEF OInv, Counts
<1> QED  BY <1>2, <1>3, <1>4 DEF OInv

LEMMA PressInv ==
  ASSUME RetryConstants, OInv, NEW x \in Message, NEW u, Retry!SendAgain(x, u) \/ Retry!PressesLate(x, u)
  PROVE  OInv' /\ \A m \in Retry!Offered : Retry!GoesOnlyCrowded(m)
<1>1. /\ x \in Retry!Offered /\ retries' = [retries EXCEPT ![x] = Retry!Never]
      /\ now' = now /\ UNCHANGED <<failures, later>>
  BY DEF Retry!SendAgain, Retry!PressesLate, Retry!Taken
<1>2. owed \in [Message -> 0 .. failures] /\ owed[x] > 0 /\ failures \in Nat
  BY <1>1 DEF OInv, Owes
<1>3. \A m \in Retry!Offered : m # x => retries'[m] # Retry!Never
  BY <1>1 DEF OInv, Timed, Retry!Offered
<1>4. CASE Retry!SendAgain(x, u)
  <2>1. /\ u = AuthorOf[x] /\ pressed' = pressed \cup {x}
        /\ owed' = [owed EXCEPT ![x] = IF @ = 0 \/ u # AuthorOf[x] THEN MaxFailures + 1 ELSE @ - 1]
    BY <1>4 DEF Retry!SendAgain, Retry!Theirs
  <2>2. owed' \in [Message -> 0 .. failures] /\ \A m \in Message \ {x} : owed'[m] = owed[m]
    BY <1>2, <2>1
  <2>3. x \in pressed' \ pressed
    BY <1>1, <2>1 DEF OInv, Timed
  <2>4. OInv'
    BY <1>1, <2>1, <2>2, GoneInv
  <2> QED  BY <1>3, <2>3, <2>4 DEF Retry!GoesOnlyCrowded
<1>5. CASE Retry!PressesLate(x, u)
  <2>1. UNCHANGED <<owed, pressed>> /\ Retry!Lapsed(x)
    BY <1>5 DEF Retry!PressesLate
  <2>2. OInv'
    BY <1>1, <1>2, <2>1, GoneInv
  <2> QED  BY <1>3, <2>1, <2>2 DEF Retry!GoesOnlyCrowded
<1> QED  BY <1>4, <1>5

LEMMA QuietInv ==
  ASSUME RetryConstants, OInv, Retry!Tick \/ (\E m \in Message : Retry!Succeeds(m)) \/ UNCHANGED Retry!vars
  PROVE  OInv' /\ \A m \in Retry!Offered : Retry!GoesOnlyCrowded(m)
<1>1. UNCHANGED <<retries, failures, owed, later, pressed>>
  BY DEF Retry!Tick, Retry!Succeeds, Retry!vars
<1>2. now' \in 0 .. MaxNow /\ now \in 0 .. MaxNow /\ now' >= now
  BY RetryNumbers DEF OInv, Timed, Retry!Tick, Retry!Succeeds, Retry!vars
<1>3. Retry!Offered' = Retry!Offered /\ \A m : Newer(m)' = Newer(m)
  BY <1>1 DEF Retry!Offered, Newer
<1>4. \A m \in Retry!Offered : retries[m] \in 0 .. MaxNow
  BY DEF Retry!Offered, OInv, Timed
<1>5. Timed'
  BY <1>1, <1>2, <1>3, <1>4, RetryNumbers DEF OInv, Timed
<1>6. Owes' /\ Counts'
  BY <1>1, <1>3 DEF OInv, Owes, Counts
<1>7. \A m \in Retry!Offered : retries'[m] # Retry!Never
  BY <1>1 DEF Retry!Offered
<1> QED  BY <1>5, <1>6, <1>7 DEF OInv, Retry!GoesOnlyCrowded

LEMMA RetryNext ==
  ASSUME RetryConstants, OInv, [Retry!Next]_(Retry!vars)
  PROVE  OInv' /\ \A m \in Retry!Offered : Retry!GoesOnlyCrowded(m)
  BY OffersInv, PressInv, QuietInv DEF Retry!Next

LEMMA RetryInit == ASSUME RetryConstants, Retry!Init PROVE OInv
<1>1. Retry!Offered = {} /\ \A m : Newer(m) = {}
  BY DEF Retry!Init, Retry!Offered, Newer
<1>2. /\ now = 0 /\ failures = 0 /\ retries \in [Message -> 0 .. MaxNow \cup {Retry!Never}]
      /\ owed \in [Message -> 0 .. failures] /\ later \in [Message -> Nat]
  BY DEF Retry!Init
<1> QED  BY <1>1, <1>2, RetryNumbers, FS_EmptySet DEF OInv, Timed, Owes, Counts

LEMMA OwesFew == ASSUME RetryConstants, OInv PROVE Retry!SentOncePerFailure
  BY RetryNumbers DEF OInv, Owes, Retry!SentOncePerFailure

(* A message whose turn failed is sent again once for each failure, and    *)
(* only by its author, however often and by whom its card is pressed       *)
(* (chat.rs `send_again`).                                                 *)
THEOREM SentOnce == ASSUME RetryConstants PROVE Retry!Spec => []Retry!SentOncePerFailure
<1>1. Retry!Init => OInv
  BY RetryInit
<1>2. OInv /\ [Retry!Next]_(Retry!vars) => OInv'
  BY RetryNext
<1>3. OInv => Retry!SentOncePerFailure
  BY OwesFew
<1> QED  BY <1>1, <1>2, <1>3, PTL DEF Retry!Spec

(* An offer that is neither pressed nor past RETRY_TTL goes only after     *)
(* RETRIES_MOST later failures (chat.rs `offer_retry`).                    *)
THEOREM OffersKept == ASSUME RetryConstants PROVE Retry!Spec => Retry!KeptUnlessCrowded
<1>1. Retry!Init => OInv
  BY RetryInit
<1>2. OInv /\ [Retry!Next]_(Retry!vars) => OInv'
  BY RetryNext
<1>3. OInv /\ [Retry!Next]_(Retry!vars) => [\A m \in Retry!Offered : Retry!GoesOnlyCrowded(m)]_(Retry!vars)
  BY RetryNext
<1> QED  BY <1>1, <1>2, <1>3, PTL DEF Retry!Spec, Retry!KeptUnlessCrowded

----------------------------------------------------------------------------
(* The Home tab and the store commands, whose variables these are.         *)
CONSTANTS Person, Admin, Node, Client, Tool, Nobody, OwnerOf, Task,
          MaxClicks, MaxOpens, MaxChanges, MaxFaults
VARIABLES rights, settings, token, rules, busy, tab, modal, redrawing, task, answered,
          deskCrossed, slipped, unseen, used
Desk == INSTANCE Panel WITH crossed <- deskCrossed

(* The intake of messages; its messages are chat, its tasks and bound      *)
(* counters are its own.                                                   *)
CONSTANTS Chat, WriterOf, ChatKindOf, LetInFirst, NoNode, MaxMoves
VARIABLES chatters, admits, pin, turn, behind, loop, reached, overheard, marked, steered,
          ever, intakeTask, intakeUsed
Talk == INSTANCE Intake WITH Message <- Chat, AuthorOf <- WriterOf, KindOf <- ChatKindOf,
                             task <- intakeTask, used <- intakeUsed

----------------------------------------------------------------------------
(* The inductive invariant of Panel *)

(* What the constants are. *)
PanelConstants == Desk!PeopleAssumption /\ Desk!TokenAssumption

(* A task is a record of these fields. *)
IsJob(j) ==
  j = [at |-> j.at, kind |-> j.kind, by |-> j.by, calls |-> j.calls, read |-> j.read,
       stale |-> j.stale, mints |-> j.mints, fresh |-> j.fresh, draw |-> j.draw,
       whose |-> j.whose, view |-> j.view]

Born(k) == token[k].owner # Nobody

(* Only a credential that was never minted is about to be added, and only  *)
(* one that was minted to be revoked.                                      *)
CallsFit(calls) ==
  \A c \in calls :
    /\ c.op = "add" => c.on \in Desk!Token /\ c.who \in Person /\ ~Born(c.on)
    /\ c.op = "revoke" => c.on \in Desk!Token /\ Born(c.on)

(* What a mint is to deliver is minted, or still to be. *)
MintDue(j) ==
  j.at = "calls" /\ j.kind = "mint" =>
    /\ j.mints \in Desk!Token
    /\ Born(j.mints) \/ \E c \in j.calls : c.op = "add" /\ c.on = j.mints

(* A document is read for a call that is not made yet. *)
ReadFits(j) ==
  /\ j.read # Desk!NoCall => j.read \in j.calls /\ j.read.op \in Desk!Guarded
  /\ j.read = Desk!NoCall => ~j.stale

(* A credential's document that was written since it was read is revoked,  *)
(* or was written by another click.                                        *)
StaleKnown(j) ==
  j.stale /\ j.read # Desk!NoCall /\ j.read.op = "revoke" =>
    j.read.on \in deskCrossed \/ token[j.read.on].revoked

(* The rules name only what is in the store. *)
Knows(tokens) == \A k \in Desk!Token : tokens[k].owner # Nobody => Born(k)

Fit(j) ==
  /\ IsJob(j) /\ CallsFit(j.calls) /\ MintDue(j) /\ ReadFits(j) /\ StaleKnown(j)
  /\ j.at = "apply" => Knows(j.fresh.token)

Jobs ==
  /\ task = [t \in Task |-> task[t]]
  /\ \A t \in Task : Fit(task[t])

(* A credential is added by one call. *)
AddsOnce ==
  \A t, u \in Task : \A c \in task[t].calls, d \in task[u].calls :
    c.op = "add" /\ d.op = "add" /\ c.on = d.on => t = u /\ c = d

Credentials ==
  /\ token \in Desk!Tokens
  /\ \A k \in Desk!Token : token[k].revoked => Born(k)

(* Who was not drawn since a node changed will be, now that its row is     *)
(* marked, or by a task that draws.                                        *)
Drawing(t, p) == task[t].at \in {"draw", "publish"} /\ p \in task[t].draw
Undrawn ==
  /\ unseen = [n \in Node |-> unseen[n]]
  /\ \A n \in Node : \A p \in unseen[n] : n \in redrawing \/ \E t \in Task : Drawing(t, p)

TInv ==
  /\ Credentials /\ Jobs /\ AddsOnce /\ Knows(rules.token)
  /\ answered \subseteq Desk!Token /\ Desk!RevokedUnlessCrossed
  /\ Undrawn

----------------------------------------------------------------------------
(* Steps *)

(* The fields of a task that has nothing to do. *)
LEMMA IdleFits ==
  /\ IsJob(Desk!Idle) /\ Fit(Desk!Idle)
  /\ Desk!Idle.at = "idle" /\ Desk!Idle.calls = {} /\ Desk!Idle.read = Desk!NoCall /\ Desk!Idle.draw = {}
<1>1. /\ Desk!Idle.at = "idle" /\ Desk!Idle.calls = {} /\ Desk!Idle.read = Desk!NoCall /\ Desk!Idle.draw = {}
      /\ Desk!Idle.kind = "none" /\ Desk!Idle.stale = FALSE /\ IsJob(Desk!Idle)
  BY DEF Desk!Idle, IsJob
<1> QED  BY <1>1 DEF Fit, CallsFit, MintDue, ReadFits, StaleKnown

(* One task goes on, and no document of a credential is written. *)
Promises == answered \subseteq Desk!Token /\ Desk!RevokedUnlessCrossed

LEMMA SamePromises ==
  ASSUME TInv, UNCHANGED <<token, answered, deskCrossed, slipped>> PROVE Promises'
  BY DEF TInv, Promises, Desk!RevokedUnlessCrossed

LEMMA OneJobTelling ==
  ASSUME TInv, NEW t \in Task, UNCHANGED <<token, deskCrossed>>, Promises',
         task' = [task EXCEPT ![t] = task'[t]], Fit(task'[t]),
         \A c, d \in task'[t].calls :
           c.op = "add" => /\ c \in task[t].calls \/ Desk!Unused(c.on)
                           /\ d.op = "add" /\ c.on = d.on => c = d,
         Knows(rules'.token), Undrawn'
  PROVE  TInv'
<1>1. task' = [u \in Task |-> task'[u]] /\ \A u \in Task \ {t} : task'[u] = task[u]
  BY DEF TInv, Jobs
<1>2. ASSUME NEW u \in Task PROVE Fit(task[u])'
  <2>1. Fit(task'[u])
    BY <1>1 DEF TInv, Jobs
  <2> QED  BY <2>1 DEF Fit, CallsFit, MintDue, ReadFits, StaleKnown, Knows, Born
<1>3. AddsOnce'
  <2> SUFFICES ASSUME NEW u \in Task, NEW v \in Task, NEW c \in task'[u].calls,
                      NEW d \in task'[v].calls, c.op = "add", d.op = "add", c.on = d.on
               PROVE  u = v /\ c = d
    BY DEF AddsOnce
  <2>1. CASE u # t /\ v # t
    BY <1>1, <2>1 DEF TInv, AddsOnce
  <2>2. CASE u = t /\ v = t
    BY <2>2
  <2>3. CASE u = t /\ v # t
    BY <1>1, <2>3 DEF TInv, AddsOnce, Desk!Unused
  <2>4. CASE u # t /\ v = t
    BY <1>1, <2>4 DEF TInv, AddsOnce, Desk!Unused
  <2> QED  BY <2>1, <2>2, <2>3, <2>4
<1>4. Credentials' /\ Knows(rules.token)'
  BY DEF TInv, Credentials, Knows, Born
<1> QED  BY <1>1, <1>2, <1>3, <1>4 DEF TInv, Jobs, Promises

LEMMA OneJob ==
  ASSUME TInv, NEW t \in Task, UNCHANGED <<token, answered, deskCrossed, slipped>>,
         task' = [task EXCEPT ![t] = task'[t]], Fit(task'[t]),
         \A c, d \in task'[t].calls :
           c.op = "add" => /\ c \in task[t].calls \/ Desk!Unused(c.on)
                           /\ d.op = "add" /\ c.on = d.on => c = d,
         Knows(rules'.token), Undrawn'
  PROVE  TInv'
  BY SamePromises, OneJobTelling

(* What a task draws is still drawn if it goes on drawing. *)
LEMMA DrawsOn ==
  ASSUME TInv, NEW t \in Task, UNCHANGED <<redrawing, unseen>>,
         task' = [task EXCEPT ![t] = task'[t]],
         task[t].at \in {"draw", "publish"} /\ task[t].draw # {} =>
           task'[t].at \in {"draw", "publish"} /\ task[t].draw \subseteq task'[t].draw
  PROVE  Undrawn'
<1>1. \A u \in Task \ {t} : task'[u] = task[u]
  BY DEF TInv, Jobs
<1>2. \A u \in Task : \A p : Drawing(u, p) => Drawing(u, p)'
  BY <1>1 DEF Drawing
<1> QED  BY <1>2 DEF TInv, Undrawn

(* A free task takes up work. *)
LEMMA StartsInv ==
  ASSUME TInv, NEW t \in Task, NEW work, Desk!Starts(t, work),
         IsJob(work), work.at = "calls", work.read = Desk!NoCall, ~work.stale,
         CallsFit(work.calls), MintDue(work),
         \A c, d \in work.calls :
           c.op = "add" => Desk!Unused(c.on) /\ (d.op = "add" /\ c.on = d.on => c = d)
  PROVE  TInv'
<1>1. /\ task' = [task EXCEPT ![t] = work] /\ task[t] = Desk!Idle
      /\ UNCHANGED <<token, rules, redrawing, answered, deskCrossed, slipped, unseen>>
  BY DEF Desk!Starts, Desk!Free, Desk!store, Desk!promised
<1>2. task'[t] = work
  BY <1>1 DEF TInv, Jobs
<1>3. Fit(task'[t])
  BY <1>2 DEF Fit, ReadFits, StaleKnown
<1>4. Undrawn'
  BY <1>1, <1>2, DrawsOn, IdleFits
<1>5. Knows(rules'.token)
  BY <1>1 DEF TInv
<1> QED  BY <1>1, <1>2, <1>3, <1>4, <1>5, OneJob

LEMMA WorkParts ==
  ASSUME NEW kind, NEW p, NEW calls, NEW people, NEW work,
         work = Desk!Work(kind, p, calls, people)
  PROVE  /\ IsJob(work) /\ work.at = "calls" /\ work.read = Desk!NoCall /\ work.calls = calls
         /\ work.kind = kind /\ ~work.stale
  BY DEF Desk!Work, Desk!Idle, IsJob

(* Work without a mint. *)
LEMMA WorksInv ==
  ASSUME TInv, NEW t \in Task, NEW kind, kind # "mint", NEW p, NEW calls, NEW people,
         Desk!Starts(t, Desk!Work(kind, p, calls, people)), CallsFit(calls),
         \A c, d \in calls :
           c.op = "add" => Desk!Unused(c.on) /\ (d.op = "add" /\ c.on = d.on => c = d)
  PROVE  TInv'
<1> DEFINE w == Desk!Work(kind, p, calls, people)
<1>0. w = Desk!Work(kind, p, calls, people)
  OBVIOUS
<1>2. Desk!Starts(t, w)
  OBVIOUS
<1> HIDE DEF w
<1>1. IsJob(w) /\ w.at = "calls" /\ w.read = Desk!NoCall /\ w.calls = calls /\ w.kind = kind
      /\ ~w.stale
  BY <1>0, WorkParts
<1>3. MintDue(w)
  BY <1>1 DEF MintDue
<1> QED  BY <1>1, <1>2, <1>3, StartsInv

----------------------------------------------------------------------------
(* The calls of each change *)

LEMMA CallParts ==
  ASSUME NEW op, NEW p, NEW k
  PROVE  Desk!Call(op, p, k).op = op /\ Desk!Call(op, p, k).who = p /\ Desk!Call(op, p, k).on = k
  BY DEF Desk!Call

(* Who the rules take for the owner of a credential has one. *)
LEMMA KnownBorn ==
  ASSUME TInv, NEW k \in Desk!Token, Desk!KnownOwner(k) # Nobody
  PROVE  Born(k)
  BY DEF Desk!KnownOwner, Desk!LiveOnes, Desk!Minted, TInv, Knows

(* Calls that neither add a credential nor write one that has no owner. *)
Plain(calls) ==
  \A c \in calls : /\ c.op # "add"
                   /\ c.op = "revoke" => c.on \in Desk!Token /\ Born(c.on)
               
LEMMA PlainFits ==
  ASSUME NEW calls, Plain(calls)
  PROVE  CallsFit(calls) /\ \A c \in calls : c.op # "add"
  BY DEF Plain, CallsFit

LEMMA RolesPlain ==
  ASSUME NEW p, Credentials
  PROVE  /\ Plain(Desk!Granting(p)) /\ Plain(Desk!Ungranting(p)) /\ Plain(Desk!Disallowing(p))
         /\ Plain(Desk!HandingOver(p))
<1>1. \A k \in Desk!HeldBy(p, token) : k \in Desk!Token /\ Born(k)
  BY DEF Desk!HeldBy, Desk!LiveOnes, Desk!Minted, Born
<1>2. Plain(Desk!Granting(p)) /\ Plain(Desk!HandingOver(p))
  BY CallParts DEF Plain, Desk!Granting, Desk!HandingOver
<1>3. \A S : S \subseteq Desk!HeldBy(p, token) => Plain(Desk!Revokes(p, S))
  BY <1>1, CallParts DEF Plain, Desk!Revokes
<1>4. Plain({Desk!Call("ungrant", p, p)}) /\ Plain({Desk!Call("disallow", p, p)})
  BY CallParts DEF Plain
<1>5. Plain(Desk!Ungranting(p))
  <2>1. Plain(Desk!Revokes(p, Desk!HeldBy(p, token) \cap Node))
    BY <1>3
  <2> QED  BY <1>4, <2>1 DEF Plain, Desk!Ungranting
<1>6. Plain(Desk!Disallowing(p))
  <2>1. Plain(Desk!Revokes(p, Desk!HeldBy(p, token) \cap Client))
    BY <1>3
  <2> QED  BY <1>4, <1>5, <2>1 DEF Plain, Desk!Disallowing
<1> QED  BY <1>2, <1>5, <1>6

(* A mint adds what it mints, and nothing else. *)
LEMMA MintFits ==
  ASSUME PanelConstants, NEW p \in Person, NEW k \in Desk!Token, Desk!Unused(k)
  PROVE  /\ CallsFit(Desk!Minting(k, p)) /\ Desk!Call("add", p, k) \in Desk!Minting(k, p)
         /\ \A c \in Desk!Minting(k, p) : c.op = "add" => c = Desk!Call("add", p, k) /\ c.on = k
<1>1. ~Born(k)
  BY DEF Desk!Unused, Desk!Minted, Born
<1>2. \A c \in Desk!Minting(k, p) \ {Desk!Call("add", p, k)} : c.op \in {"approve", "allow"}
  BY CallParts DEF Desk!Minting, Desk!Granting
<1>3. Desk!Call("add", p, k) \in Desk!Minting(k, p)
  BY DEF Desk!Minting
<1>4. Desk!Call("add", p, k).op = "add" /\ Desk!Call("add", p, k).on = k /\ Desk!Call("add", p, k).who = p
  BY CallParts
<1> QED  BY <1>1, <1>2, <1>3, <1>4 DEF CallsFit


----------------------------------------------------------------------------
(* Clicks, submissions and commands *)

LEMMA PlainWorks ==
  ASSUME TInv, NEW t \in Task, NEW kind, kind # "mint", NEW p, NEW calls, NEW people,
         Desk!Starts(t, Desk!Work(kind, p, calls, people)), Plain(calls)
  PROVE  TInv'
<1>1. CallsFit(calls) /\ \A c \in calls : c.op # "add"
  BY PlainFits
<1> QED  BY <1>1, WorksInv

LEMMA MintWorks ==
  ASSUME PanelConstants, TInv, NEW t \in Task, NEW p, NEW q \in Person, NEW k \in Desk!Token,
         NEW people, Desk!Unused(k), NEW w,
         w = [Desk!Work("mint", p, Desk!Minting(k, q), people) EXCEPT !.mints = k], Desk!Starts(t, w)
  PROVE  TInv'
<1>1. /\ IsJob(w) /\ w.at = "calls" /\ w.read = Desk!NoCall /\ w.calls = Desk!Minting(k, q)
      /\ w.mints = k /\ ~w.stale
  BY DEF Desk!Work, Desk!Idle, IsJob
<1>2. /\ CallsFit(w.calls) /\ Desk!Call("add", q, k) \in w.calls
      /\ \A c \in w.calls : c.op = "add" => c = Desk!Call("add", q, k) /\ c.on = k
  BY <1>1, MintFits
<1>3. MintDue(w)
  BY <1>1, <1>2, CallParts DEF MintDue
<1> QED  BY <1>1, <1>2, <1>3, StartsInv

(* Changes to lists of people. *)
LEMMA PickPlain ==
  ASSUME TInv, NEW wanted, NEW current
  PROVE  /\ Plain(Desk!Changes(wanted, current, Desk!Granting, Desk!Ungranting))
         /\ Plain(UNION ({{Desk!Call("allow", q, q)} : q \in wanted \ current}
                           \cup {Desk!Disallowing(q) : q \in current \ wanted}))
<1>1. \A q : /\ Plain(Desk!Granting(q)) /\ Plain(Desk!Ungranting(q)) /\ Plain(Desk!Disallowing(q))
              /\ Plain({Desk!Call("allow", q, q)})
  BY RolesPlain, CallParts DEF TInv, Plain
<1>2. Plain(UNION ({Desk!Granting(q) : q \in wanted \ current}
                          \cup {Desk!Ungranting(q) : q \in current \ wanted}))
  BY <1>1 DEF Plain
<1>3. Plain(UNION ({{Desk!Call("allow", q, q)} : q \in wanted \ current}
                     \cup {Desk!Disallowing(q) : q \in current \ wanted}))
  BY <1>1 DEF Plain
<1> QED  BY <1>2, <1>3 DEF Desk!Changes

LEMMA RevokesPlain ==
  ASSUME NEW p, NEW S, \A k \in S : k \in Desk!Token /\ Born(k)
  PROVE  Plain(Desk!Revokes(p, S))
  BY CallParts DEF Plain, Desk!Revokes

LEMMA ClicksInv ==
  ASSUME PanelConstants, TInv, NEW t \in Task, NEW p \in Person, Desk!Clicks(t, p)
  PROVE  TInv'
<1>1. ASSUME NEW denied \in BOOLEAN, Desk!PicksMode(t, p, denied) PROVE TInv'
  <2>1. Plain({Desk!Call(IF denied THEN "deny" ELSE "open", p, p)})
    BY CallParts DEF Plain
  <2> QED  BY <1>1, <2>1, PlainWorks DEF Desk!PicksMode
<1>2. ASSUME NEW q \in Person, Desk!PicksAdmin(t, p, q) PROVE TInv'
  <2>1. Plain(Desk!HandingOver(q))
    BY RolesPlain DEF TInv
  <2> QED  BY <1>2, <2>1, PlainWorks DEF Desk!PicksAdmin
<1>3. ASSUME NEW q \in Person, Desk!PicksPeople(t, p, q) PROVE TInv'
  <2>1. ASSUME NEW wanted, NEW current, NEW people,
               Desk!Starts(t, Desk!Work("tab", p, Desk!Changes(wanted, current, Desk!Granting, Desk!Ungranting), people))
        PROVE  TInv'
    BY <2>1, PickPlain, PlainWorks
  <2>2. ASSUME NEW wanted, NEW current, NEW people,
               Desk!Starts(t, Desk!Work("tab", p, UNION ({{Desk!Call("allow", r, r)} : r \in wanted \ current}
                                             \cup {Desk!Disallowing(r) : r \in current \ wanted}), people))
        PROVE  TInv'
    BY <2>2, PickPlain, PlainWorks
  <2> QED  BY <1>3, <2>1, <2>2 DEF Desk!PicksPeople, Desk!Changes
<1>4. ASSUME NEW k \in Desk!Token, Desk!Manages(p, k), NEW people,
             Desk!Starts(t, Desk!Work("tab", p, Desk!Revokes(p, {k}), people))
      PROVE  TInv'
  <2>1. Plain(Desk!Revokes(p, {k}))
    BY <1>4, KnownBorn, RevokesPlain DEF Desk!Manages
  <2> QED  BY <1>4, <2>1, PlainWorks
<1>5. ASSUME NEW k \in Desk!Token, Desk!ClicksRevoke(t, p, k) \/ Desk!RevokesNode(t, p, k) PROVE TInv'
  BY <1>4, <1>5 DEF Desk!ClicksRevoke, Desk!RevokesNode
<1>6. ASSUME NEW k \in Desk!Token, Desk!TogglesNode(t, p, k) PROVE TInv'
  <2>1. \E op \in {"enable", "disable"} : \E q :
          Desk!Starts(t, Desk!Work("toggle", p, {Desk!Call(op, p, k)}, q))
    BY <1>6 DEF Desk!TogglesNode
  <2>0. PICK op, people : /\ op \in {"enable", "disable"}
                          /\ Desk!Starts(t, Desk!Work("toggle", p, {Desk!Call(op, p, k)}, people))
    BY <2>1
  <2>2. Plain({Desk!Call(op, p, k)})
    BY <2>0, CallParts DEF Plain
  <2> QED  BY <2>0, <2>2, PlainWorks
<1>7. ASSUME NEW k \in Desk!Token, NEW q \in Person, Desk!MintsFor(t, p, k, q) PROVE TInv'
  <2> DEFINE w == [Desk!Work("mint", p, Desk!Minting(k, q), {p, q}) EXCEPT !.mints = k]
  <2>1. w = [Desk!Work("mint", p, Desk!Minting(k, q), {p, q}) EXCEPT !.mints = k]
    OBVIOUS
  <2>2. Desk!Starts(t, w) /\ Desk!Unused(k)
    BY <1>7 DEF Desk!MintsFor
  <2> HIDE DEF w
  <2> QED  BY <2>1, <2>2, MintWorks
<1> QED  BY <1>1, <1>2, <1>3, <1>5, <1>6, <1>7 DEF Desk!Clicks, Desk!MintsNode, Desk!MintsClient

LEMMA CommandsInv ==
  ASSUME PanelConstants, TInv, NEW t \in Task, Desk!Commands(t)
  PROVE  TInv'
<1>1. PICK p \in Person :
        \E calls \in Desk!AdminCommand(p) \cup Desk!GrantCommand(p) \cup Desk!UserCommand(p)
                             \cup Desk!ToolsCommand(p) \cup Desk!NodeCommand(p) :
          Desk!Starts(t, Desk!Work("command", Nobody, calls, {}))
  BY DEF Desk!Commands
<1>2. PICK calls \in Desk!AdminCommand(p) \cup Desk!GrantCommand(p) \cup Desk!UserCommand(p)
                             \cup Desk!ToolsCommand(p) \cup Desk!NodeCommand(p) :
          Desk!Starts(t, Desk!Work("command", Nobody, calls, {}))
  BY <1>1
<1>3. ASSUME Plain(calls) PROVE TInv'
  BY <1>2, <1>3, PlainWorks
<1>4. ASSUME NEW k \in Desk!Token, calls \in Desk!MintCommand(p, k) PROVE TInv'
  <2>1. calls = Desk!Minting(k, p) /\ Desk!Unused(k)
    BY <1>4 DEF Desk!MintCommand
  <2>2. /\ CallsFit(calls)
        /\ \A c \in calls : c.op = "add" => c = Desk!Call("add", p, k) /\ c.on = k
    BY <2>1, MintFits
  <2> QED  BY <1>2, <2>1, <2>2, WorksInv
<1>5. ASSUME NEW k \in Desk!Token, calls \in Desk!RevokeCommand(p, k) PROVE Plain(calls)
  <2>1. calls = Desk!Revokes(p, {k} \cap Desk!Minted(token))
    BY <1>5 DEF Desk!RevokeCommand
  <2> QED  BY <2>1, RevokesPlain DEF Desk!Minted, Born
<1>6. ASSUME calls \in Desk!AdminCommand(p) \cup Desk!GrantCommand(p) PROVE Plain(calls)
  BY <1>6, RolesPlain DEF TInv, Desk!AdminCommand, Desk!GrantCommand
<1>7. ASSUME calls \in {{Desk!Call("allow", p, p)}, Desk!Disallowing(p)} PROVE Plain(calls)
  <2>1. Plain({Desk!Call("allow", p, p)})
    BY CallParts DEF Plain
  <2> QED  BY <1>7, <2>1, RolesPlain DEF TInv
<1>8. ASSUME calls \in Desk!ToolsCommand(p) PROVE Plain(calls)
  <2>1. \A tool : /\ Plain({Desk!Call("deny", p, p)}) /\ Plain({Desk!Call("open", p, p)})
                  /\ Plain({Desk!Call("whitelist", p, tool)}) /\ Plain({Desk!Call("unwhitelist", p, tool)})
    BY CallParts DEF Plain
  <2>2. PICK tool \in Tool :
          calls \in {{Desk!Call("deny", p, p)}, {Desk!Call("open", p, p)}, {Desk!Call("whitelist", p, tool)},
                     {Desk!Call("unwhitelist", p, tool)}}
    BY <1>8 DEF Desk!ToolsCommand
  <2> QED  BY <2>1, <2>2
<1>9. ASSUME calls \in Desk!UserTokenCommand(p) \cup Desk!NodeCommand(p) PROVE TInv'
  <2>1. PICK k \in Desk!Token : calls \in Desk!MintCommand(p, k) \cup Desk!RevokeCommand(p, k)
    BY <1>9 DEF Desk!UserTokenCommand, Desk!NodeCommand, Desk!Token
  <2> QED  BY <2>1, <1>3, <1>4, <1>5
<1> QED  BY <1>2, <1>3, <1>6, <1>7, <1>8, <1>9 DEF Desk!UserCommand

----------------------------------------------------------------------------
(* The calls of the store *)

(* Two records of a task differ in `stale` at most. *)
Alike(j, i) ==
  /\ IsJob(j)
  /\ j.at = i.at /\ j.kind = i.kind /\ j.calls = i.calls /\ j.read = i.read
  /\ j.mints = i.mints /\ j.fresh = i.fresh /\ j.draw = i.draw

LEMMA DoneParts ==
  ASSUME NEW t \in Task, IsJob(task[t]), NEW c, NEW j, j = Desk!Done(t, c)
  PROVE  /\ IsJob(j) /\ j.calls = task[t].calls \ {c} /\ j.read = Desk!NoCall /\ ~j.stale
         /\ j.at = task[t].at /\ j.kind = task[t].kind /\ j.mints = task[t].mints
         /\ j.fresh = task[t].fresh /\ j.draw = task[t].draw
  BY DEF Desk!Done, IsJob

LEMMA MarkedParts ==
  ASSUME NEW i, IsJob(i), NEW j, j = [i EXCEPT !.stale = TRUE]
  PROVE  Alike(j, i) /\ j.stale
  BY DEF IsJob, Alike

(* The calls whose document was written are told apart. *)
LEMMA OutdatedParts ==
  ASSUME Jobs, NEW t \in Task, NEW c,
         task' = Desk!Outdated([task EXCEPT ![t] = Desk!Done(t, c)], c)
  PROVE  /\ task' = [u \in Task |-> task'[u]] /\ task'[t] = Desk!Done(t, c)
         /\ \A u \in Task \ {t} :
              /\ Alike(task'[u], task[u])
              /\ \/ task'[u] = task[u]
                 \/ task[u].read # Desk!NoCall /\ Desk!SameDocument(task[u].read, c)
<1> DEFINE tasks == [task EXCEPT ![t] = Desk!Done(t, c)]
<1>1. /\ tasks[t] = Desk!Done(t, c) /\ \A u \in Task \ {t} : tasks[u] = task[u] /\ IsJob(task[u])
      /\ IsJob(task[t])
  BY DEF Jobs, Fit
<1>2. task' = [u \in Task |-> IF tasks[u].read # Desk!NoCall /\ Desk!SameDocument(tasks[u].read, c)
                              THEN [tasks[u] EXCEPT !.stale = TRUE] ELSE tasks[u]]
  BY DEF Desk!Outdated
<1> HIDE DEF tasks
<1>3. tasks[t].read = Desk!NoCall
  BY <1>1, DoneParts
<1>4. task' = [u \in Task |-> task'[u]] /\ task'[t] = Desk!Done(t, c)
  BY <1>1, <1>2, <1>3
<1>5. ASSUME NEW u \in Task \ {t}
      PROVE  /\ Alike(task'[u], task[u])
             /\ \/ task'[u] = task[u]
                \/ task[u].read # Desk!NoCall /\ Desk!SameDocument(task[u].read, c)
  <2>1. CASE task[u].read # Desk!NoCall /\ Desk!SameDocument(task[u].read, c)
    <3>1. task'[u] = [task[u] EXCEPT !.stale = TRUE]
      BY <1>1, <1>2, <2>1
    <3> QED  BY <1>1, <2>1, <3>1, MarkedParts
  <2>2. CASE ~(task[u].read # Desk!NoCall /\ Desk!SameDocument(task[u].read, c))
    <3>1. task'[u] = task[u]
      BY <1>1, <1>2, <2>2
    <3> QED  BY <1>1, <3>1 DEF Alike
  <2> QED  BY <2>1, <2>2
<1> QED  BY <1>4, <1>5

(* A call is made.  What was minted and what was revoked stays so; only a  *)
(* call that adds a credential mints it.                                   *)
LEMMA StoreInv ==
  ASSUME TInv, NEW t \in Task, NEW c \in task[t].calls, task[t].at = "calls",
         token' \in Desk!Tokens,
         \A k \in Desk!Token :
           /\ Born(k) => Born(k)'
           /\ token[k].revoked => token'[k].revoked
           /\ token'[k].revoked => Born(k)'
           /\ Born(k)' => Born(k) \/ (c.op = "add" /\ k = c.on),
         c.op = "add" => Born(c.on)',
         task' = [u \in Task |-> task'[u]],
         task'[t] = Desk!Done(t, c),
         \A u \in Task \ {t} :
           /\ Alike(task'[u], task[u])
           /\ \/ task'[u] = task[u]
              \/ /\ task[u].read # Desk!NoCall
                 /\ task[u].read.op = "revoke" =>
                      task[u].read.on \in deskCrossed' \/ token'[task[u].read.on].revoked,
         deskCrossed \subseteq deskCrossed', answered' \subseteq Desk!Token, Desk!RevokedUnlessCrossed',
         UNCHANGED <<rules, redrawing, unseen>>
  PROVE  TInv'
<1>1. /\ IsJob(task'[t]) /\ task'[t].calls = task[t].calls \ {c} /\ task'[t].read = Desk!NoCall
      /\ ~task'[t].stale /\ task'[t].at = "calls" /\ task'[t].kind = task[t].kind
      /\ task'[t].mints = task[t].mints
  BY DoneParts DEF TInv, Jobs, Fit
<1>2. ASSUME NEW u \in Task PROVE task'[u].calls \subseteq task[u].calls
  BY <1>1 DEF Alike
<1>3. ASSUME NEW u \in Task, NEW d \in task'[u].calls, d.op = "add" PROVE ~Born(d.on)'
  <2>1. d \in task[u].calls /\ ~Born(d.on) /\ d.on \in Desk!Token
    BY <1>2, <1>3 DEF TInv, Jobs, Fit, CallsFit
  <2>2. SUFFICES ASSUME Born(d.on)' PROVE FALSE
    OBVIOUS
  <2>3. c.op = "add" /\ d.on = c.on
    BY <2>1, <2>2
  <2>4. t = u /\ c = d
    BY <1>3, <2>1, <2>3 DEF TInv, AddsOnce
  <2> QED  BY <1>1, <1>3, <2>4
<1>4. ASSUME NEW u \in Task PROVE CallsFit(task[u].calls)'
  <2> SUFFICES ASSUME NEW d \in task'[u].calls
               PROVE  /\ d.op = "add" => d.on \in Desk!Token /\ d.who \in Person /\ ~Born(d.on)'
                      /\ d.op = "revoke" => d.on \in Desk!Token /\ Born(d.on)'
    BY DEF CallsFit
  <2>1. d \in task[u].calls
    BY <1>2
  <2> QED  BY <1>3, <2>1 DEF TInv, Jobs, Fit, CallsFit
<1>5. Fit(task[t])'
  <2>1. MintDue(task[t])'
    <3> SUFFICES ASSUME task'[t].kind = "mint"
                 PROVE  /\ task'[t].mints \in Desk!Token
                        /\ \/ token'[task'[t].mints].owner # Nobody
                           \/ \E d \in task'[t].calls : d.op = "add" /\ d.on = task'[t].mints
      BY DEF MintDue, Born
    <3>1. /\ task[t].mints \in Desk!Token
          /\ Born(task[t].mints) \/ \E d \in task[t].calls : d.op = "add" /\ d.on = task[t].mints
      BY <1>1 DEF TInv, Jobs, Fit, MintDue
    <3>2. CASE Born(task[t].mints)
      BY <1>1, <3>1, <3>2 DEF Born
    <3>3. ASSUME NEW d \in task[t].calls, d.op = "add", d.on = task[t].mints, d # c
          PROVE  \E e \in task'[t].calls : e.op = "add" /\ e.on = task'[t].mints
      BY <1>1, <3>3
    <3>4. CASE c.op = "add" /\ c.on = task[t].mints
      BY <1>1, <3>1, <3>4 DEF Born
    <3> QED  BY <1>1, <3>1, <3>2, <3>3, <3>4
  <2> QED  BY <1>1, <1>4, <2>1 DEF Fit, ReadFits, StaleKnown
<1>6. ASSUME NEW u \in Task \ {t} PROVE Fit(task[u])'
  <2>1. Alike(task'[u], task[u]) /\ Fit(task[u])
    BY DEF TInv, Jobs
  <2>2. MintDue(task[u])' /\ ReadFits(task[u])'
    BY <2>1 DEF Alike, Fit, MintDue, ReadFits
  <2>3. StaleKnown(task[u])'
    <3> SUFFICES ASSUME task'[u].stale, task'[u].read # Desk!NoCall, task'[u].read.op = "revoke"
                 PROVE  task'[u].read.on \in deskCrossed' \/ token'[task'[u].read.on].revoked
      BY DEF StaleKnown
    <3>1. task[u].read = task'[u].read /\ task[u].read.on \in Desk!Token
      BY <2>1 DEF Alike, Fit, ReadFits, CallsFit
    <3>2. CASE task'[u] = task[u]
      BY <2>1, <3>1, <3>2 DEF Fit, StaleKnown
    <3> QED  BY <3>1, <3>2
  <2>4. task'[u].at = "apply" => Knows(task[u].fresh.token)'
    BY <2>1 DEF Alike, Fit, Knows
  <2> QED  BY <1>4, <2>1, <2>2, <2>3, <2>4 DEF Fit, Alike
<1>7. AddsOnce'
  BY <1>2 DEF TInv, AddsOnce
<1>8. Undrawn'
  <2>1. \A u \in Task : \A p : Drawing(u, p) => Drawing(u, p)'
    BY DEF Drawing, Alike
  <2> QED  BY <2>1 DEF TInv, Undrawn
<1>9. Knows(rules.token)'
  BY DEF TInv, Knows
<1> QED  BY <1>5, <1>6, <1>7, <1>8, <1>9 DEF TInv, Jobs, Credentials

(* What a write does to the credentials. *)
LEMMA WritesToken ==
  ASSUME token \in Desk!Tokens, NEW c, Desk!Writes(c), c.op = "add" => c.who \in Person
  PROVE  /\ token' \in Desk!Tokens
         /\ \A k \in Desk!Token :
              \/ c.op = "add" /\ k = c.on /\ token'[k].owner = c.who /\ ~token'[k].revoked
              \/ token'[k].owner = token[k].owner /\ token'[k].revoked = token[k].revoked
         /\ c.op = "add" => \A k \in Desk!Token : k = c.on => token'[k].owner = c.who
<1>1. CASE UNCHANGED token /\ c.op # "add"
  <2>1. /\ token' \in Desk!Tokens
        /\ \A k \in Desk!Token : /\ token'[k].owner = token[k].owner
                                 /\ token'[k].revoked = token[k].revoked
    BY <1>1
  <2> QED  BY <1>1, <2>1
<1>2. CASE c.op \in {"disable", "enable"} /\ Desk!SetDisabled(c.on, c.op = "disable")
  <2>1. PICK off \in BOOLEAN : off = (c.op = "disable")
    OBVIOUS
  <2>2. token' = [token EXCEPT ![c.on] = [token[c.on] EXCEPT !.disabled = off]]
    BY <1>2, <2>1 DEF Desk!SetDisabled
  <2>3. \A k \in Desk!Token : /\ token[k] \in [owner : Person \cup {Nobody}, revoked : BOOLEAN,
                                                disabled : BOOLEAN]
                              /\ [token[k] EXCEPT !.disabled = off]
                                   \in [owner : Person \cup {Nobody}, revoked : BOOLEAN,
                                        disabled : BOOLEAN]
                              /\ [token[k] EXCEPT !.disabled = off].owner = token[k].owner
                              /\ [token[k] EXCEPT !.disabled = off].revoked = token[k].revoked
    BY DEF Desk!Tokens
  <2>4. \A k \in Desk!Token : token'[k] \in {token[k], [token[k] EXCEPT !.disabled = off]}
    BY <2>2 DEF Desk!Tokens
  <2>5. token' \in Desk!Tokens
    BY <2>2, <2>3 DEF Desk!Tokens
  <2>6. \A k \in Desk!Token : /\ token'[k].owner = token[k].owner
                              /\ token'[k].revoked = token[k].revoked
    BY <2>3, <2>4
  <2> QED  BY <1>2, <2>5, <2>6
<1>3. CASE c.op = "add" /\ Desk!AddToken(c.on, c.who)
  BY <1>3 DEF Desk!AddToken, Desk!Tokens
<1> QED  BY <1>1, <1>2, <1>3 DEF Desk!Writes, Desk!SetField, Desk!ChangesWhitelist

LEMMA UndoesToken ==
  ASSUME token \in Desk!Tokens, NEW c, Desk!Undoes(c), c.op \in Desk!Guarded
  PROVE  /\ token' \in Desk!Tokens
         /\ \A k \in Desk!Token : /\ token'[k].owner = token[k].owner
                                  /\ token[k].revoked => token'[k].revoked
                                  /\ c.op = "revoke" /\ k = c.on => token'[k].revoked
                                  /\ token'[k].revoked => token[k].revoked \/ (c.op = "revoke" /\ k = c.on)
<1>1. CASE UNCHANGED token /\ c.op = "ungrant"
  BY <1>1
<1>2. CASE c.op = "revoke" /\ Desk!SetRevoked(c.on)
  <2>1. token' = [token EXCEPT ![c.on] = [token[c.on] EXCEPT !.revoked = TRUE]]
    BY <1>2 DEF Desk!SetRevoked
  <2> QED  BY <1>2, <2>1 DEF Desk!Tokens
<1> QED  BY <1>1, <1>2 DEF Desk!Undoes, Desk!Guarded

LEMMA MakesInv ==
  ASSUME PanelConstants, TInv, NEW t \in Task, NEW c \in task[t].calls, Desk!Makes(t, c)
  PROVE  TInv' /\ Desk!RevokedStays
<1>1. /\ token \in Desk!Tokens /\ \A k \in Desk!Token : token[k].revoked => Born(k)
      /\ Fit(task[t]) /\ IsJob(task[t])
      /\ task[t].at = "calls" /\ c.op \notin Desk!Guarded /\ Desk!Writes(c)
  BY DEF TInv, Credentials, Jobs, Fit, Desk!Makes, Desk!At
<1>2. c.op = "add" => c.on \in Desk!Token /\ c.who \in Person /\ ~Born(c.on) /\ c.who # Nobody
  BY <1>1 DEF Fit, CallsFit, PanelConstants, Desk!PeopleAssumption
<1>3. /\ token' \in Desk!Tokens
      /\ \A k \in Desk!Token :
           /\ Born(k) => Born(k)'
           /\ token[k].revoked => token'[k].revoked
           /\ token'[k].revoked => Born(k)'
           /\ Born(k)' => Born(k) \/ (c.op = "add" /\ k = c.on)
      /\ c.op = "add" => Born(c.on)'
  BY <1>1, <1>2, WritesToken DEF Born
<1>4. UNCHANGED <<rules, redrawing, unseen, answered, slipped>> /\ deskCrossed \subseteq deskCrossed'
  BY DEF Desk!Makes
<1>5. Desk!RevokedUnlessCrossed' /\ answered' \subseteq Desk!Token
  BY <1>3, <1>4 DEF TInv, Desk!RevokedUnlessCrossed
<1>6. /\ task' = [u \in Task |-> task'[u]] /\ task'[t] = Desk!Done(t, c)
      /\ \A u \in Task \ {t} :
           /\ Alike(task'[u], task[u])
           /\ \/ task'[u] = task[u]
              \/ /\ task[u].read # Desk!NoCall
                 /\ task[u].read.op = "revoke" =>
                      task[u].read.on \in deskCrossed' \/ token'[task[u].read.on].revoked
  <2>1. CASE c.op \in {"disable", "enable"}
    <3>1. task' = Desk!Outdated([task EXCEPT ![t] = Desk!Done(t, c)], c) /\ deskCrossed' = deskCrossed \cup Desk!Crosses(c, t)
      BY <2>1 DEF Desk!Makes
    <3>2. Jobs
      BY DEF TInv
    <3>3. /\ task' = [u \in Task |-> task'[u]] /\ task'[t] = Desk!Done(t, c)
          /\ \A u \in Task \ {t} :
               /\ Alike(task'[u], task[u])
               /\ \/ task'[u] = task[u]
                  \/ task[u].read # Desk!NoCall /\ Desk!SameDocument(task[u].read, c)
      BY <3>1, <3>2, OutdatedParts
    <3>4. ASSUME NEW u \in Task \ {t}, Desk!SameDocument(task[u].read, c), task[u].read.op = "revoke"
          PROVE  task[u].read.on \in deskCrossed'
      BY <3>1, <3>4 DEF Desk!Crosses, Desk!SameDocument
    <3> QED  BY <3>3, <3>4
  <2>2. CASE c.op \notin {"disable", "enable"}
    <3>1. task' = [task EXCEPT ![t] = Desk!Done(t, c)]
      BY <2>2 DEF Desk!Makes
    <3>2. \A u \in Task : IsJob(task[u])
      BY DEF TInv, Jobs, Fit
    <3> QED  BY <3>1, <3>2 DEF TInv, Jobs, Alike
  <2> QED  BY <2>1, <2>2
<1>7. TInv'
  BY <1>1, <1>3, <1>4, <1>5, <1>6, StoreInv
<1> QED  BY <1>3, <1>7 DEF Desk!RevokedStays

LEMMA CommitsInv ==
  ASSUME PanelConstants, TInv, NEW t \in Task, Desk!CommitsDocument(t)
  PROVE  TInv' /\ Desk!RevokedStays
<1>0. PICK c : c = task[t].read
  OBVIOUS
<1>1. /\ token \in Desk!Tokens /\ \A k \in Desk!Token : token[k].revoked => Born(k)
      /\ Fit(task[t]) /\ IsJob(task[t])
      /\ task[t].at = "calls" /\ c # Desk!NoCall
      /\ answered' = answered \cup Desk!Answers(c)
      /\ UNCHANGED <<rules, redrawing, unseen, deskCrossed>> /\ slipped \subseteq slipped'
  BY <1>0 DEF TInv, Credentials, Jobs, Fit, Desk!CommitsDocument, Desk!At
<1>2. /\ c \in task[t].calls /\ c.op \in Desk!Guarded /\ c.op # "add"
      /\ c.op = "revoke" => c.on \in Desk!Token /\ Born(c.on)
  BY <1>0, <1>1 DEF Fit, CallsFit, ReadFits, Desk!Guarded
<1> DEFINE Nothing == /\ UNCHANGED token /\ task' = [task EXCEPT ![t] = Desk!Done(t, c)]
                      /\ task[t].stale \/ slipped' = slipped \cup Desk!Answers(c)
           Undone  == Desk!Undoes(c) /\ task' = Desk!Outdated([task EXCEPT ![t] = Desk!Done(t, c)], c)
<1>3. Nothing \/ Undone
  BY <1>0 DEF Desk!CommitsDocument, Desk!store
<1>4. task[t].stale /\ c.op = "revoke" => c.on \in deskCrossed \/ token[c.on].revoked
  BY <1>0, <1>1 DEF Fit, StaleKnown
<1>5. /\ token' \in Desk!Tokens
      /\ \A k \in Desk!Token :
           /\ Born(k) => Born(k)'
           /\ token[k].revoked => token'[k].revoked
           /\ token'[k].revoked => Born(k)'
           /\ Born(k)' => Born(k) \/ (c.op = "add" /\ k = c.on)
      /\ c.op = "revoke" => c.on \in deskCrossed \cup slipped' \/ token'[c.on].revoked
  <2>1. CASE Nothing
    BY <1>1, <1>4, <2>1 DEF Born, Desk!Answers
  <2>2. CASE Undone
    BY <1>1, <1>2, <2>2, UndoesToken DEF Born
  <2> QED  BY <1>3, <2>1, <2>2
<1>6. Desk!RevokedUnlessCrossed' /\ answered' \subseteq Desk!Token
  BY <1>1, <1>2, <1>5 DEF TInv, Desk!RevokedUnlessCrossed, Desk!Answers
<1>7. /\ task' = [u \in Task |-> task'[u]] /\ task'[t] = Desk!Done(t, c)
      /\ \A u \in Task \ {t} :
           /\ Alike(task'[u], task[u])
           /\ \/ task'[u] = task[u]
              \/ /\ task[u].read # Desk!NoCall
                 /\ task[u].read.op = "revoke" =>
                      task[u].read.on \in deskCrossed' \/ token'[task[u].read.on].revoked
  <2>1. CASE Undone
    <3>1. task' = Desk!Outdated([task EXCEPT ![t] = Desk!Done(t, c)], c) /\ Desk!Undoes(c)
      BY <2>1
    <3>2. Jobs
      BY DEF TInv
    <3>3. /\ task' = [u \in Task |-> task'[u]] /\ task'[t] = Desk!Done(t, c)
          /\ \A u \in Task \ {t} :
               /\ Alike(task'[u], task[u])
               /\ \/ task'[u] = task[u]
                  \/ task[u].read # Desk!NoCall /\ Desk!SameDocument(task[u].read, c)
      BY <3>1, <3>2, OutdatedParts
    <3>4. ASSUME NEW u \in Task \ {t}, Desk!SameDocument(task[u].read, c), task[u].read.op = "revoke"
          PROVE  token'[task[u].read.on].revoked
      <4>1. c.op = "revoke" /\ c.on = task[u].read.on
        BY <1>2, <3>4 DEF Desk!SameDocument, Desk!Guarded
      <4> QED  BY <1>1, <1>2, <3>1, <4>1, UndoesToken
    <3> QED  BY <3>3, <3>4
  <2>2. CASE Nothing
    <3>1. task' = [task EXCEPT ![t] = Desk!Done(t, c)]
      BY <2>2
    <3>2. \A u \in Task : IsJob(task[u])
      BY DEF TInv, Jobs, Fit
    <3> QED  BY <3>1, <3>2 DEF TInv, Jobs, Alike
  <2> QED  BY <1>3, <2>1, <2>2
<1>8. TInv'
  BY <1>1, <1>2, <1>5, <1>6, <1>7, StoreInv
<1> QED  BY <1>5, <1>8 DEF Desk!RevokedStays

(* The task goes on with calls it had. *)
LEMMA GoesOnTelling ==
  ASSUME TInv, NEW t \in Task,
         UNCHANGED <<token, deskCrossed, rules, redrawing, unseen>>, Promises',
         task[t].at \notin {"draw", "publish"},
         task' = [task EXCEPT ![t] = task'[t]], IsJob(task'[t]),
         task'[t].calls \subseteq task[t].calls,
         ~task'[t].stale,
         task'[t].read # Desk!NoCall =>
           task'[t].read \in task'[t].calls /\ task'[t].read.op \in Desk!Guarded,
         MintDue(task'[t]),
         task'[t].at = "apply" => Knows(task'[t].fresh.token)
  PROVE  TInv'
<1>1. Fit(task'[t])
  <2>1. Fit(task[t])
    BY DEF TInv, Jobs
  <2>2. CallsFit(task'[t].calls)
    BY <2>1 DEF Fit, CallsFit
  <2> QED  BY <2>2 DEF Fit, ReadFits, StaleKnown
<1>2. \A c, d \in task'[t].calls :
        c.op = "add" => /\ c \in task[t].calls \/ Desk!Unused(c.on)
                        /\ d.op = "add" /\ c.on = d.on => c = d
  BY DEF TInv, AddsOnce
<1>3. Undrawn'
  BY DrawsOn
<1>4. Knows(rules'.token)
  BY DEF TInv
<1> QED  BY <1>1, <1>2, <1>3, <1>4, OneJobTelling

LEMMA GoesOn ==
  ASSUME TInv, NEW t \in Task,
         UNCHANGED <<token, answered, deskCrossed, slipped, rules, redrawing, unseen>>,
         task[t].at \notin {"draw", "publish"},
         task' = [task EXCEPT ![t] = task'[t]], IsJob(task'[t]),
         task'[t].calls \subseteq task[t].calls,
         ~task'[t].stale,
         task'[t].read # Desk!NoCall =>
           task'[t].read \in task'[t].calls /\ task'[t].read.op \in Desk!Guarded,
         MintDue(task'[t]),
         task'[t].at = "apply" => Knows(task'[t].fresh.token)
  PROVE  TInv'
  BY SamePromises, GoesOnTelling

LEMMA ReadsInv ==
  ASSUME TInv, NEW t \in Task, NEW c \in task[t].calls, Desk!ReadsDocument(t, c)
  PROVE  TInv'
<1>1. /\ IsJob(task[t]) /\ Fit(task[t]) /\ task[t].at = "calls" /\ task[t].read = Desk!NoCall
      /\ c.op \in Desk!Guarded
      /\ UNCHANGED <<token, deskCrossed, slipped, rules, redrawing, unseen>>
  BY DEF TInv, Jobs, Fit, Desk!ReadsDocument, Desk!At, Desk!store, Desk!promised
<1>2. CASE Desk!ToUndo(c)
  <2>1. task' = [task EXCEPT ![t] = [task[t] EXCEPT !.read = c]] /\ UNCHANGED answered
    BY <1>2 DEF Desk!ReadsDocument
  <2>2. task'[t] = [task[t] EXCEPT !.read = c]
    BY <2>1 DEF TInv, Jobs
  <2>3. /\ IsJob(task'[t]) /\ task'[t].at = "calls" /\ task'[t].calls = task[t].calls
        /\ task'[t].read = c /\ task'[t].kind = task[t].kind /\ task'[t].mints = task[t].mints
        /\ task'[t].stale = task[t].stale
    BY <1>1, <2>2 DEF IsJob
  <2>4. ~task'[t].stale /\ MintDue(task'[t])
    BY <1>1, <2>3 DEF Fit, ReadFits, MintDue
  <2>5. task' = [task EXCEPT ![t] = task'[t]]
    BY <2>1, <2>2
  <2> QED  BY <1>1, <2>1, <2>3, <2>4, <2>5, GoesOn
<1>3. CASE ~Desk!ToUndo(c)
  <2>1. task' = [task EXCEPT ![t] = Desk!Done(t, c)] /\ answered' = answered \cup Desk!Answers(c)
    BY <1>3 DEF Desk!ReadsDocument
  <2>2. c.op # "add" /\ (c.op = "revoke" => c.on \in Desk!Token /\ token[c.on].revoked)
    BY <1>1, <1>3 DEF Fit, CallsFit, Desk!Guarded, Desk!ToUndo, Desk!LiveOnes, Desk!Minted, Born
  <2>3. Desk!RevokedUnlessCrossed' /\ answered' \subseteq Desk!Token
    BY <1>1, <2>1, <2>2 DEF TInv, Desk!RevokedUnlessCrossed, Desk!Answers
  <2>4. /\ task' = [u \in Task |-> task'[u]] /\ task'[t] = Desk!Done(t, c)
        /\ \A u \in Task \ {t} : task'[u] = task[u] /\ Alike(task'[u], task[u])
    BY <2>1 DEF TInv, Jobs, Fit, Alike
  <2>5. /\ token' \in Desk!Tokens
        /\ \A k \in Desk!Token : /\ Born(k)' = Born(k) /\ token'[k] = token[k]
                                 /\ token[k].revoked => Born(k)
    BY <1>1 DEF TInv, Credentials, Born
  <2> QED  BY <1>1, <2>2, <2>3, <2>4, <2>5, StoreInv
<1> QED  BY <1>2, <1>3

LEMMA FailsInv ==
  ASSUME TInv, NEW t \in Task, NEW c \in task[t].calls, Desk!FailsCall(t, c)
  PROVE  TInv'
<1>1. /\ IsJob(task[t]) /\ Fit(task[t]) /\ task[t].at = "calls"
      /\ UNCHANGED <<token, deskCrossed, rules, redrawing, unseen>>
  BY DEF TInv, Jobs, Fit, Desk!FailsCall, Desk!At, Desk!store, Desk!promised
<1>2. Promises'
  <2> DEFINE said == Desk!SaysRevoked(t, c)
  <2>1. answered' = answered \cup said /\ slipped' = slipped \cup said
    BY DEF Desk!FailsCall
  <2>2. said \subseteq Desk!Token
    BY <1>1 DEF Fit, CallsFit, Desk!SaysRevoked, Desk!Answers
  <2> HIDE DEF said
  <2> QED  BY <1>1, <2>1, <2>2 DEF TInv, Promises, Desk!RevokedUnlessCrossed
<1>3. CASE task[t].kind \in {"toggle", "mint", "command"}
  <2>1. task' = [task EXCEPT ![t] = Desk!Idle]
    BY <1>3 DEF Desk!FailsCall
  <2>2. task'[t] = Desk!Idle
    BY <2>1 DEF TInv, Jobs
  <2>3. MintDue(task'[t]) /\ ~task'[t].stale
    BY <2>2, IdleFits DEF Fit, ReadFits
  <2> QED  BY <1>1, <1>2, <2>1, <2>2, <2>3, IdleFits, GoesOnTelling
<1>4. CASE task[t].kind \notin {"toggle", "mint", "command"}
  <2> DEFINE left == {d \in task[t].calls : d.who # c.who}
             j    == [task[t] EXCEPT !.calls = left, !.read = Desk!NoCall, !.stale = FALSE]
  <2>0. task' = [task EXCEPT ![t] = IF task[t].kind \in {"toggle", "mint", "command"} THEN Desk!Idle
                                    ELSE j]
    BY DEF Desk!FailsCall
  <2> HIDE DEF j
  <2>1. task' = [task EXCEPT ![t] = j]
    BY <1>4, <2>0
  <2>2. task'[t] = [task[t] EXCEPT !.calls = left, !.read = Desk!NoCall, !.stale = FALSE]
    BY <2>1 DEF TInv, Jobs, j
  <2>3. /\ IsJob(task'[t]) /\ task'[t].at = "calls" /\ task'[t].calls \subseteq task[t].calls
        /\ task'[t].read = Desk!NoCall /\ task'[t].kind = task[t].kind /\ ~task'[t].stale
    BY <1>1, <2>2 DEF IsJob
  <2>4. MintDue(task'[t]) /\ task' = [task EXCEPT ![t] = task'[t]]
    BY <1>4, <2>1, <2>2, <2>3 DEF MintDue
  <2> QED  BY <1>1, <1>2, <2>3, <2>4, GoesOnTelling
<1> QED  BY <1>3, <1>4

----------------------------------------------------------------------------
(* What follows the calls *)

LEMMA DeliversInv ==
  ASSUME TInv, NEW t \in Task, NEW works \in BOOLEAN, Desk!Delivers(t, works)
  PROVE  TInv'
<1>1. /\ IsJob(task[t]) /\ Fit(task[t]) /\ task[t].at = "calls" /\ task[t].calls = {}
      /\ task[t].kind = "mint"
      /\ UNCHANGED <<token, answered, deskCrossed, slipped, rules, redrawing, unseen>>
  BY DEF TInv, Jobs, Fit, Desk!Delivers, Desk!CallsMade, Desk!At, Desk!store, Desk!promised
<1>2. task[t].read = Desk!NoCall /\ ~task[t].stale /\ task[t].mints \in Desk!Token /\ Born(task[t].mints)
  BY <1>1 DEF Fit, ReadFits, MintDue
<1>3. CASE works
  <2>1. task' = [task EXCEPT ![t] = [task[t] EXCEPT !.kind = "tab"]]
    BY <1>3 DEF Desk!Delivers
  <2>2. task'[t] = [task[t] EXCEPT !.kind = "tab"]
    BY <2>1 DEF TInv, Jobs
  <2>3. /\ IsJob(task'[t]) /\ task'[t].at = "calls" /\ task'[t].calls = {}
        /\ task'[t].read = Desk!NoCall /\ task'[t].kind = "tab" /\ ~task'[t].stale
    BY <1>1, <1>2, <2>2 DEF IsJob
  <2>4. MintDue(task'[t]) /\ task' = [task EXCEPT ![t] = task'[t]]
    BY <2>1, <2>2, <2>3 DEF MintDue
  <2> QED  BY <1>1, <2>3, <2>4, GoesOn
<1>4. CASE ~works
  <2> DEFINE calls == Desk!Revokes(task[t].by, {task[t].mints})
  <2>1. task' = [task EXCEPT ![t] = [task[t] EXCEPT !.kind = "tab", !.calls = calls]]
    BY <1>4 DEF Desk!Delivers
  <2>2. Plain(calls)
    BY <1>2, RevokesPlain
  <2> HIDE DEF calls
  <2>3. task'[t] = [task[t] EXCEPT !.kind = "tab", !.calls = calls]
    BY <2>1 DEF TInv, Jobs
  <2>4. /\ IsJob(task'[t]) /\ task'[t].at = "calls" /\ task'[t].calls = calls
        /\ task'[t].read = Desk!NoCall /\ task'[t].kind = "tab" /\ ~task'[t].stale
    BY <1>1, <1>2, <2>3 DEF IsJob
  <2>5. Fit(task'[t]) /\ \A c \in task'[t].calls : c.op # "add"
    BY <2>2, <2>4, PlainFits DEF Fit, ReadFits, StaleKnown, MintDue
  <2>6. Undrawn' /\ task' = [task EXCEPT ![t] = task'[t]]
    BY <1>1, <2>1, <2>3, DrawsOn
  <2>7. Knows(rules'.token)
    BY <1>1 DEF TInv
  <2> QED  BY <1>1, <2>5, <2>6, <2>7, OneJob
<1> QED  BY <1>3, <1>4

LEMMA EndsInv == ASSUME TInv, NEW t \in Task, Desk!Ends(t) PROVE TInv'
<1>1. /\ task' = [task EXCEPT ![t] = Desk!Idle] /\ task[t].at = "calls"
      /\ UNCHANGED <<token, answered, deskCrossed, slipped, rules, redrawing, unseen>>
  BY DEF Desk!Ends, Desk!CallsMade, Desk!At, Desk!store, Desk!promised
<1>2. task'[t] = Desk!Idle
  BY <1>1 DEF TInv, Jobs
<1>3. MintDue(task'[t]) /\ ~task'[t].stale
  BY <1>2, IdleFits DEF Fit, ReadFits
<1> QED  BY <1>1, <1>2, <1>3, IdleFits, GoesOn

LEMMA LoadsInv == ASSUME TInv, NEW t \in Task, Desk!Loads(t) PROVE TInv'
<1>1. /\ IsJob(task[t]) /\ Fit(task[t]) /\ task[t].at = "calls" /\ task[t].calls = {}
      /\ UNCHANGED <<token, answered, deskCrossed, slipped, rules, redrawing, unseen>>
  BY DEF TInv, Jobs, Fit, Desk!Loads, Desk!CallsMade, Desk!At, Desk!store, Desk!promised
<1>2. task[t].read = Desk!NoCall /\ ~task[t].stale
  BY <1>1 DEF Fit, ReadFits
<1>3. CASE task' = [task EXCEPT ![t].at = "apply",
                                ![t].fresh = [rights |-> rights, token |-> token]]
  <2> DEFINE f == [rights |-> rights, token |-> token]
  <2>1. task' = [task EXCEPT ![t] = [task[t] EXCEPT !.at = "apply", !.fresh = f]]
    BY <1>3
  <2>2. f.token = token
    OBVIOUS
  <2> HIDE DEF f
  <2>3. task'[t] = [task[t] EXCEPT !.at = "apply", !.fresh = f]
    BY <2>1 DEF TInv, Jobs
  <2>4. /\ IsJob(task'[t]) /\ task'[t].at = "apply" /\ task'[t].calls = {}
        /\ task'[t].read = Desk!NoCall /\ task'[t].fresh = f /\ ~task'[t].stale
    BY <1>1, <1>2, <2>3 DEF IsJob
  <2>5. MintDue(task'[t]) /\ Knows(task'[t].fresh.token) /\ task' = [task EXCEPT ![t] = task'[t]]
    BY <2>1, <2>2, <2>3, <2>4 DEF MintDue, Knows, Born
  <2> QED  BY <1>1, <2>4, <2>5, GoesOn
<1>4. CASE task' = [task EXCEPT ![t].at = "draw"]
  <2>1. task' = [task EXCEPT ![t] = [task[t] EXCEPT !.at = "draw"]]
    BY <1>4
  <2>2. task'[t] = [task[t] EXCEPT !.at = "draw"]
    BY <2>1 DEF TInv, Jobs
  <2>3. /\ IsJob(task'[t]) /\ task'[t].at = "draw" /\ task'[t].calls = {}
        /\ task'[t].read = Desk!NoCall /\ ~task'[t].stale
    BY <1>1, <1>2, <2>2 DEF IsJob
  <2>4. MintDue(task'[t]) /\ task' = [task EXCEPT ![t] = task'[t]]
    BY <2>1, <2>2, <2>3 DEF MintDue
  <2> QED  BY <1>1, <2>3, <2>4, GoesOn
<1> QED  BY <1>3, <1>4 DEF Desk!Loads

LEMMA AppliesInv == ASSUME TInv, NEW t \in Task, Desk!Applies(t) PROVE TInv'
<1>0. PICK none : none = Desk!NoRules
  OBVIOUS
<1>1. /\ IsJob(task[t]) /\ Fit(task[t]) /\ task[t].at = "apply"
      /\ UNCHANGED <<token, answered, deskCrossed, slipped, redrawing, unseen>>
      /\ rules' = task[t].fresh
      /\ task' = [task EXCEPT ![t] = [task[t] EXCEPT !.at = "draw", !.fresh = none]]
  BY <1>0 DEF TInv, Jobs, Fit, Desk!Applies, Desk!At, Desk!store, Desk!promised
<1>2. task'[t] = [task[t] EXCEPT !.at = "draw", !.fresh = none]
  BY <1>1 DEF TInv, Jobs
<1>3. /\ IsJob(task'[t]) /\ task'[t].at = "draw" /\ task'[t].calls = task[t].calls
      /\ task'[t].read = task[t].read /\ task'[t].stale = task[t].stale
  <2>1. IsJob(task[t])
    BY <1>1
  <2> QED  BY <1>2, <2>1 DEF IsJob
<1>4. Fit(task'[t])
  BY <1>1, <1>3 DEF Fit, CallsFit, MintDue, ReadFits, StaleKnown
<1>5. Knows(rules'.token)
  BY <1>1 DEF Fit
<1>6. Undrawn' /\ task' = [task EXCEPT ![t] = task'[t]]
  BY <1>1, <1>2, DrawsOn
<1>7. \A c, d \in task'[t].calls :
        c.op = "add" => /\ c \in task[t].calls \/ Desk!Unused(c.on)
                        /\ d.op = "add" /\ c.on = d.on => c = d
  BY <1>3 DEF TInv, AddsOnce
<1> QED  BY <1>1, <1>4, <1>5, <1>6, <1>7, OneJob

----------------------------------------------------------------------------
(* Drawing *)

(* A task that draws: it has no calls left to write for. *)
LEMMA DrawFits ==
  ASSUME TInv, NEW t \in Task, UNCHANGED <<token, answered, deskCrossed, slipped, rules>>,
         task' = [task EXCEPT ![t] = task'[t]], IsJob(task'[t]),
         task'[t].at \in {"idle", "draw", "publish"},
         \/ task'[t].calls = {} /\ task'[t].read = Desk!NoCall /\ ~task'[t].stale
         \/ /\ task'[t].calls = task[t].calls /\ task'[t].read = task[t].read
            /\ task'[t].stale = task[t].stale,
         Undrawn'
  PROVE  TInv'
<1>1. Fit(task[t])
  BY DEF TInv, Jobs
<1>2. Fit(task'[t])
  BY <1>1 DEF Fit, CallsFit, MintDue, ReadFits, StaleKnown
<1>3. \A c, d \in task'[t].calls :
        c.op = "add" => /\ c \in task[t].calls \/ Desk!Unused(c.on)
                        /\ d.op = "add" /\ c.on = d.on => c = d
  BY DEF TInv, AddsOnce
<1>4. Knows(rules'.token)
  BY DEF TInv
<1> QED  BY <1>2, <1>3, <1>4, OneJob

(* A free task begins to draw. *)
LEMMA DrawParts ==
  ASSUME NEW people, NEW j, j = [Desk!Idle EXCEPT !.at = "draw", !.draw = people]
  PROVE  /\ IsJob(j) /\ j.at = "draw" /\ j.draw = people
         /\ j.calls = {} /\ j.read = Desk!NoCall /\ ~j.stale
  BY DEF Desk!Idle, IsJob

LEMMA PutsTogetherInv == ASSUME TInv, NEW t \in Task, Desk!PutsTogether(t) PROVE TInv'
<1>1. PICK p, v : /\ p = CHOOSE q \in task[t].draw : TRUE
                  /\ v = Desk!View(p)
  OBVIOUS
<1>2. /\ IsJob(task[t]) /\ task[t].at = "draw"
      /\ UNCHANGED <<token, answered, deskCrossed, slipped, rules, redrawing>>
      /\ unseen' = [n \in Node |-> unseen[n] \ {p}]
  <2>1. IsJob(task[t]) /\ task[t].at = "draw"
    <3>1. task[t].at = "draw"
      BY Zenon DEF Desk!PutsTogether, Desk!At
    <3> QED  BY <3>1 DEF TInv, Jobs, Fit
  <2>2. UNCHANGED <<token, answered, deskCrossed, slipped, rules, redrawing>>
    BY DEF Desk!PutsTogether, Desk!store, Desk!promised
  <2>3. unseen' = [n \in Node |-> unseen[n] \ {p}]
    BY <1>1 DEF Desk!PutsTogether
  <2> QED  BY <2>1, <2>2, <2>3
<1>3. task' = [task EXCEPT ![t] = [task[t] EXCEPT !.at = "publish", !.draw = task[t].draw \ {p},
                                                  !.whose = p, !.view = v]]
  BY <1>1 DEF Desk!PutsTogether
<1>4. task'[t] = [task[t] EXCEPT !.at = "publish", !.draw = task[t].draw \ {p},
                                 !.whose = p, !.view = v]
  BY <1>3 DEF TInv, Jobs
<1>5. /\ IsJob(task'[t]) /\ task'[t].at = "publish" /\ task'[t].draw = task[t].draw \ {p}
      /\ task'[t].calls = task[t].calls /\ task'[t].read = task[t].read
      /\ task'[t].stale = task[t].stale
  <2>1. IsJob(task[t])
    BY <1>2
  <2> QED  BY <1>4, <2>1 DEF IsJob
<1>6. task' = [task EXCEPT ![t] = task'[t]]
  BY <1>3, <1>4
<1>7. Undrawn'
  <2>1. \A u \in Task \ {t} : task'[u] = task[u]
    BY <1>3 DEF TInv, Jobs
  <2>2. \A u \in Task : \A q : q # p /\ Drawing(u, q) => Drawing(u, q)'
    BY <1>5, <2>1 DEF Drawing
  <2> QED  BY <1>2, <2>2 DEF TInv, Undrawn
<1> QED  BY <1>2, <1>5, <1>6, <1>7, DrawFits

LEMMA PublishesInv == ASSUME TInv, NEW t \in Task, Desk!Publishes(t) PROVE TInv'
<1>0. PICK people : people = task[t].draw
  OBVIOUS
<1> DEFINE next == [Desk!Idle EXCEPT !.at = "draw", !.draw = people]
<1>1. /\ task[t].at = "publish" /\ next = [Desk!Idle EXCEPT !.at = "draw", !.draw = people]
      /\ UNCHANGED <<token, answered, deskCrossed, slipped, rules, redrawing, unseen>>
      /\ task' = [task EXCEPT ![t] = IF next.draw = {} THEN Desk!Idle ELSE next]
  BY <1>0 DEF Desk!Publishes, Desk!At, Desk!store, Desk!promised
<1>10. next = [Desk!Idle EXCEPT !.at = "draw", !.draw = people]
  OBVIOUS
<1> HIDE DEF next
<1>11. /\ IsJob(next) /\ next.at = "draw" /\ next.draw = people
      /\ next.calls = {} /\ next.read = Desk!NoCall /\ ~next.stale
  BY <1>10, DrawParts
<1>2. /\ IsJob(next) /\ next.at = "draw" /\ next.draw = task[t].draw
      /\ next.calls = {} /\ next.read = Desk!NoCall /\ ~next.stale
  BY <1>0, <1>11
<1>3. task'[t] = IF next.draw = {} THEN Desk!Idle ELSE next
  BY <1>1 DEF TInv, Jobs
<1>4. /\ IsJob(task'[t]) /\ task'[t].at \in {"idle", "draw"}
      /\ task'[t].calls = {} /\ task'[t].read = Desk!NoCall /\ ~task'[t].stale
      /\ task[t].draw # {} => task'[t].at = "draw" /\ task'[t].draw = task[t].draw
  BY <1>2, <1>3, IdleFits DEF Fit, ReadFits
<1>5. Undrawn' /\ task' = [task EXCEPT ![t] = task'[t]]
  BY <1>1, <1>3, <1>4, DrawsOn
<1> QED  BY <1>1, <1>4, <1>5, DrawFits

LEMMA OpensTabInv == ASSUME TInv, NEW t \in Task, NEW p, Desk!OpensTab(t, p) PROVE TInv'
<1> DEFINE j == [Desk!Idle EXCEPT !.at = "draw", !.draw = {p}]
<1>1. /\ task[t] = Desk!Idle /\ task' = [task EXCEPT ![t] = j]
      /\ j = [Desk!Idle EXCEPT !.at = "draw", !.draw = {p}]
      /\ UNCHANGED <<token, answered, deskCrossed, slipped, rules, redrawing, unseen>>
  BY DEF Desk!OpensTab, Desk!Free, Desk!store, Desk!promised
<1> HIDE DEF j
<1>2. IsJob(j) /\ j.at = "draw" /\ j.calls = {} /\ j.read = Desk!NoCall /\ ~j.stale
  BY <1>1, DrawParts
<1>3. task'[t] = j
  BY <1>1 DEF TInv, Jobs
<1>4. Undrawn' /\ task' = [task EXCEPT ![t] = task'[t]]
  BY <1>1, <1>3, IdleFits, DrawsOn
<1> QED  BY <1>1, <1>2, <1>3, <1>4, DrawFits

LEMMA RedrawsInv ==
  ASSUME TInv, NEW t \in Task, NEW n \in Node, Desk!Redraws(t, n)
  PROVE  TInv'
<1>0. PICK viewers : viewers = Desk!Viewers(n)
  OBVIOUS
<1> DEFINE j == [Desk!Idle EXCEPT !.at = "draw", !.draw = viewers]
<1>1. /\ task[t] = Desk!Idle /\ task' = [task EXCEPT ![t] = j]
      /\ j = [Desk!Idle EXCEPT !.at = "draw", !.draw = viewers]
      /\ UNCHANGED <<token, answered, deskCrossed, slipped, rules>>
      /\ redrawing' = redrawing \ {n}
      /\ unseen' = [unseen EXCEPT ![n] = @ \cap viewers]
  BY <1>0 DEF Desk!Redraws, Desk!Free, Desk!store, Desk!promised
<1> HIDE DEF j
<1>2. /\ IsJob(j) /\ j.at = "draw" /\ j.draw = viewers
      /\ j.calls = {} /\ j.read = Desk!NoCall /\ ~j.stale
  BY <1>1, DrawParts
<1>3. task'[t] = j /\ task' = [task EXCEPT ![t] = task'[t]]
      /\ \A u \in Task \ {t} : task'[u] = task[u]
  BY <1>1 DEF TInv, Jobs
<1>4. Undrawn'
  <2>1. /\ unseen' = [m \in Node |-> unseen'[m]]
        /\ unseen'[n] = unseen[n] \cap viewers
        /\ \A m \in Node \ {n} : unseen'[m] = unseen[m]
    BY <1>1 DEF TInv, Undrawn
  <2>2. \A u \in Task : \A p : Drawing(u, p) => Drawing(u, p)'
    BY <1>1, <1>3, IdleFits DEF Drawing
  <2>3. \A p \in viewers : Drawing(t, p)'
    BY <1>2, <1>3 DEF Drawing
  <2> QED  BY <1>1, <2>1, <2>2, <2>3 DEF TInv, Undrawn
<1> QED  BY <1>1, <1>2, <1>3, <1>4, DrawFits

(* Tasks stay as they are. *)
LEMMA ElseInv ==
  ASSUME TInv, UNCHANGED <<token, answered, deskCrossed, slipped, task>>, Knows(rules'.token), Undrawn'
  PROVE  TInv'
<1>1. Jobs' /\ AddsOnce' /\ Knows(rules.token)'
  BY DEF TInv, Jobs, AddsOnce, Fit, CallsFit, MintDue, ReadFits, StaleKnown, Knows, Born
<1>2. Credentials' /\ (answered \subseteq Desk!Token)' /\ Desk!RevokedUnlessCrossed'
  BY DEF TInv, Credentials, Born, Desk!RevokedUnlessCrossed
<1> QED  BY <1>1, <1>2 DEF TInv

LEMMA NodeChangesInv == ASSUME TInv, NEW n \in Node, Desk!NodeChanges(n) PROVE TInv'
<1>1. PICK viewers : /\ unseen' = [unseen EXCEPT ![n] = viewers]
                     /\ redrawing' = redrawing \cup {n}
                     /\ UNCHANGED <<token, answered, deskCrossed, slipped, task, rules>>
  BY DEF Desk!NodeChanges, Desk!MarksRow, Desk!store, Desk!promised
<1>2. Undrawn'
  BY <1>1 DEF TInv, Undrawn, Drawing
<1> QED  BY <1>1, <1>2, ElseInv DEF TInv

LEMMA OthersInv ==
  ASSUME TInv,
         Desk!Refreshes \/ UNCHANGED <<token, rules, redrawing, task, answered, deskCrossed, slipped, unseen>>
  PROVE  TInv'
<1>1. /\ UNCHANGED <<token, redrawing, task, answered, deskCrossed, slipped, unseen>>
      /\ UNCHANGED rules \/ rules' = [rights |-> rights, token |-> token]
  BY DEF Desk!Refreshes, Desk!store, Desk!promised
<1>2. Undrawn'
  BY <1>1 DEF TInv, Undrawn, Drawing
<1>3. Knows(rules'.token)
  BY <1>1 DEF TInv, Knows, Born
<1> QED  BY <1>1, <1>2, <1>3, ElseInv

----------------------------------------------------------------------------
(* Theorems about Panel *)

LEMMA PanelInitInv == ASSUME PanelConstants, Desk!Init PROVE TInv
<1>1. Credentials
  BY DEF Desk!Init, Credentials, Desk!Tokens, PanelConstants, Desk!TokenAssumption, Desk!Token
<1>2. /\ task = [t \in Task |-> Desk!Idle] /\ answered = {} /\ unseen = [n \in Node |-> {}]
      /\ rules = [rights |-> rights, token |-> token]
  BY DEF Desk!Init
<1>3. Jobs
  BY <1>2, IdleFits DEF Jobs
<1>4. AddsOnce
  BY <1>2, IdleFits DEF AddsOnce
<1>5. Knows(rules.token) /\ answered \subseteq Desk!Token /\ Desk!RevokedUnlessCrossed /\ Undrawn
  BY <1>2 DEF Knows, Born, Desk!RevokedUnlessCrossed, Undrawn
<1> QED  BY <1>1, <1>3, <1>4, <1>5 DEF TInv

LEMMA Unwritten == ASSUME TInv, UNCHANGED token PROVE Desk!RevokedStays
  BY DEF Desk!RevokedStays

LEMMA PanelNextInv ==
  ASSUME PanelConstants, TInv, [Desk!Next]_Desk!vars
  PROVE  TInv' /\ Desk!RevokedStays
<1>1. ASSUME NEW t \in Task, Desk!Step(t) PROVE TInv' /\ Desk!RevokedStays
  <2>1. ASSUME NEW c \in task[t].calls, Desk!ReadsDocument(t, c) \/ Desk!FailsCall(t, c)
        PROVE  TInv' /\ Desk!RevokedStays
    <3>1. UNCHANGED token
      BY <2>1 DEF Desk!ReadsDocument, Desk!FailsCall, Desk!store, Desk!promised
    <3> QED  BY <2>1, <3>1, ReadsInv, FailsInv, Unwritten
  <2>2. ASSUME NEW works \in BOOLEAN, Desk!Delivers(t, works) PROVE TInv' /\ Desk!RevokedStays
    <3>1. UNCHANGED token
      BY <2>2 DEF Desk!Delivers, Desk!store, Desk!promised
    <3> QED  BY <2>2, <3>1, DeliversInv, Unwritten
  <2>3. ASSUME Desk!Ends(t) \/ Desk!Loads(t) \/ Desk!Applies(t) \/ Desk!PutsTogether(t) \/ Desk!Publishes(t)
        PROVE  TInv' /\ Desk!RevokedStays
    <3>1. UNCHANGED token
      BY <2>3 DEF Desk!Ends, Desk!Loads, Desk!Applies, Desk!PutsTogether, Desk!Publishes, Desk!store, Desk!promised
    <3> QED  BY <2>3, <3>1, EndsInv, LoadsInv, AppliesInv, PutsTogetherInv,
               PublishesInv, Unwritten
  <2> QED  BY <1>1, <2>1, <2>2, <2>3, MakesInv, CommitsInv DEF Desk!Step
<1>2. ASSUME NEW t \in Task, Desk!Commands(t) PROVE TInv' /\ Desk!RevokedStays
  <2>1. UNCHANGED token
    BY <1>2 DEF Desk!Commands, Desk!Starts, Desk!store, Desk!promised
  <2> QED  BY <1>2, <2>1, CommandsInv, Unwritten
<1>3. ASSUME NEW t \in Task, NEW p \in Person, Desk!Clicks(t, p) \/ Desk!OpensTab(t, p)
      PROVE  TInv' /\ Desk!RevokedStays
  <2>1. UNCHANGED token
    BY <1>3 DEF Desk!Clicks, Desk!OpensTab, Desk!PicksMode, Desk!PicksAdmin, Desk!PicksPeople, Desk!ClicksRevoke,
               Desk!TogglesNode, Desk!RevokesNode, Desk!MintsNode, Desk!MintsClient, Desk!MintsFor, Desk!Starts, Desk!store, Desk!promised
  <2> QED  BY <1>3, <2>1, ClicksInv, OpensTabInv, Unwritten
<1>4. ASSUME NEW t \in Task, NEW n \in Node, Desk!Redraws(t, n) PROVE TInv' /\ Desk!RevokedStays
  <2>1. UNCHANGED token
    BY <1>4 DEF Desk!Redraws, Desk!store, Desk!promised
  <2> QED  BY <1>4, <2>1, RedrawsInv, Unwritten
<1>5. ASSUME NEW n \in Node, Desk!NodeChanges(n) PROVE TInv' /\ Desk!RevokedStays
  <2>1. UNCHANGED token
    BY <1>5 DEF Desk!NodeChanges, Desk!store, Desk!promised
  <2> QED  BY <1>5, <2>1, NodeChangesInv, Unwritten
<1>6. ASSUME \/ \E p \in Person : Desk!SubmitsInVain(p) \/ \E k \in Desk!Token : Desk!OpensModal(p, k)
             \/ Desk!Refreshes \/ UNCHANGED Desk!vars
      PROVE  TInv' /\ Desk!RevokedStays
  <2>1. UNCHANGED token
    BY <1>6 DEF Desk!SubmitsInVain, Desk!OpensModal, Desk!Refreshes, Desk!vars, Desk!store, Desk!promised
  <2>2. Desk!Refreshes \/ UNCHANGED <<token, rules, redrawing, task, answered, deskCrossed, slipped, unseen>>
    BY <1>6 DEF Desk!SubmitsInVain, Desk!OpensModal, Desk!vars, Desk!store, Desk!promised
  <2> QED  BY <2>1, <2>2, OthersInv, Unwritten
<1> QED  BY <1>1, <1>2, <1>3, <1>4, <1>5, <1>6 DEF Desk!Next

(* What an admin or an owner was told holds (`revoke`, `set_node_disabled` *)
(* of firestore.rs and admin.rs; `mint` and `redraw_node` of panel.rs): a  *)
(* credential that somebody was told is revoked is, unless its node was    *)
(* disabled or enabled while it was revoked, the store gave the write up   *)
(* for contention, or its token had not arrived and revoking it failed;    *)
(* and whoever's tab was put together before a node changed is drawn again.*)
THEOREM ToldAndDrawn ==
  ASSUME PanelConstants
  PROVE  Desk!Spec => [](Desk!RevokedUnlessCrossed /\ Desk!NoChangeUndrawn)
<1>1. Desk!Init => TInv
  BY PanelInitInv
<1>2. TInv /\ [Desk!Next]_Desk!vars => TInv'
  BY PanelNextInv
<1>3. TInv => Desk!RevokedUnlessCrossed /\ Desk!NoChangeUndrawn
  BY DEF TInv, Undrawn, Drawing, Desk!NoChangeUndrawn
<1> QED  BY <1>1, <1>2, <1>3, PTL DEF Desk!Spec

(* A revocation is for good, whatever calls write the documents of the     *)
(* store, in whatever order: no credential that was revoked is valid again *)
(* ("its token stops working for good", home.rs:636).                      *)
THEOREM NeverUnrevoked ==
  ASSUME PanelConstants
  PROVE  Desk!Spec => Desk!RevokedForGood
<1>1. Desk!Init => TInv
  BY PanelInitInv
<1>2. TInv /\ [Desk!Next]_Desk!vars => TInv'
  BY PanelNextInv
<1>3. TInv /\ [Desk!Next]_Desk!vars => [Desk!RevokedStays]_Desk!vars
  BY PanelNextInv
<1> QED  BY <1>1, <1>2, <1>3, PTL DEF Desk!Spec, Desk!RevokedForGood

----------------------------------------------------------------------------
(* What the constants are. *)
IntakeConstants ==
  /\ Talk!NullAssumption /\ Talk!MessageAssumption /\ Talk!KindAssumption
  /\ Talk!LetAssumption /\ Talk!BoundsAssumption

----------------------------------------------------------------------------
(* The inductive invariant of Intake *)

Turn == [on : BOOLEAN, queued : SUBSET Chat, node : Node \cup {NoNode}]
Seat == [at : {"idle", "seating", "opening", "prompting", "running", "closing"},
         user : Person \cup {Nobody}, batch : SUBSET Chat, node : Node \cup {NoNode},
         let : SUBSET Person, fresh : BOOLEAN, history : SUBSET Chat]
Gate == [at : {"new", "gating", "in", "done"}, saw : Node \cup {NoNode}]

(* Every variable keeps its type. *)
IntakeShapes ==
       /\ admits \in [Node -> SUBSET Person] /\ ever \in [Node -> SUBSET Person]
       /\ pin \in Node \cup {NoNode}
       /\ intakeTask \in [Chat -> Gate]
       /\ turn \in Turn
       /\ loop \in Seat
       /\ reached \subseteq Chat \X Node /\ steered \subseteq Chat \X Node
       /\ overheard \subseteq Chat \X Node
       /\ marked \subseteq Chat

(* What is let in now has been let in at some time. *)
GateRemembers == \A n \in Node : admits[n] \subseteq ever[n]

(* Who got past the gate of a machine was let in by it. *)
GateHeld ==
  \A m \in Chat : Talk!At(m, "in") /\ intakeTask[m].saw # NoNode =>
    WriterOf[m] \in ever[intakeTask[m].saw]

(* The people of the seat are those its machine let in when it was taken,  *)
(* and what it is to catch up on is of such people.                        *)
SeatKept ==
  loop.at \in {"opening", "prompting"} =>
    /\ loop.node \in Node /\ loop.let \subseteq ever[loop.node]
    /\ \A m \in loop.history : WriterOf[m] \in ever[loop.node]

(* Nothing became yet of a message that waits. *)
Untold(m) == m \notin marked /\ \A n \in Node : <<m, n>> \notin reached
GateWaits ==
       /\ \A m \in turn.queued : Talk!At(m, "done") /\ Untold(m) /\ m \notin loop.batch
       /\ \A m \in loop.batch : Talk!At(m, "done")
       /\ loop.at \in {"seating", "opening", "prompting"} => \A m \in loop.batch : Untold(m)

(* What became of a message became of it once it was handled. *)
Handled ==
  /\ \A r \in reached \cup steered : Talk!At(r[1], "done")
  /\ \A m \in marked : Talk!At(m, "done")

(* Of messages that wait one is the last. *)
HasLast(S) == S # {} => \E m \in S : \A k \in S : m >= k

(* A seat is for somebody whose words are in its batch, and a machine that *)
(* was newly picked for them lets them in.                                 *)
SeatedFor ==
  /\ HasLast(turn.queued)
  /\ loop.at \in {"seating", "opening", "prompting"} =>
       \E m \in loop.batch : WriterOf[m] = loop.user
  /\ loop.at \in {"opening", "prompting"} /\ loop.fresh => loop.user \in loop.let

AInv ==
  /\ IntakeShapes /\ GateRemembers /\ GateHeld /\ SeatKept /\ GateWaits /\ Handled /\ SeatedFor
  /\ Talk!NeverReaches /\ Talk!SteersUnseen

----------------------------------------------------------------------------
(* Steps *)

LEMMA Parts ==
  ASSUME IntakeConstants, IntakeShapes
  PROVE  /\ \A m \in Chat : /\ m \in Nat /\ WriterOf[m] \in Person
                               /\ intakeTask[m] \in Gate
         /\ turn.on \in BOOLEAN /\ turn.queued \subseteq Chat
         /\ turn.node \in Node \cup {NoNode}
         /\ loop.batch \subseteq Chat /\ loop.let \subseteq Person
         /\ loop.node \in Node \cup {NoNode} /\ loop.user \in Person \cup {Nobody}
         /\ loop.at \in {"idle", "seating", "opening", "prompting", "running", "closing"}
         /\ loop.fresh \in BOOLEAN /\ loop.history \subseteq Chat
  BY DEF IntakeConstants, Talk!MessageAssumption, IntakeShapes, Turn, Seat, Gate

(* A task goes on to another stage, and what its gate found stays. *)
LEMMA TaskGoes ==
  ASSUME IntakeShapes, NEW m \in Chat, NEW stage \in {"new", "gating", "in", "done"},
         Talk!Goes(m, stage)
  PROVE  /\ intakeTask' \in [Chat -> Gate]
         /\ intakeTask'[m].at = stage
         /\ \A k \in Chat : intakeTask'[k].saw = intakeTask[k].saw
         /\ \A k \in Chat \ {m} : intakeTask'[k] = intakeTask[k]
<1>1. intakeTask[m] \in Gate
  BY DEF IntakeShapes
<1>2. [intakeTask[m] EXCEPT !.at = stage] \in Gate
  BY <1>1 DEF Gate
<1>3. intakeTask' = [intakeTask EXCEPT ![m] = [intakeTask[m] EXCEPT !.at = stage]]
  BY DEF Talk!Goes
<1> QED  BY <1>1, <1>2, <1>3 DEF IntakeShapes, Gate

(* A message that is handled without more of it is told of at most. *)
LEMMA RefusedInv ==
  ASSUME IntakeConstants, AInv, NEW m \in Chat, ~Talk!At(m, "done"),
         Talk!Refused(m) \/ (Talk!Done(m) /\ UNCHANGED marked),
         UNCHANGED <<Talk!who, pin, turn, loop, reached, overheard, steered>>
  PROVE  AInv'
<1>1. /\ intakeTask' \in [Chat -> Gate]
      /\ intakeTask'[m].at = "done"
      /\ \A k \in Chat : intakeTask'[k].saw = intakeTask[k].saw
      /\ \A k \in Chat \ {m} : intakeTask'[k] = intakeTask[k]
  BY TaskGoes DEF AInv, Talk!Done, Talk!Refused
<1>2. marked \subseteq marked' /\ marked' \subseteq marked \cup {m}
  BY DEF Talk!Refused
<1>3. /\ m \notin turn.queued /\ m \notin loop.batch
      /\ \A n \in Node : <<m, n>> \notin reached /\ <<m, n>> \notin steered
  BY DEF AInv, GateWaits, Handled, Talk!At
<1>4. UNCHANGED <<admits, ever, pin, turn, loop, reached, overheard, steered>>
  BY DEF Talk!who, Talk!where, Talk!given
<1>5. IntakeShapes'
  BY <1>1, <1>2, <1>4 DEF AInv, IntakeShapes
<1>6. GateRemembers' /\ GateHeld' /\ SeatKept' /\ SeatedFor'
  BY <1>1, <1>4 DEF AInv, GateRemembers, GateHeld, SeatKept, SeatedFor, HasLast, Talk!At
<1>7. GateWaits'
  BY <1>1, <1>2, <1>3, <1>4, Parts DEF AInv, GateWaits, Untold, Talk!At
<1>8. Handled'
  <2>1. \A r \in reached \cup steered : r[1] \in Chat /\ intakeTask'[r[1]].at = "done"
    BY <1>1 DEF AInv, Handled, Talk!At, IntakeShapes
  <2>2. \A k \in marked' : intakeTask'[k].at = "done"
    BY <1>1, <1>2 DEF AInv, Handled, Talk!At, IntakeShapes
  <2> QED  BY <2>1, <2>2, <1>4 DEF Handled, Talk!At
<1>9. Talk!NeverReaches'
  BY <1>2, <1>3, <1>4 DEF AInv, Talk!NeverReaches
<1>10. Talk!SteersUnseen'
  BY <1>1, <1>4 DEF AInv, Talk!SteersUnseen, IntakeShapes
<1> QED  BY <1>5, <1>6, <1>7, <1>8, <1>9, <1>10 DEF AInv

(* A message is let in or on, and nothing else happens. *)
LEMMA GoesOnInv ==
  ASSUME IntakeConstants, AInv, NEW m \in Chat, ~Talk!At(m, "done"),
         NEW gate \in Gate, gate.at \in {"gating", "in"},
         gate.at = "in" /\ gate.saw # NoNode => WriterOf[m] \in ever[gate.saw],
         intakeTask' = [intakeTask EXCEPT ![m] = gate],
         UNCHANGED <<Talk!who, pin, turn, loop, Talk!told, steered>>
  PROVE  AInv'
<1>1. UNCHANGED <<admits, ever, pin, turn, loop, reached, overheard, marked, steered>>
  BY DEF Talk!who, Talk!told, Talk!where, Talk!given
<1>2. /\ intakeTask' \in [Chat -> Gate] /\ intakeTask'[m] = gate
      /\ \A k \in Chat \ {m} : intakeTask'[k] = intakeTask[k]
  BY DEF AInv, IntakeShapes
<1>3. /\ m \notin turn.queued /\ m \notin loop.batch /\ m \notin marked
      /\ \A n \in Node : <<m, n>> \notin reached /\ <<m, n>> \notin steered
  BY DEF AInv, GateWaits, Handled, Talk!At
<1>4. IntakeShapes'
  BY <1>1, <1>2 DEF AInv, IntakeShapes
<1>5. GateRemembers' /\ SeatKept' /\ SeatedFor' /\ Talk!NeverReaches'
  BY <1>1 DEF AInv, GateRemembers, SeatKept, SeatedFor, HasLast, Talk!NeverReaches
<1>6. GateHeld'
  BY <1>1, <1>2 DEF AInv, GateHeld, Talk!At
<1>7. GateWaits'
  BY <1>1, <1>2, <1>3, Parts DEF AInv, GateWaits, Untold, Talk!At
<1>8. \A r \in reached \cup steered : r[1] \in Chat \ {m} /\ intakeTask'[r[1]] = intakeTask[r[1]]
  BY <1>2, <1>3 DEF AInv, IntakeShapes
<1>9. Handled'
  BY <1>1, <1>2, <1>3, <1>8 DEF AInv, Handled, Talk!At, IntakeShapes
<1>10. Talk!SteersUnseen'
  BY <1>1, <1>8 DEF AInv, Talk!SteersUnseen
<1> QED  BY <1>4, <1>5, <1>6, <1>7, <1>9, <1>10 DEF AInv

LEMMA GatesInv ==
  ASSUME IntakeConstants, AInv, NEW m \in Chat, Talk!Gates(m)
  PROVE  AInv'
<1>1. PICK n \in {pin, NoNode} :
        \/ Talk!Bars(m, n) /\ Talk!Refused(m)
        \/ ~Talk!Bars(m, n) /\ intakeTask' = [intakeTask EXCEPT ![m] = [at |-> "in", saw |-> n]]
            /\ UNCHANGED marked
  BY DEF Talk!Gates, Talk!where, Talk!given
<1>2. UNCHANGED <<Talk!who, pin, turn, loop, reached, overheard, steered>> /\ ~Talk!At(m, "done")
  BY DEF Talk!Gates, Talk!At, Talk!where, Talk!given
<1>3. CASE Talk!Refused(m)
  BY <1>2, <1>3, RefusedInv
<1>4. CASE ~Talk!Bars(m, n) /\ intakeTask' = [intakeTask EXCEPT ![m] = [at |-> "in", saw |-> n]]
            /\ UNCHANGED marked
  <2>1. n \in Node \cup {NoNode}
    BY DEF AInv, IntakeShapes
  <2>2. [at |-> "in", saw |-> n] \in Gate
    BY <2>1 DEF Gate
  <2>3. n # NoNode => WriterOf[m] \in ever[n]
    BY <1>4, <2>1 DEF Talk!Bars, Talk!ShutOut, AInv, GateRemembers
  <2> DEFINE gate == [at |-> "in", saw |-> n]
  <2>4. gate.at = "in" /\ gate.saw = n
    OBVIOUS
  <2> HIDE DEF gate
  <2> QED  BY <1>2, <1>4, <2>2, <2>3, <2>4, GoesOnInv DEF Talk!told, gate, Talk!where, Talk!given
<1> QED  BY <1>1, <1>3, <1>4

LEMMA ArrivesInv ==
  ASSUME IntakeConstants, AInv, NEW m \in Chat, Talk!Arrives(m)
  PROVE  AInv'
<1>1. UNCHANGED <<Talk!who, pin, turn, loop, reached, overheard, steered>> /\ ~Talk!At(m, "done")
  BY DEF Talk!Arrives, Talk!At, Talk!where, Talk!given
<1>2. CASE Talk!Refused(m)
  BY <1>1, <1>2, RefusedInv
<1>3. CASE Talk!Goes(m, "gating") /\ UNCHANGED marked
  <2>1. intakeTask[m] \in Gate
    BY DEF AInv, IntakeShapes
  <2> DEFINE gate == [intakeTask[m] EXCEPT !.at = "gating"]
  <2>2. gate \in Gate /\ gate.at = "gating"
    BY <2>1 DEF Gate
  <2>3. intakeTask' = [intakeTask EXCEPT ![m] = gate]
    BY <1>3 DEF Talk!Goes
  <2> HIDE DEF gate
  <2> QED  BY <1>1, <1>3, <2>2, <2>3, GoesOnInv DEF Talk!told, Talk!where, Talk!given
<1> QED  BY <1>2, <1>3 DEF Talk!Arrives, Talk!where, Talk!given

(* Whoever steers a turn did not find its machine, or was let in by it. *)
LEMMA SteersRightly ==
  ASSUME IntakeConstants, AInv, NEW m \in Chat, Talk!At(m, "in"), Talk!Steers(m),
         Talk!Done(m),
         UNCHANGED ever
  PROVE  Talk!SteersUnseen' /\ steered' \subseteq Chat \X Node
         /\ steered \subseteq steered' /\ \A s \in steered' \ steered : s[1] = m
<1>1. /\ \A k \in Chat : intakeTask'[k].saw = intakeTask[k].saw
  BY TaskGoes DEF AInv, Talk!Done
<1>2. turn.node \in Node \cup {NoNode}
  BY Parts DEF AInv
<1>3. /\ steered \subseteq steered' /\ steered' \subseteq steered \cup {<<m, turn.node>>}
      /\ steered' # steered => turn.node # NoNode
  BY DEF Talk!Steers
<1>4. steered' \subseteq Chat \X Node
  BY <1>2, <1>3 DEF AInv, IntakeShapes
<1>5. turn.node # NoNode => WriterOf[m] \in ever[turn.node] \/ intakeTask[m].saw # turn.node
  BY DEF AInv, GateHeld
<1>6. ASSUME NEW s \in steered' PROVE WriterOf[s[1]] \in ever'[s[2]] \/ intakeTask'[s[1]].saw # s[2]
  <2>1. CASE s \in steered
    BY <1>1, <2>1 DEF AInv, Talk!SteersUnseen, IntakeShapes
  <2>2. CASE s = <<m, turn.node>> /\ turn.node # NoNode
    BY <1>1, <1>5, <2>2
  <2> QED  BY <1>3, <1>6, <2>1, <2>2
<1> QED  BY <1>3, <1>4, <1>6 DEF Talk!SteersUnseen

(* The queue goes, or grows by what is handled; the turn goes on. *)
LEMMA TurnInv ==
  ASSUME IntakeConstants, AInv, NEW m \in Chat, Talk!At(m, "in"), Talk!Done(m),
         turn' \in Turn, turn'.queued \subseteq turn.queued \cup {m},
         HasLast(turn'.queued),
         Talk!Steers(m) \/ UNCHANGED steered,
         UNCHANGED <<Talk!who, pin, loop, Talk!told>>
  PROVE  AInv'
<1>1. /\ intakeTask' \in [Chat -> Gate]
      /\ intakeTask'[m].at = "done"
      /\ \A k \in Chat : intakeTask'[k].saw = intakeTask[k].saw
      /\ \A k \in Chat \ {m} : intakeTask'[k] = intakeTask[k]
  BY TaskGoes DEF AInv, Talk!Done
<1>2. UNCHANGED <<admits, ever, pin, loop, reached, overheard, marked>>
  BY DEF Talk!who, Talk!told, Talk!where, Talk!given
<1>3. m \notin loop.batch /\ Untold(m) /\ \A n \in Node : <<m, n>> \notin steered
  BY DEF AInv, GateWaits, Handled, Talk!At, Untold
<1>4. /\ Talk!SteersUnseen' /\ steered' \subseteq Chat \X Node
      /\ \A s \in steered' \ steered : s[1] = m
  <2>1. CASE Talk!Steers(m)
    BY <1>2, <2>1, SteersRightly
  <2>2. CASE UNCHANGED steered
    BY <1>1, <1>2, <2>2 DEF AInv, Talk!SteersUnseen, IntakeShapes
  <2> QED  BY <2>1, <2>2
<1>5. IntakeShapes'
  BY <1>1, <1>2, <1>4 DEF AInv, IntakeShapes
<1>6. GateRemembers' /\ SeatKept' /\ Talk!NeverReaches'
  BY <1>2 DEF AInv, GateRemembers, SeatKept, Talk!NeverReaches
<1>7. GateHeld'
  BY <1>1, <1>2 DEF AInv, GateHeld, Talk!At
<1>8. GateWaits'
  BY <1>1, <1>2, <1>3, Parts DEF AInv, GateWaits, Untold, Talk!At
<1>9. Handled'
  <2>1. \A r \in reached \cup steered : r[1] \in Chat /\ intakeTask'[r[1]].at = "done"
    BY <1>1 DEF AInv, Handled, Talk!At, IntakeShapes
  <2>2. \A r \in steered' \ steered : intakeTask'[r[1]].at = "done"
    BY <1>1, <1>4
  <2>3. \A k \in marked : intakeTask'[k].at = "done"
    BY <1>1 DEF AInv, Handled, Talk!At, IntakeShapes
  <2> QED  BY <1>2, <2>1, <2>2, <2>3 DEF Handled, Talk!At
<1>10. SeatedFor'
  BY <1>2 DEF AInv, SeatedFor
<1> QED  BY <1>4, <1>5, <1>6, <1>7, <1>8, <1>9, <1>10 DEF AInv

LEMMA StopsInv ==
  ASSUME IntakeConstants, AInv, NEW m \in Chat, Talk!Stops(m)
  PROVE  AInv'
<1>1. Talk!At(m, "in") /\ Talk!Done(m) /\ UNCHANGED <<Talk!who, pin, loop, Talk!told>>
  BY DEF Talk!Stops, Talk!told, Talk!where, Talk!given
<1>2. CASE UNCHANGED <<turn, steered>>
  <2>1. UNCHANGED <<Talk!who, pin, turn, loop, reached, overheard, steered, marked>> /\ ~Talk!At(m, "done")
    BY <1>1, <1>2 DEF Talk!told, Talk!At, Talk!where, Talk!given
  <2> QED  BY <1>1, <2>1, RefusedInv
<1>3. CASE turn' = [turn EXCEPT !.queued = {}] /\ Talk!Steers(m)
  <2>1. turn' \in Turn /\ turn'.queued = {}
    BY <1>3 DEF AInv, IntakeShapes, Turn
  <2>2. HasLast(turn'.queued)
    BY <2>1 DEF HasLast
  <2> QED  BY <1>1, <1>3, <2>1, <2>2, TurnInv
<1> QED  BY <1>2, <1>3 DEF Talk!Stops, Talk!where, Talk!given

LEMMA QueuesInv ==
  ASSUME IntakeConstants, AInv, NEW m \in Chat, Talk!Queues(m)
  PROVE  AInv'
<1>1. Talk!At(m, "in") /\ Talk!Done(m) /\ Talk!Steers(m) /\ UNCHANGED <<Talk!who, pin, loop, Talk!told>>
  BY DEF Talk!Queues, Talk!where, Talk!given
<1>2. turn' \in Turn /\ turn'.queued = turn.queued \cup {m}
  BY DEF Talk!Queues, AInv, IntakeShapes, Turn, Talk!where, Talk!given
<1>3. /\ m \in Nat /\ turn.queued \subseteq Nat
      /\ HasLast(turn.queued)
  BY Parts DEF AInv, SeatedFor
<1>4. HasLast(turn'.queued)
  <2>1. CASE turn.queued = {}
    BY <1>2, <1>3, <2>1 DEF HasLast
  <2>2. ASSUME NEW k \in turn.queued, \A j \in turn.queued : k >= j PROVE HasLast(turn'.queued)
    <3>1. CASE m >= k
      BY <1>2, <1>3, <2>2, <3>1 DEF HasLast
    <3>2. CASE k >= m
      BY <1>2, <1>3, <2>2, <3>2 DEF HasLast
    <3> QED  BY <1>3, <3>1, <3>2
  <2> QED  BY <1>3, <2>1, <2>2 DEF HasLast
<1> QED  BY <1>1, <1>2, <1>4, TurnInv

LEMMA BeginsInv ==
  ASSUME IntakeConstants, AInv, NEW m \in Chat, Talk!Begins(m)
  PROVE  AInv'
<1>1. Talk!At(m, "in") /\ Talk!Done(m) /\ UNCHANGED <<admits, ever, pin, reached, overheard, marked, steered>>
  BY DEF Talk!Begins, Talk!who, Talk!told, Talk!where, Talk!given
<1>2. /\ intakeTask' \in [Chat -> Gate]
      /\ intakeTask'[m].at = "done"
      /\ \A k \in Chat : intakeTask'[k].saw = intakeTask[k].saw
      /\ \A k \in Chat \ {m} : intakeTask'[k] = intakeTask[k]
  BY <1>1, TaskGoes DEF AInv, Talk!Done
<1>3. turn' \in Turn /\ turn'.queued = {}
  BY DEF Talk!Begins, Talk!Quiet, Turn, Talk!where, Talk!given
<1>4. /\ loop' \in Seat /\ loop'.at = "seating" /\ loop'.batch = {m}
      /\ loop'.user = WriterOf[m]
  BY Parts DEF Talk!Begins, Talk!NoLoop, Seat, AInv, Talk!where, Talk!given
<1>5. Untold(m)
  BY <1>1 DEF AInv, Handled, Talk!At, Untold
<1>6. IntakeShapes' /\ GateRemembers' /\ SeatKept' /\ Talk!NeverReaches'
  BY <1>1, <1>2, <1>3, <1>4 DEF AInv, IntakeShapes, GateRemembers, SeatKept, Talk!NeverReaches
<1>7. GateHeld'
  BY <1>1, <1>2 DEF AInv, GateHeld, Talk!At
<1>8. GateWaits'
  BY <1>1, <1>2, <1>3, <1>4, <1>5 DEF GateWaits, Untold, Talk!At
<1>9. SeatedFor'
  BY <1>3, <1>4 DEF SeatedFor, HasLast
<1>10. Handled' /\ Talk!SteersUnseen'
  <2>1. \A r \in reached \cup steered : r[1] \in Chat /\ intakeTask'[r[1]].at = "done"
    BY <1>2 DEF AInv, Handled, Talk!At, IntakeShapes
  <2>2. \A k \in marked : intakeTask'[k].at = "done"
    BY <1>2 DEF AInv, Handled, Talk!At, IntakeShapes
  <2>3. Handled'
    BY <1>1, <2>1, <2>2 DEF Handled, Talk!At
  <2>4. Talk!SteersUnseen'
    BY <1>1, <1>2 DEF AInv, Talk!SteersUnseen, IntakeShapes
  <2> QED  BY <2>3, <2>4
<1> QED  BY <1>6, <1>7, <1>8, <1>9, <1>10 DEF AInv

----------------------------------------------------------------------------
(* The loop: tasks stay as they are. *)

(* The seat is taken, or given up; the queue waits. *)
LEMMA SeatInv ==
  ASSUME IntakeConstants, AInv, loop' \in Seat, turn' \in Turn,
         turn'.queued = turn.queued,
         pin' \in Node \cup {NoNode},
         loop'.batch \subseteq loop.batch,
         UNCHANGED <<Talk!who, intakeTask, Talk!told, steered>>,
         loop'.at # "seating",
         loop'.at \in {"opening", "prompting"} =>
           /\ loop.at \in {"seating", "opening", "prompting"} /\ loop'.batch = loop.batch
           /\ loop'.node \in Node /\ loop'.let \subseteq ever[loop'.node]
           /\ \A m \in loop'.history : WriterOf[m] \in ever[loop'.node]
           /\ loop'.user = loop.user
           /\ loop'.fresh => loop'.user \in loop'.let
  PROVE  AInv'
<1>1. UNCHANGED <<admits, ever, intakeTask, reached, overheard, marked, steered>>
  BY DEF Talk!who, Talk!told, Talk!where, Talk!given
<1>2. IntakeShapes' /\ GateRemembers' /\ GateHeld' /\ SeatKept' /\ Handled' /\ Talk!NeverReaches' /\ Talk!SteersUnseen'
  BY <1>1 DEF AInv, IntakeShapes, GateRemembers, GateHeld, SeatKept, Handled, Talk!NeverReaches,
     Talk!SteersUnseen, Talk!At
<1>3. GateWaits'
  BY <1>1 DEF AInv, GateWaits, Untold, Talk!At
<1>4. SeatedFor'
  BY DEF AInv, SeatedFor, HasLast
<1> QED  BY <1>2, <1>3, <1>4 DEF AInv

(* What a machine is to catch up on is of people it lets in. *)
LEMMA HistoryKept ==
  ASSUME IntakeConstants, AInv, NEW n \in Node, NEW history \in Talk!History(n)
  PROVE  history \in SUBSET Chat /\ \A m \in history : WriterOf[m] \in ever[n]
<1>1. \/ history = {}
      \/ \E k \in Talk!Latest :
           history = {m \in Talk!InThread(k) : m # Talk!Max(loop.batch) /\ Talk!Tells(m, n)}
  BY DEF Talk!History
<1>2. \A k \in Talk!Latest : Talk!InThread(k) \subseteq Chat
  BY DEF Talk!InThread
<1>3. \A m : Talk!Tells(m, n) => WriterOf[m] \in ever[n]
  BY DEF Talk!Tells, Talk!Admitted, AInv, GateRemembers
<1> QED  BY <1>1, <1>2, <1>3

LEMMA SeatedOnInv ==
  ASSUME IntakeConstants, AInv, loop.at = "seating", NEW n \in Node,
         NEW stage \in {"opening", "prompting"},
         NEW history \in SUBSET Chat, \A m \in history : WriterOf[m] \in ever[n],
         Talk!SeatedOn(n, stage, history),
         stage = "opening" => n \in Talk!Takers,
         UNCHANGED <<Talk!who, pin, intakeTask, Talk!told, steered>>
  PROVE  AInv'
<1>1. loop \in Seat /\ turn \in Turn /\ admits[n] \subseteq ever[n]
      /\ admits[n] \subseteq Person /\ pin \in Node \cup {NoNode}
  BY DEF AInv, IntakeShapes, GateRemembers
<1>2. turn' \in Turn /\ turn'.queued = turn.queued
  BY <1>1 DEF Talk!SeatedOn, Turn
<1>3. /\ loop' = [loop EXCEPT !.at = stage, !.node = n, !.let = admits[n],
                              !.fresh = stage = "opening", !.history = history]
      /\ (stage = "opening") \in BOOLEAN
  BY DEF Talk!SeatedOn
<1>4. /\ loop' \in Seat /\ loop'.at = stage /\ loop'.batch = loop.batch /\ loop'.node = n
      /\ loop'.let = admits[n] /\ loop'.user = loop.user /\ loop'.fresh = (stage = "opening")
      /\ loop'.history = history
  BY <1>1, <1>3 DEF Seat
<1>5. loop'.fresh => loop'.user \in loop'.let
  BY <1>4 DEF Talk!Takers
<1>6. UNCHANGED ever
  BY DEF Talk!who
<1> QED  BY <1>1, <1>2, <1>4, <1>5, <1>6, SeatInv

LEMMA ResumesInv ==
  ASSUME IntakeConstants, AInv, Talk!Resumes PROVE AInv'
<1>1. pin \in Node /\ loop.at = "seating"
      /\ UNCHANGED <<Talk!who, pin, intakeTask, Talk!told, steered>>
  BY DEF Talk!Resumes, AInv, IntakeShapes
<1>2. PICK history \in Talk!History(pin) : Talk!SeatedOn(pin, "prompting", history)
  BY DEF Talk!Resumes, Talk!History
<1>3. history \in SUBSET Chat /\ \A m \in history : WriterOf[m] \in ever[pin]
  BY <1>1, HistoryKept
<1> QED  BY <1>1, <1>2, <1>3, SeatedOnInv

LEMMA AssignsInv ==
  ASSUME IntakeConstants, AInv, Talk!Assigns PROVE AInv'
<1>1. PICK n \in Talk!Takers :
        \E history \in Talk!History(n) : Talk!SeatedOn(n, "opening", history)
  BY DEF Talk!Assigns, Talk!History
<1>2. n \in Node /\ loop.at = "seating"
      /\ UNCHANGED <<Talk!who, pin, intakeTask, Talk!told, steered>>
  BY DEF Talk!Takers, Talk!Assigns
<1>3. PICK history \in Talk!History(n) : Talk!SeatedOn(n, "opening", history)
  BY <1>1
<1>4. history \in SUBSET Chat /\ \A m \in history : WriterOf[m] \in ever[n]
  BY <1>2, HistoryKept
<1> QED  BY <1>1, <1>2, <1>3, <1>4, SeatedOnInv

(* The turn is over. *)
LEMMA OverParts ==
  ASSUME AInv, Talk!Over
  PROVE  loop' \in Seat /\ loop'.at = "closing" /\ loop'.batch = {}
<1>1. loop.user \in Person \cup {Nobody}
  BY DEF AInv, IntakeShapes, Seat
<1> QED  BY <1>1 DEF Talk!Over, Talk!NoLoop, Seat

LEMMA OpensInv ==
  ASSUME IntakeConstants, AInv, Talk!Opens PROVE AInv'
<1>1. /\ loop \in Seat /\ turn \in Turn /\ pin \in Node \cup {NoNode}
      /\ UNCHANGED <<Talk!who, intakeTask, turn, Talk!told, steered>> /\ loop.at = "opening"
      /\ loop.node \in Node /\ loop.let \subseteq ever[loop.node]
      /\ \A m \in loop.history : WriterOf[m] \in ever[loop.node]
      /\ loop.fresh => loop.user \in loop.let
  BY DEF Talk!Opens, AInv, IntakeShapes, SeatKept, SeatedFor, Talk!where, Talk!given
<1>2. CASE loop' = [loop EXCEPT !.at = "prompting"] /\ pin' = loop.node
  <2>1. /\ loop' \in Seat /\ loop'.at = "prompting" /\ loop'.batch = loop.batch
        /\ loop'.node = loop.node /\ loop'.let = loop.let /\ loop'.user = loop.user
        /\ loop'.fresh = loop.fresh /\ loop'.history = loop.history
    BY <1>1, <1>2 DEF Seat
  <2> QED  BY <1>1, <1>2, <2>1, SeatInv DEF Talk!who, Talk!where, Talk!given
<1>3. CASE Talk!Over /\ UNCHANGED pin
  BY <1>1, <1>3, OverParts, SeatInv
<1> QED  BY <1>2, <1>3 DEF Talk!Opens, Talk!where, Talk!given

LEMMA AnswersInv ==
  ASSUME IntakeConstants, AInv, Talk!Answers PROVE AInv'
<1>1. turn \in Turn /\ pin \in Node \cup {NoNode}
  BY DEF AInv, IntakeShapes
<1> QED  BY <1>1, OverParts, SeatInv DEF Talk!Answers, Talk!where, Talk!given

(* Of a batch some is told of or prompts the seat's machine, which may     *)
(* catch up; the batch is not waiting any more.                            *)
LEMMA ToldInv ==
  ASSUME IntakeConstants, AInv, loop.at \in {"seating", "opening", "prompting"},
         loop' \in Seat, loop'.at \in {"running", "closing"},
         loop'.batch \subseteq loop.batch,
         NEW S \in SUBSET loop.batch, NEW T \in SUBSET loop.batch, S \cap T = {},
         marked' = marked \cup S,
         NEW n \in Node, reached' = reached \cup {<<m, n>> : m \in T},
         \A m \in T : WriterOf[m] \in ever[n],
         overheard' \subseteq Chat \X Node, \A r \in overheard' : WriterOf[r[1]] \in ever[r[2]],
         UNCHANGED <<Talk!who, pin, intakeTask, turn, steered>>
  PROVE  AInv'
<1>1. UNCHANGED <<admits, ever, pin, intakeTask, turn, steered>>
  BY DEF Talk!who, Talk!where, Talk!given
<1>2. /\ loop.batch \subseteq Chat
      /\ \A m \in loop.batch : intakeTask[m].at = "done" /\ Untold(m) /\ m \notin turn.queued
  BY Parts DEF AInv, GateWaits, Talk!At
<1>3. \A r \in reached' \ reached : /\ r[1] \in T /\ r[2] = n /\ r \in Chat \X Node
                                    /\ r[1] \notin marked
  BY <1>2 DEF Untold
<1>4. IntakeShapes'
  BY <1>1, <1>2, <1>3 DEF AInv, IntakeShapes
<1>5. GateRemembers' /\ GateHeld' /\ SeatKept' /\ Talk!SteersUnseen' /\ SeatedFor'
  BY <1>1 DEF AInv, GateRemembers, GateHeld, SeatKept, Talk!SteersUnseen, SeatedFor,
     HasLast, Talk!At
<1>6. GateWaits'
  BY <1>1, <1>2, <1>3 DEF AInv, GateWaits, Untold, Talk!At
<1>7. Handled'
  BY <1>1, <1>2, <1>3 DEF AInv, Handled, Talk!At
<1>8. Talk!NeverReaches'
  <2>1. \A r \in reached' \cup overheard' : WriterOf[r[1]] \in ever[r[2]]
    BY <1>3 DEF AInv, Talk!NeverReaches
  <2>2. ASSUME NEW m \in marked', ChatKindOf[m] = "words", NEW k \in Node, <<m, k>> \in reached'
        PROVE  FALSE
    <3>1. CASE <<m, k>> \in reached
      BY <1>2, <2>2, <3>1 DEF AInv, Talk!NeverReaches, Untold
    <3>2. CASE <<m, k>> \notin reached
      BY <1>3, <2>2, <3>2
    <3> QED  BY <3>1, <3>2
  <2> QED  BY <1>1, <2>1, <2>2 DEF Talk!NeverReaches
<1> QED  BY <1>1, <1>4, <1>5, <1>6, <1>7, <1>8 DEF AInv

LEMMA PromptsInv ==
  ASSUME IntakeConstants, AInv, Talk!Prompts PROVE AInv'
<1>1. /\ loop.at = "prompting" /\ loop.node \in Node /\ loop.let \subseteq ever[loop.node]
      /\ loop \in Seat /\ \A m \in loop.history : WriterOf[m] \in ever[loop.node]
  BY DEF Talk!Prompts, AInv, SeatKept, IntakeShapes, Talk!where, Talk!given
<1>2. \A m \in Talk!Kept(loop.batch) : m \in loop.batch /\ WriterOf[m] \in ever[loop.node]
  BY <1>1 DEF Talk!Kept, Talk!LetIn
<1>3. loop' \in Seat /\ loop'.at \in {"running", "closing"} /\ loop'.batch \subseteq loop.batch
  <2>1. CASE Talk!Over
    BY <2>1, OverParts
  <2>2. CASE loop' = [loop EXCEPT !.at = "running"]
    BY <1>1, <2>2 DEF Seat
  <2> QED  BY <2>1, <2>2 DEF Talk!Prompts, Talk!where, Talk!given
<1>4. UNCHANGED <<Talk!who, pin, intakeTask, turn, steered>>
      /\ reached' = reached \cup {<<m, loop.node>> : m \in Talk!Kept(loop.batch)}
      /\ marked' = marked \cup (loop.batch \ Talk!Kept(loop.batch))
  BY DEF Talk!Prompts, Talk!where, Talk!given
<1>5. Talk!Kept(loop.batch) \in SUBSET loop.batch
      /\ (loop.batch \ Talk!Kept(loop.batch)) \in SUBSET loop.batch
      /\ (loop.batch \ Talk!Kept(loop.batch)) \cap Talk!Kept(loop.batch) = {}
  BY <1>2
<1>6. overheard' \subseteq Chat \X Node /\ \A r \in overheard' : WriterOf[r[1]] \in ever[r[2]]
  <2>1. overheard' = overheard \/ overheard' = overheard \cup (loop.history \X {loop.node})
    BY DEF Talk!Prompts
  <2>2. loop.history \subseteq Chat
    BY <1>1 DEF Seat
  <2> QED  BY <1>1, <2>1, <2>2 DEF AInv, IntakeShapes, Talk!NeverReaches
<1> QED  BY <1>1, <1>2, <1>3, <1>4, <1>5, <1>6, ToldInv

LEMMA NobodyTakesInv ==
  ASSUME IntakeConstants, AInv, Talk!NobodyTakes PROVE AInv'
<1> DEFINE S == {m \in loop.batch : \A n \in Node : WriterOf[m] \notin admits[n]}
<1>1. /\ loop.at = "seating" /\ marked' = marked \cup S /\ Talk!Over
      /\ UNCHANGED <<Talk!who, pin, intakeTask, turn, reached, overheard, steered>>
  BY DEF Talk!NobodyTakes, Talk!where, Talk!given
<1>2. loop' \in Seat /\ loop'.at = "closing" /\ loop'.batch = {}
  BY <1>1, OverParts
<1>3. UNCHANGED <<admits, ever, pin, intakeTask, turn, reached, overheard, steered>>
  BY <1>1 DEF Talk!who, Talk!where, Talk!given
<1>4. /\ loop.batch \subseteq Chat
      /\ \A m \in loop.batch : intakeTask[m].at = "done" /\ Untold(m) /\ m \notin turn.queued
  BY <1>1, Parts DEF AInv, GateWaits, Talk!At
<1>5. S \subseteq loop.batch
  OBVIOUS
<1> HIDE DEF S
<1>6. IntakeShapes'
  BY <1>1, <1>2, <1>3, <1>4, <1>5 DEF AInv, IntakeShapes
<1>7. GateRemembers' /\ GateHeld' /\ SeatKept' /\ Talk!SteersUnseen' /\ SeatedFor'
  BY <1>2, <1>3 DEF AInv, GateRemembers, GateHeld, SeatKept, Talk!SteersUnseen, SeatedFor,
     HasLast, Talk!At
<1>8. GateWaits' /\ Handled'
  BY <1>1, <1>2, <1>3, <1>4, <1>5 DEF AInv, GateWaits, Handled, Untold, Talk!At
<1>9. Talk!NeverReaches'
  BY <1>1, <1>3, <1>4, <1>5 DEF AInv, Talk!NeverReaches, Untold
<1> QED  BY <1>6, <1>7, <1>8, <1>9 DEF AInv

LEMMA TakesQueueInv ==
  ASSUME IntakeConstants, AInv, Talk!TakesQueue PROVE AInv'
<1>1. UNCHANGED <<admits, ever, pin, intakeTask, reached, overheard, marked, steered>>
  BY DEF Talk!TakesQueue, Talk!who, Talk!told, Talk!where, Talk!given
<1>2. turn' \in Turn /\ turn'.queued = {}
  <2>1. (turn.queued # {}) \in BOOLEAN
    OBVIOUS
  <2> QED  BY <2>1 DEF Talk!TakesQueue, Talk!Quiet, Turn, Talk!where, Talk!given
<1>3. /\ loop' \in Seat /\ loop'.at \in {"idle", "seating"} /\ loop'.batch \subseteq turn.queued
      /\ loop'.at = "seating" => \E m \in loop'.batch : WriterOf[m] = loop'.user
  <2>1. CASE turn.queued = {}
    BY <2>1 DEF Talk!TakesQueue, Talk!NoLoop, Seat, Talk!where, Talk!given
  <2>2. CASE turn.queued # {}
    <3>1. PICK m \in turn.queued : \A k \in turn.queued : m >= k
      BY <2>2 DEF AInv, SeatedFor, HasLast
    <3>2. Talk!Max(turn.queued) \in turn.queued
      BY <3>1 DEF Talk!Max
    <3>3. Talk!NextUser(turn.queued) = WriterOf[Talk!Max(turn.queued)]
          /\ WriterOf[Talk!Max(turn.queued)] \in Person /\ turn.queued \subseteq Chat
      BY <3>2, Parts DEF Talk!NextUser, Talk!WroteLast, AInv
    <3>4. loop' = [Talk!NoLoop EXCEPT !.at = "seating", !.user = WriterOf[Talk!Max(turn.queued)],
                                 !.batch = turn.queued]
      BY <2>2, <3>3 DEF Talk!TakesQueue, Talk!where, Talk!given
    <3>5. /\ loop' \in Seat /\ loop'.at = "seating" /\ loop'.batch = turn.queued
          /\ loop'.user = WriterOf[Talk!Max(turn.queued)]
      BY <3>3, <3>4 DEF Talk!NoLoop, Seat
    <3> QED  BY <3>2, <3>5
  <2> QED  BY <2>1, <2>2
<1>4. IntakeShapes'
  BY <1>1, <1>2, <1>3 DEF AInv, IntakeShapes
<1>5. GateRemembers' /\ GateHeld' /\ SeatKept' /\ Handled' /\ Talk!NeverReaches' /\ Talk!SteersUnseen'
  BY <1>1, <1>3 DEF AInv, GateRemembers, GateHeld, SeatKept, Handled, Talk!NeverReaches,
     Talk!SteersUnseen, Talk!At
<1>6. GateWaits'
  BY <1>1, <1>2, <1>3 DEF AInv, GateWaits, Untold, Talk!At
<1>7. SeatedFor'
  BY <1>2, <1>3 DEF SeatedFor, HasLast
<1> QED  BY <1>4, <1>5, <1>6, <1>7 DEF AInv

----------------------------------------------------------------------------
(* What owners, admins and other threads do *)

LEMMA LetsInv ==
  ASSUME IntakeConstants, AInv, NEW n \in Node, NEW p \in Person, Talk!Lets(n, p)
  PROVE  AInv'
<1>1. UNCHANGED <<pin, intakeTask, turn, loop, reached, overheard, marked, steered>>
  BY DEF Talk!Lets, Talk!told, Talk!where, Talk!given
<1>2. /\ admits' = [admits EXCEPT ![n] = IF p \in @ THEN @ \ {p} ELSE @ \cup {p}]
      /\ ever' = [ever EXCEPT ![n] = @ \cup admits'[n]]
      /\ admits[n] \subseteq Person
  BY DEF Talk!Lets, AInv, IntakeShapes, Talk!where, Talk!given
<1>3. /\ admits' \in [Node -> SUBSET Person] /\ ever' \in [Node -> SUBSET Person]
      /\ admits'[n] \subseteq ever'[n]
      /\ \A k \in Node : ever[k] \subseteq ever'[k]
      /\ \A k \in Node \ {n} : admits'[k] = admits[k]
  BY <1>2 DEF AInv, IntakeShapes
<1>4. IntakeShapes' /\ GateRemembers'
  BY <1>1, <1>3 DEF AInv, IntakeShapes, GateRemembers
<1>5. GateHeld'
  BY <1>1, <1>3 DEF AInv, IntakeShapes, Gate, GateHeld, Talk!At
<1>6. SeatKept'
  BY <1>1, <1>3 DEF AInv, SeatKept
<1>7. GateWaits' /\ Handled' /\ SeatedFor'
  BY <1>1 DEF AInv, GateWaits, Handled, SeatedFor, HasLast, Untold, Talk!At
<1>8. Talk!NeverReaches' /\ Talk!SteersUnseen'
  BY <1>1, <1>3 DEF AInv, IntakeShapes, Talk!NeverReaches, Talk!SteersUnseen
<1> QED  BY <1>4, <1>5, <1>6, <1>7, <1>8 DEF AInv

(* Nothing the invariant speaks of changes, but the pin. *)
LEMMA IntakeElseInv ==
  ASSUME AInv, pin' \in Node \cup {NoNode},
         UNCHANGED <<admits, ever, intakeTask, turn, loop, reached, overheard, marked, steered>>
  PROVE  AInv'
<1>1. IntakeShapes' /\ GateRemembers' /\ GateHeld' /\ SeatKept' /\ GateWaits'
  BY DEF AInv, IntakeShapes, GateRemembers, GateHeld, SeatKept, GateWaits, Untold, Talk!At
<1>2. Handled' /\ SeatedFor' /\ Talk!NeverReaches' /\ Talk!SteersUnseen'
  BY DEF AInv, Handled, SeatedFor, HasLast, Talk!NeverReaches, Talk!SteersUnseen, Talk!At
<1> QED  BY <1>1, <1>2 DEF AInv

----------------------------------------------------------------------------
(* Theorems about Intake *)

LEMMA IntakeInitInv == ASSUME IntakeConstants, Talk!Init PROVE AInv
<1>1. IntakeShapes
  <2>1. [at |-> "new", saw |-> NoNode] \in Gate
    BY DEF Gate
  <2>2. intakeTask \in [Chat -> Gate]
    BY <2>1 DEF Talk!Init
  <2> QED  BY <2>2 DEF Talk!Init, IntakeShapes, IntakeConstants, Talk!LetAssumption,
             Talk!Quiet, Talk!NoLoop, Turn, Seat
<1>2. GateRemembers /\ Handled /\ Talk!NeverReaches /\ Talk!SteersUnseen
  BY DEF Talk!Init, GateRemembers, Handled, Talk!NeverReaches, Talk!SteersUnseen
<1>3. GateHeld
  BY DEF Talk!Init, GateHeld, Talk!At
<1>4. SeatKept /\ GateWaits /\ SeatedFor
  BY DEF Talk!Init, SeatKept, GateWaits, SeatedFor, HasLast, Talk!Quiet, Talk!NoLoop
<1> QED  BY <1>1, <1>2, <1>3, <1>4 DEF AInv

LEMMA IntakeNextInv == ASSUME IntakeConstants, AInv, [Talk!Next]_(Talk!vars) PROVE AInv'
<1>1. ASSUME NEW m \in Chat, Talk!Handles(m) PROVE AInv'
  <2>1. CASE Talk!Ignores(m) \/ Talk!Offers(m)
    <3>1. /\ ~Talk!At(m, "done") /\ Talk!Done(m) /\ UNCHANGED marked
          /\ UNCHANGED <<Talk!who, pin, turn, loop, reached, overheard, steered>>
      BY <2>1 DEF Talk!Ignores, Talk!Offers, Talk!At, Talk!told, Talk!where, Talk!given
    <3> QED  BY <3>1, RefusedInv
  <2> QED  BY <1>1, <2>1, ArrivesInv, GatesInv, StopsInv, QueuesInv,
             BeginsInv DEF Talk!Handles
<1>2. CASE Talk!Loop
  BY <1>2, ResumesInv, AssignsInv, OpensInv, NobodyTakesInv, PromptsInv, AnswersInv,
     TakesQueueInv DEF Talk!Loop
<1>3. ASSUME NEW p \in Person, Talk!Silences(p) PROVE AInv'
  BY <1>3, IntakeElseInv DEF Talk!Silences, Talk!told, AInv, IntakeShapes, Talk!where, Talk!given
<1>4. ASSUME NEW n \in Node \cup {NoNode}, Talk!Moves(n) PROVE AInv'
  BY <1>4, IntakeElseInv DEF Talk!Moves, Talk!told, Talk!who, Talk!where, Talk!given
<1>5. CASE UNCHANGED Talk!vars
  BY <1>5, IntakeElseInv DEF Talk!vars, Talk!told, Talk!who, AInv, IntakeShapes, Talk!where, Talk!given
<1> QED  BY <1>1, <1>2, <1>3, <1>4, <1>5, LetsInv DEF Talk!Next

(* A machine that was picked for somebody takes something of the batch. *)
LEMMA FreshRuns == ASSUME AInv PROVE Talk!FreshSeatRuns
<1> SUFFICES ASSUME loop.at = "prompting", loop.fresh PROVE Talk!Kept(loop.batch) # {}
  BY DEF Talk!FreshSeatRuns
<1>1. PICK m \in loop.batch : WriterOf[m] \in loop.let
  BY DEF AInv, SeatedFor
<1> QED  BY <1>1 DEF Talk!Kept, Talk!LetIn

(* What is gated stays so (`shut_out_of`, `admitted`, `seat` and `history` *)
(* of chat.rs): somebody's words reach only machines whose owner let them  *)
(* in at some time, be it in a prompt or in what a machine is given to     *)
(* catch up; no machine is prompted with words that were marked as shut    *)
(* out; who steers a turn on a machine that never let them in was gated on *)
(* another; and a machine that a thread is newly seated on takes something *)
(* of what was written.                                                    *)
THEOREM ShutOutStaysOut ==
  ASSUME IntakeConstants
  PROVE  Talk!Spec => [](Talk!NeverReaches /\ Talk!SteersUnseen /\ Talk!FreshSeatRuns)
<1>1. Talk!Init => AInv
  BY IntakeInitInv
<1>2. AInv /\ [Talk!Next]_(Talk!vars) => AInv'
  BY IntakeNextInv
<1>3. AInv => Talk!NeverReaches /\ Talk!SteersUnseen /\ Talk!FreshSeatRuns
  BY FreshRuns DEF AInv
<1> QED  BY <1>1, <1>2, <1>3, PTL DEF Talk!Spec
=============================================================================
