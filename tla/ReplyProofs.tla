---------------------------- MODULE ReplyProofs ----------------------------
(***************************************************************************)
(* Proofs about Reply: what a thread of Slack reads while a reply is       *)
(* written into it, for any script of an agent, any split of it into       *)
(* messages, any tools and tasks, and any number of failing calls.         *)
(***************************************************************************)
EXTENDS Reply, WellFoundedInduction, FiniteSetTheorems, TLAPS

Reported == Statuses \cup {"none"}
Beats == UNION {[T -> Reported] : T \in SUBSET Tasks}
Lists == UNION {[B -> Beats] : B \in SUBSET Nat}
Chunks == [text : Seq(Int), lists : Lists]

Message ==
  {m \in [kind : Kinds, text : Seq(Int \cup Tools), lists : Lists, state : States] :
     IF m.kind = "placed" THEN \E k \in Tools : m.text = <<k>> ELSE m.text \in Seq(Int)}

Thread == Seq(Message)

Quiet(th, th2) ==
  /\ DOMAIN th \subseteq DOMAIN th2
  /\ \A i \in DOMAIN th :
       /\ th2[i].kind = th[i].kind
       /\ th[i].kind = "placed" => th2[i].text = th[i].text
       /\ SaidIn(th2[i]) = SaidIn(th[i])
       /\ \A p \in SaidIn(th[i]) : th2[i].text[p] = th[i].text[p]
  /\ \A i \in DOMAIN th2 \ DOMAIN th : th2[i].kind = "stream" /\ SaidIn(th2[i]) = {}

Extends(th, th2, i, text) ==
  /\ i \in DOMAIN th
  /\ th[i].kind = "stream" /\ th2[i].kind = "stream"
  /\ DOMAIN th2 = DOMAIN th
  /\ th2[i].text = th[i].text \o text
  /\ \A j \in DOMAIN th : j # i => th2[j] = th[j]

LEMMA RedrawnTyped ==
  ASSUME NEW a \in Lists, NEW b \in Lists
  PROVE  /\ Redrawn(a, b) \in Lists
         /\ DOMAIN Redrawn(a, b) = DOMAIN a \cup DOMAIN b
         /\ \A x \in DOMAIN a : Redrawn(a, b)[x] = a[x]
         /\ \A x \in DOMAIN b \ DOMAIN a : Redrawn(a, b)[x] = b[x]
<1>1. PICK A \in SUBSET Nat : a \in [A -> Beats]
  BY DEF Lists
<1>2. PICK B \in SUBSET Nat : b \in [B -> Beats]
  BY DEF Lists
<1>3. Redrawn(a, b) \in [A \cup B -> Beats]
  BY <1>1, <1>2 DEF Redrawn
<1> QED
  BY <1>1, <1>2, <1>3 DEF Redrawn, Lists

LEMMA RedrawnBeat ==
  ASSUME NEW a \in Beats, NEW b \in Beats
  PROVE  /\ Redrawn(a, b) \in Beats
         /\ DOMAIN Redrawn(a, b) = DOMAIN a \cup DOMAIN b
         /\ \A x \in DOMAIN a : Redrawn(a, b)[x] = a[x]
         /\ \A x \in DOMAIN b \ DOMAIN a : Redrawn(a, b)[x] = b[x]
<1>1. PICK A \in SUBSET Tasks : a \in [A -> Reported]
  BY DEF Beats
<1>2. PICK B \in SUBSET Tasks : b \in [B -> Reported]
  BY DEF Beats
<1>3. Redrawn(a, b) \in [A \cup B -> Reported]
  BY <1>1, <1>2 DEF Redrawn
<1> QED
  BY <1>1, <1>2, <1>3 DEF Redrawn, Beats

LEMMA NoLists == <<>> \in Lists /\ DOMAIN <<>> = {}
<1>1. <<>> \in [{} -> Beats]
  OBVIOUS
<1>2. {} \in SUBSET Nat
  OBVIOUS
<1> QED
  BY <1>1, <1>2 DEF Lists

LEMMA WordsTyped ==
  ASSUME NEW text \in Seq(Int)
  PROVE  Words(text) \in Chunks /\ Words(text).text = text /\ Words(text).lists = <<>>
BY NoLists DEF Words, Chunks

LEMMA ListTyped ==
  ASSUME NEW b \in Nat, NEW beat \in Beats
  PROVE  /\ List(b, beat) \in Chunks /\ List(b, beat).text = <<>>
         /\ DOMAIN List(b, beat).lists = {b} /\ List(b, beat).lists[b] = beat
<1>1. [x \in {b} |-> beat] \in [{b} -> Beats]
  OBVIOUS
<1>2. {b} \in SUBSET Nat
  OBVIOUS
<1>3. [x \in {b} |-> beat] \in Lists
  BY <1>1, <1>2 DEF Lists
<1> QED
  BY <1>3 DEF List, Chunks

LEMMA NewMessageTyped ==
  /\ NewMessage("stream", <<>>) \in Message
  /\ NewMessage("stream", <<>>) = [kind |-> "stream", text |-> <<>>, lists |-> <<>>, state |-> "open"]
  /\ \A text \in Seq(Int) :
       /\ NewMessage("post", text) \in Message
       /\ NewMessage("post", text) = [kind |-> "post", text |-> text, lists |-> <<>>, state |-> "whole"]
  /\ \A k \in Tools :
       /\ NewMessage("placed", <<k>>) \in Message
       /\ NewMessage("placed", <<k>>) = [kind |-> "placed", text |-> <<k>>, lists |-> <<>>, state |-> "whole"]
<1>1. \A text \in Seq(Int) : text \in Seq(Int \cup Tools)
  OBVIOUS
<1>2. \A k \in Tools : <<k>> \in Seq(Int \cup Tools)
  OBVIOUS
<1>3. <<>> \in Seq(Int)
  OBVIOUS
<1> QED
  BY <1>1, <1>2, <1>3, NoLists DEF NewMessage, Message, Kinds, States

LEMMA ApplyTyped ==
  ASSUME NEW m \in Message, NEW c \in Chunks, m.kind # "placed"
  PROVE  /\ Apply(m, c) \in Message
         /\ Apply(m, c).kind = m.kind /\ Apply(m, c).state = m.state
         /\ Apply(m, c).text = m.text \o c.text
         /\ Apply(m, c).lists = Redrawn(c.lists, m.lists)
<1>1. m.text \o c.text \in Seq(Int) /\ m.text \o c.text \in Seq(Int \cup Tools)
  BY DEF Message, Chunks
<1>2. Redrawn(c.lists, m.lists) \in Lists
  BY RedrawnTyped DEF Message, Chunks
<1> QED
  BY <1>1, <1>2 DEF Apply, Message

LEMMA SaidInText ==
  ASSUME NEW m \in Message, m.kind # "placed", NEW s \in Seq(Int), NEW n \in Message,
         n.kind # "placed", n.text = m.text \o s
  PROVE  /\ SaidIn(m) \subseteq 1 .. Len(m.text) /\ Len(m.text) \in Nat
         /\ \A p \in 1 .. Len(m.text) : n.text[p] = m.text[p] /\ (p \in SaidIn(n) <=> p \in SaidIn(m))
         /\ \A p \in 1 .. Len(s) : n.text[Len(m.text) + p] = s[p] /\ (Len(m.text) + p \in SaidIn(n) <=> s[p] > 0)
         /\ \A q \in SaidIn(n) : q \in SaidIn(m) \/ \E p \in 1 .. Len(s) : q = Len(m.text) + p /\ s[p] > 0
<1> DEFINE a == m.text
           b == n.text
<1>1. a \in Seq(Int) /\ SaidIn(m) = {p \in DOMAIN a : a[p] > 0}
  BY DEF Message, SaidIn
<1>2. b = a \o s /\ SaidIn(n) = {p \in DOMAIN b : b[p] > 0}
  BY DEF SaidIn
<1> HIDE DEF a, b
<1>3. DOMAIN b = 1 .. Len(a) + Len(s) /\ DOMAIN a = 1 .. Len(a) /\ Len(a) \in Nat /\ Len(s) \in Nat
  BY <1>1, <1>2
<1>4. \A p \in 1 .. Len(a) : b[p] = a[p]
  BY <1>1, <1>2
<1>5. \A p \in 1 .. Len(s) : b[Len(a) + p] = s[p] /\ Len(a) + p \in DOMAIN b
  BY <1>1, <1>2, <1>3
<1>6. \A p \in DOMAIN b : p \in 1 .. Len(a) \/ \E q \in 1 .. Len(s) : p = Len(a) + q
  <2> SUFFICES ASSUME NEW p \in 1 .. Len(a) + Len(s), p \notin 1 .. Len(a)
               PROVE  \E q \in 1 .. Len(s) : p = Len(a) + q
    BY <1>3
  <2> WITNESS p - Len(a) \in 1 .. Len(s)
  <2> QED
    BY <1>3
<1>7. \A p \in 1 .. Len(a) : b[p] = a[p] /\ (p \in SaidIn(n) <=> p \in SaidIn(m))
  BY <1>1, <1>2, <1>3, <1>4
<1>8. \A p \in 1 .. Len(s) : b[Len(a) + p] = s[p] /\ (Len(a) + p \in SaidIn(n) <=> s[p] > 0)
  BY <1>2, <1>5
<1>9. \A q \in SaidIn(n) : q \in SaidIn(m) \/ \E p \in 1 .. Len(s) : q = Len(a) + p /\ s[p] > 0
  BY <1>2, <1>6, <1>7, <1>8
<1>10. SaidIn(m) \subseteq 1 .. Len(a) /\ Len(a) \in Nat
  BY <1>1, <1>3
<1> QED
  BY <1>7, <1>8, <1>9, <1>10 DEF a, b

Post == [at : Nat, shown : Seq(Int)]
Partials == {"empty", "mark", "plain"}
Fields ==
  [mode : {"streaming", "buffered"}, at : Nat, spent : Nat,
   pending : Seq(Int), flushed : BOOLEAN, fenced : BOOLEAN, partial : Partials,
   beats : Seq(Beats), drawn : SUBSET Nat, open : Nat, placed : BOOLEAN,
   all : Seq(Int), posted : Seq(Post), broken : BOOLEAN]
Jobs == [rest : Seq(Int), part : Nat, then : Stages \cup Tasks \cup Tools]
FaultsSet == [count : 0 .. MaxFaults, lost : BOOLEAN, ends : 0 .. MaxEnds, cut : BOOLEAN]
Sayings == {"ok", "failed", "no_text", "msg_too_long", "channel_type_not_supported",
            "message_not_in_streaming_state"}
Worlds == [th : Thread, r : Fields, j : Jobs, f : FaultsSet, said : Sayings]
Answers == [th : Thread, said : Sayings]

LEMMA Bounds ==
  /\ Budget \in Nat /\ MinRoom \in Nat /\ FlushMin \in Nat /\ MessageLimit \in Nat
  /\ MaxFaults \in Nat /\ MaxEnds \in Nat /\ MaxText \in Nat
  /\ Budget - 2 >= MinRoom /\ MinRoom >= 1 /\ MaxText >= Budget + 3
  /\ MessageLimit >= 1 /\ FlushMin >= 1
BY SizeAssumption, MaxTextAssumption

LEMMA FailedCall ==
  ASSUME NEW w \in Worlds, w.f.count # MaxFaults,
         NEW v, v = [w EXCEPT !.f.count = @ + 1, !.said = "failed"]
  PROVE  /\ v \in Worlds /\ v.th = w.th /\ v.r = w.r /\ v.j = w.j /\ v.said = "failed"
         /\ v.f = [w.f EXCEPT !.count = @ + 1]
<1> DEFINE g == [w.f EXCEPT !.count = @ + 1]
           u == [w EXCEPT !.f = g]
<1>1. w.f.count + 1 \in 0 .. MaxFaults
  BY Bounds DEF Worlds, FaultsSet
<1>2. [w.f EXCEPT !.count = @ + 1] \in FaultsSet
  BY <1>1 DEF Worlds, FaultsSet
<1>3. v = [u EXCEPT !.said = "failed"]
  OBVIOUS
<1> HIDE DEF g
<1>4. u \in Worlds /\ u.th = w.th /\ u.r = w.r /\ u.j = w.j /\ u.f = g
  BY <1>2 DEF Worlds, g
<1> HIDE DEF u
<1>5. v \in Worlds /\ v.th = u.th /\ v.r = u.r /\ v.j = u.j /\ v.f = u.f /\ v.said = "failed"
  BY <1>3, <1>4 DEF Worlds, Sayings
<1> QED
  BY <1>4, <1>5 DEF g

LEMMA AnswerFacts ==
  ASSUME NEW th \in Thread, NEW s \in Sayings
  PROVE  Answer(th, s) \in Answers /\ Answer(th, s).th = th /\ Answer(th, s).said = s
BY DEF Answer, Answers

LEMMA CalledFacts ==
  ASSUME NEW w \in Worlds, NEW a \in Answers, NEW v \in Called(w, a)
  PROVE  /\ v \in Worlds
         /\ v.r = w.r /\ v.j = w.j
         /\ v.f.cut = w.f.cut /\ v.f.ends = w.f.ends
         /\ v.f.count >= w.f.count
         /\ w.f.lost => v.f.lost
         /\ \/ v.th = a.th /\ v.said = a.said /\ v.f = w.f
            \/ v.f.count > w.f.count /\ v.f.count # w.f.count /\ v.said = "failed"
         /\ v.th = w.th \/ v.th = a.th
         /\ v.said = "failed" => a.said = "failed" \/ v.th = w.th \/ (a.said = "ok" /\ v.f.lost)
<1>1. ASSUME v = [w EXCEPT !.th = a.th, !.said = a.said]
      PROVE  /\ v \in Worlds /\ v.th = a.th /\ v.r = w.r /\ v.j = w.j /\ v.f = w.f /\ v.said = a.said
  <2> DEFINE u == [w EXCEPT !.th = a.th]
  <2>1. v = [u EXCEPT !.said = a.said]
    BY <1>1
  <2>2. u \in Worlds /\ u.th = a.th /\ u.r = w.r /\ u.j = w.j /\ u.f = w.f
    BY DEF Worlds, Answers
  <2> HIDE DEF u
  <2>3. v \in Worlds /\ v.th = u.th /\ v.r = u.r /\ v.j = u.j /\ v.f = u.f /\ v.said = a.said
    BY <2>1, <2>2 DEF Worlds, Answers
  <2> QED
    BY <2>2, <2>3
<1> DEFINE failed == [w EXCEPT !.f.count = @ + 1, !.said = "failed"]
<1>2. ASSUME w.f.count # MaxFaults, v = failed
      PROVE  /\ v \in Worlds /\ v.th = w.th /\ v.r = w.r /\ v.j = w.j /\ v.said = "failed"
             /\ v.f.cut = w.f.cut /\ v.f.ends = w.f.ends /\ v.f.count = w.f.count + 1
             /\ v.f.lost = w.f.lost
  <2>1. v \in Worlds /\ v.th = w.th /\ v.r = w.r /\ v.j = w.j /\ v.said = "failed"
        /\ v.f = [w.f EXCEPT !.count = @ + 1]
    BY <1>2, FailedCall
  <2> QED
    BY <2>1 DEF Worlds, FaultsSet
<1>3. ASSUME w.f.count # MaxFaults, a.said = "ok", v = [failed EXCEPT !.th = a.th, !.f.lost = TRUE]
      PROVE  /\ v \in Worlds /\ v.th = a.th /\ v.r = w.r /\ v.j = w.j /\ v.said = "failed"
             /\ v.f.cut = w.f.cut /\ v.f.ends = w.f.ends /\ v.f.count = w.f.count + 1
             /\ v.f.lost
  <2> DEFINE u == failed
  <2>1. u \in Worlds /\ u.r = w.r /\ u.j = w.j /\ u.said = "failed"
        /\ u.f = [w.f EXCEPT !.count = @ + 1]
    BY <1>3, FailedCall
  <2> DEFINE g == [u.f EXCEPT !.lost = TRUE]
             x == [u EXCEPT !.th = a.th]
  <2>2. v = [x EXCEPT !.f = [x.f EXCEPT !.lost = TRUE]]
    BY <1>3
  <2> HIDE DEF u
  <2>4. x \in Worlds /\ x.th = a.th /\ x.r = u.r /\ x.j = u.j /\ x.f = u.f /\ x.said = u.said
    BY <2>1 DEF Worlds, Answers
  <2> HIDE DEF x
  <2>5. g \in FaultsSet
    BY <2>1 DEF Worlds, FaultsSet
  <2>6. v = [x EXCEPT !.f = g]
    BY <2>2, <2>4
  <2> HIDE DEF g
  <2>7. v \in Worlds /\ v.th = x.th /\ v.r = x.r /\ v.j = x.j /\ v.f = g /\ v.said = x.said
    BY <2>4, <2>5, <2>6 DEF Worlds
  <2>3. v.f = [u.f EXCEPT !.lost = TRUE] /\ v \in Worlds /\ v.th = a.th /\ v.r = u.r /\ v.j = u.j
        /\ v.said = u.said
    BY <2>4, <2>7 DEF g
  <2> QED
    BY <2>1, <2>3 DEF Worlds, FaultsSet
<1>4. w.f.count \in Nat
  BY DEF Worlds, FaultsSet
<1> HIDE DEF failed
<1>8. CASE v = [w EXCEPT !.th = a.th, !.said = a.said]
  BY <1>1, <1>4, <1>8
<1>5. CASE w.f.count # MaxFaults /\ v = failed
  BY <1>5, <1>2, <1>4
<1>6. CASE w.f.count # MaxFaults /\ a.said = "ok" /\ v = [failed EXCEPT !.th = a.th, !.f.lost = TRUE]
  BY <1>6, <1>3, <1>4
<1>7. \/ v = [w EXCEPT !.th = a.th, !.said = a.said]
      \/ w.f.count # MaxFaults /\ v = failed
      \/ w.f.count # MaxFaults /\ a.said = "ok" /\ v = [failed EXCEPT !.th = a.th, !.f.lost = TRUE]
  BY DEF Called, failed
<1> QED
  BY <1>8, <1>5, <1>6, <1>7

(* Slack's calls *)

Fresh(c)   == Apply(NewMessage("stream", <<>>), c)
Stopped(m) == [m EXCEPT !.state = "stopped"]

LEMMA FreshFacts ==
  ASSUME NEW c \in Chunks
  PROVE  /\ Fresh(c) \in Message /\ Fresh(c).kind = "stream" /\ Fresh(c).state = "open"
         /\ Fresh(c).text = c.text /\ Fresh(c).lists = Redrawn(c.lists, <<>>)
<1> DEFINE n == NewMessage("stream", <<>>)
<1>1. n \in Message /\ n.kind = "stream" /\ n.state = "open" /\ n.text = <<>> /\ n.lists = <<>>
  BY NewMessageTyped
<1>2. <<>> \o c.text = c.text
  BY DEF Chunks
<1> HIDE DEF n
<1>3. Fresh(c) = Apply(n, c)
  BY DEF Fresh, n
<1>4. n.kind # "placed"
  BY <1>1
<1>5. Apply(n, c) \in Message /\ Apply(n, c).kind = n.kind /\ Apply(n, c).state = n.state
      /\ Apply(n, c).text = n.text \o c.text /\ Apply(n, c).lists = Redrawn(c.lists, n.lists)
  BY <1>1, <1>4, ApplyTyped
<1> QED
  BY <1>1, <1>2, <1>3, <1>5

LEMMA StoppedFacts ==
  ASSUME NEW m \in Message
  PROVE  /\ Stopped(m) \in Message /\ Stopped(m).kind = m.kind /\ Stopped(m).text = m.text
         /\ Stopped(m).lists = m.lists /\ Stopped(m).state = "stopped"
BY DEF Message, Stopped, States

LEMMA StartAnswer ==
  ASSUME NEW th \in Thread, NEW c \in Chunks, NEW a, a = StartStream(th, hosts, c)
  PROVE  /\ a \in Answers
         /\ ~hosts => a.said = "channel_type_not_supported"
         /\ hosts /\ Len(c.text) <= MaxText => a.said = "ok"
         /\ a.said \in {"ok", "msg_too_long", "channel_type_not_supported"}
         /\ hosts => a.said # "channel_type_not_supported"
         /\ a.said = "ok" => a.th = Append(th, Fresh(c)) /\ hosts
         /\ a.said # "ok" => a.th = th
<1> DEFINE n == NewMessage("stream", <<>>)
           x == Append(th, Fresh(c))
<1>1. n.text = <<>>
  BY NewMessageTyped
<1>2. <<>> \o c.text = c.text
  BY DEF Chunks
<1> HIDE DEF n
<1>4. x \in Thread
  BY FreshFacts DEF Thread
<1>5. Fits(n, c) <=> Len(c.text) <= MaxText
  BY <1>1, <1>2 DEF Fits
<1>6. a = IF ~hosts THEN Answer(th, "channel_type_not_supported")
          ELSE IF ~Fits(n, c) THEN Answer(th, "msg_too_long")
          ELSE Answer(x, "ok")
  BY DEF StartStream, n, Fresh
<1> HIDE DEF x
<1>7. CASE ~hosts
  BY <1>6, <1>7, AnswerFacts DEF Sayings
<1>8. CASE hosts /\ ~Fits(n, c)
  BY <1>5, <1>6, <1>8, AnswerFacts DEF Sayings
<1>9. CASE hosts /\ Fits(n, c)
  <2>1. a = Answer(x, "ok")
    BY <1>6, <1>9
  <2>2. a \in Answers /\ a.th = x /\ a.said = "ok"
    BY <1>4, <2>1, AnswerFacts DEF Sayings
  <2> QED
    BY <1>9, <2>2 DEF x
<1> QED
  BY <1>7, <1>8, <1>9

LEMMA AppendAnswer ==
  ASSUME NEW th \in Thread, NEW i \in DOMAIN th, th[i].kind # "placed", NEW c \in Chunks,
         NEW a, a = AppendStream(th, i, c)
  PROVE  /\ a \in Answers
         /\ th[i].state # "open" => a.said = "message_not_in_streaming_state"
         /\ th[i].state = "open" /\ ~Fits(th[i], c) => a.said = "msg_too_long"
         /\ th[i].state = "open" /\ Fits(th[i], c) => a.said = "ok"
         /\ a.said \in {"ok", "msg_too_long", "message_not_in_streaming_state"}
         /\ a.said = "ok" => a.th = [th EXCEPT ![i] = Apply(th[i], c)]
         /\ a.said # "ok" => a.th = th
<1> DEFINE x == [th EXCEPT ![i] = Apply(th[i], c)]
<1>1. th[i] \in Message /\ i \in 1 .. Len(th)
  BY DEF Thread
<1>2. Apply(th[i], c) \in Message
  BY <1>1, ApplyTyped
<1>3. x \in Thread
  BY <1>1, <1>2 DEF Thread
<1>6. a = IF th[i].state # "open" THEN Answer(th, "message_not_in_streaming_state")
          ELSE IF ~Fits(th[i], c) THEN Answer(th, "msg_too_long")
          ELSE Answer(x, "ok")
  BY DEF AppendStream
<1> HIDE DEF x
<1>7. CASE th[i].state # "open"
  BY <1>6, <1>7, AnswerFacts DEF Sayings
<1>8. CASE th[i].state = "open" /\ ~Fits(th[i], c)
  BY <1>6, <1>8, AnswerFacts DEF Sayings
<1>9. CASE th[i].state = "open" /\ Fits(th[i], c)
  <2>2. a \in Answers /\ a.th = x /\ a.said = "ok"
    BY <1>3, <1>6, <1>9, AnswerFacts DEF Sayings
  <2> QED
    BY <1>9, <2>2 DEF x
<1> QED
  BY <1>7, <1>8, <1>9

LEMMA StopAnswer ==
  ASSUME NEW th \in Thread, NEW i \in DOMAIN th, NEW a, a = StopStream(th, i)
  PROVE  /\ a \in Answers
         /\ th[i].state # "open" => a.said = "message_not_in_streaming_state" /\ a.th = th
         /\ th[i].state = "open" => a.said = "ok" /\ a.th = [th EXCEPT ![i] = Stopped(th[i])]
<1> DEFINE x == [th EXCEPT ![i] = Stopped(th[i])]
<1>1. th[i] \in Message /\ i \in 1 .. Len(th)
  BY DEF Thread
<1>2. Stopped(th[i]) \in Message
  BY <1>1, StoppedFacts
<1>3. x \in Thread
  BY <1>1, <1>2 DEF Thread
<1>4. a = IF th[i].state # "open" THEN Answer(th, "message_not_in_streaming_state")
          ELSE Answer(x, "ok")
  BY DEF StopStream, Stopped
<1> HIDE DEF x
<1>5. CASE th[i].state # "open"
  BY <1>4, <1>5, AnswerFacts DEF Sayings
<1>6. CASE th[i].state = "open"
  <2>2. a \in Answers /\ a.th = x /\ a.said = "ok"
    BY <1>3, <1>4, <1>6, AnswerFacts DEF Sayings
  <2> QED
    BY <1>6, <2>2 DEF x
<1> QED
  BY <1>5, <1>6

(* Quiet steps *)

LEMMA QuietSame ==
  ASSUME NEW th \in Thread
  PROVE  Quiet(th, th)
BY DEF Quiet

LEMMA QuietTwice ==
  ASSUME NEW a, NEW b, NEW c, Quiet(a, b), Quiet(b, c)
  PROVE  Quiet(a, c)
BY DEF Quiet

LEMMA QuietAppend ==
  ASSUME NEW th \in Thread, NEW m \in Message, m.kind = "stream", SaidIn(m) = {}
  PROVE  Quiet(th, Append(th, m))
<1>1. DOMAIN Append(th, m) = 1 .. Len(th) + 1 /\ DOMAIN th = 1 .. Len(th) /\ Len(th) \in Nat
  BY DEF Thread
<1>2. \A i \in DOMAIN th : Append(th, m)[i] = th[i]
  BY DEF Thread
<1>3. Append(th, m)[Len(th) + 1] = m
  BY DEF Thread
<1> QED
  BY <1>1, <1>2, <1>3 DEF Quiet

LEMMA QuietExcept ==
  ASSUME NEW th \in Thread, NEW i \in DOMAIN th, NEW m \in Message, m.kind = th[i].kind,
         m.kind = "placed" => m.text = th[i].text,
         SaidIn(m) = SaidIn(th[i]), \A p \in SaidIn(m) : m.text[p] = th[i].text[p]
  PROVE  Quiet(th, [th EXCEPT ![i] = m])
BY DEF Quiet

LEMMA NothingSaid ==
  ASSUME NEW m \in Message, m.kind # "placed", NEW s \in Seq(Int), NEW n \in Message,
         n.kind # "placed", n.text = m.text \o s, \A p \in DOMAIN s : s[p] <= 0
  PROVE  SaidIn(n) = SaidIn(m) /\ \A p \in SaidIn(n) : n.text[p] = m.text[p]
<1>1. /\ SaidIn(m) \subseteq 1 .. Len(m.text) /\ Len(m.text) \in Nat
      /\ \A p \in 1 .. Len(m.text) : n.text[p] = m.text[p] /\ (p \in SaidIn(n) <=> p \in SaidIn(m))
      /\ \A q \in SaidIn(n) : q \in SaidIn(m) \/ \E p \in 1 .. Len(s) : q = Len(m.text) + p /\ s[p] > 0
  BY SaidInText
<1>2. \A p \in 1 .. Len(s) : ~(s[p] > 0)
  OBVIOUS
<1> QED
  BY <1>1, <1>2

SameWords(r, s) ==
  /\ s.mode = r.mode /\ s.pending = r.pending /\ s.flushed = r.flushed /\ s.fenced = r.fenced
  /\ s.beats = r.beats /\ s.drawn = r.drawn /\ s.open = r.open /\ s.placed = r.placed
  /\ s.all = r.all /\ s.posted = r.posted /\ s.broken = r.broken

Worse(f, g) ==
  /\ g.count >= f.count /\ g.cut = f.cut /\ g.ends = f.ends
  /\ f.lost => g.lost

LEMMA WorseFacts ==
  /\ \A f \in FaultsSet : Worse(f, f)
  /\ \A f, g, h \in FaultsSet : Worse(f, g) /\ Worse(g, h) => Worse(f, h)
BY DEF Worse, FaultsSet

LEMMA SameTwice ==
  ASSUME NEW a, NEW b, NEW c, SameWords(a, b), SameWords(b, c)
  PROVE  SameWords(a, c)
BY DEF SameWords

LEMMA SameSelf == ASSUME NEW a PROVE SameWords(a, a)
BY DEF SameWords

LEMMA WorldParts ==
  ASSUME NEW w \in Worlds
  PROVE  w.th \in Thread /\ w.r \in Fields /\ w.j \in Jobs /\ w.f \in FaultsSet /\ w.said \in Sayings
BY DEF Worlds

MovedTo(u, at, n) == [u EXCEPT !.r.at = at, !.r.spent = n]
Spent(u, n)       == [u EXCEPT !.r.spent = n]
Emptied(u)        == [u EXCEPT !.r.partial = "empty"]

LEMMA MovedFacts ==
  ASSUME NEW u \in Worlds, NEW at \in Nat, NEW n \in Nat
  PROVE  LET v == MovedTo(u, at, n)
         IN  /\ v \in Worlds /\ v.th = u.th /\ v.j = u.j /\ v.f = u.f /\ v.said = u.said
             /\ v.r.at = at /\ v.r.spent = n /\ v.r.partial = u.r.partial /\ SameWords(u.r, v.r)
<1> DEFINE v == MovedTo(u, at, n)
           g == [u.r EXCEPT !.at = at]
           x == [u EXCEPT !.r = g]
           h == [g EXCEPT !.spent = n]
<1>1. v = [x EXCEPT !.r = [x.r EXCEPT !.spent = n]]
  BY DEF MovedTo
<1>2. u.r \in Fields
  BY WorldParts
<1>3. g \in Fields /\ g.at = at /\ g.spent = u.r.spent /\ g.partial = u.r.partial /\ SameWords(u.r, g)
  BY <1>2 DEF Fields, SameWords
<1> HIDE DEF g, v
<1>4. x \in Worlds /\ x.r = g /\ x.th = u.th /\ x.j = u.j /\ x.f = u.f /\ x.said = u.said
  BY <1>3 DEF Worlds
<1> HIDE DEF x
<1>5. h \in Fields /\ h.at = g.at /\ h.spent = n /\ h.partial = g.partial /\ SameWords(g, h)
  BY <1>3 DEF Fields, SameWords
<1>6. v = [x EXCEPT !.r = h]
  BY <1>1, <1>4
<1> HIDE DEF h
<1>7. v \in Worlds /\ v.r = h /\ v.th = x.th /\ v.j = x.j /\ v.f = x.f /\ v.said = x.said
  BY <1>4, <1>5, <1>6 DEF Worlds
<1>8. SameWords(u.r, h)
  BY <1>3, <1>5, SameTwice
<1>9. /\ v \in Worlds /\ v.th = u.th /\ v.j = u.j /\ v.f = u.f /\ v.said = u.said
      /\ v.r.at = at /\ v.r.spent = n /\ v.r.partial = u.r.partial /\ SameWords(u.r, v.r)
  BY <1>3, <1>4, <1>5, <1>7, <1>8
<1> QED
  BY <1>9 DEF v

LEMMA SpentFacts ==
  ASSUME NEW u \in Worlds, NEW n \in Nat
  PROVE  LET v == Spent(u, n)
         IN  /\ v \in Worlds /\ v.th = u.th /\ v.j = u.j /\ v.f = u.f /\ v.said = u.said
             /\ v.r.at = u.r.at /\ v.r.spent = n /\ v.r.partial = u.r.partial /\ SameWords(u.r, v.r)
<1> DEFINE v == Spent(u, n)
           h == [u.r EXCEPT !.spent = n]
<1>1. h \in Fields /\ h.at = u.r.at /\ h.spent = n /\ h.partial = u.r.partial /\ SameWords(u.r, h)
  BY DEF Worlds, Fields, SameWords
<1>2. v = [u EXCEPT !.r = h]
  BY DEF Spent
<1> HIDE DEF h, v
<1>3. v \in Worlds /\ v.r = h /\ v.th = u.th /\ v.j = u.j /\ v.f = u.f /\ v.said = u.said
  BY <1>1, <1>2 DEF Worlds
<1>4. /\ v \in Worlds /\ v.th = u.th /\ v.j = u.j /\ v.f = u.f /\ v.said = u.said
      /\ v.r.at = u.r.at /\ v.r.spent = n /\ v.r.partial = u.r.partial /\ SameWords(u.r, v.r)
  BY <1>1, <1>3
<1> QED
  BY <1>4 DEF v

LEMMA EmptiedFacts ==
  ASSUME NEW u \in Worlds
  PROVE  LET v == Emptied(u)
         IN  /\ v \in Worlds /\ v.th = u.th /\ v.j = u.j /\ v.f = u.f /\ v.said = u.said
             /\ v.r.at = u.r.at /\ v.r.spent = u.r.spent /\ v.r.partial = "empty" /\ SameWords(u.r, v.r)
<1> DEFINE v == Emptied(u)
           h == [u.r EXCEPT !.partial = "empty"]
<1>1. h \in Fields /\ h.at = u.r.at /\ h.spent = u.r.spent /\ h.partial = "empty" /\ SameWords(u.r, h)
  BY DEF Worlds, Fields, SameWords, Partials
<1>2. v = [u EXCEPT !.r = h]
  BY DEF Emptied
<1> HIDE DEF h, v
<1>3. v \in Worlds /\ v.r = h /\ v.th = u.th /\ v.j = u.j /\ v.f = u.f /\ v.said = u.said
  BY <1>1, <1>2 DEF Worlds
<1>4. /\ v \in Worlds /\ v.th = u.th /\ v.j = u.j /\ v.f = u.f /\ v.said = u.said
      /\ v.r.at = u.r.at /\ v.r.spent = u.r.spent /\ v.r.partial = "empty" /\ SameWords(u.r, v.r)
  BY <1>1, <1>3
<1> QED
  BY <1>4 DEF v

(* What a stream's call gives on a surface that hosts streams *)

LEMMA StartHosted ==
  ASSUME hosts, NEW w \in Worlds, NEW c \in Chunks, NEW v \in Start(w, c)
  PROVE  /\ v \in Worlds /\ SameWords(w.r, v.r) /\ v.r.partial = w.r.partial
         /\ v.j = w.j /\ Worse(w.f, v.f)
         /\ v.said = "ok" => /\ v.th = Append(w.th, Fresh(c)) /\ v.f = w.f
                             /\ v.r.at = Len(w.th) + 1 /\ v.r.spent = 0
         /\ v.said # "ok" => /\ v.r.at = w.r.at /\ v.r.spent = w.r.spent
                             /\ v.th = w.th \/ v.th = Append(w.th, Fresh(c))
         /\ v.f.count = w.f.count /\ Len(c.text) <= MaxText => v.said = "ok"
<1> DEFINE a == StartStream(w.th, hosts, c)
<1>1. PICK u \in Called(w, a) :
        v = IF u.said = "ok" THEN [u EXCEPT !.r.at = Len(u.th), !.r.spent = 0]
            ELSE IF u.said = "channel_type_not_supported"
              THEN [u EXCEPT !.r.mode = "buffered", !.r.all = c.text,
                             !.r.posted = <<>>, !.r.broken = FALSE,
                             !.j.part = 1, !.said = "ok"]
            ELSE u
  BY DEF Start
<1>2. w.th \in Thread /\ w.f \in FaultsSet
  BY WorldParts
<1>3. /\ a \in Answers
      /\ Len(c.text) <= MaxText => a.said = "ok"
      /\ a.said \in {"ok", "msg_too_long", "channel_type_not_supported"}
      /\ a.said # "channel_type_not_supported"
      /\ a.said = "ok" => a.th = Append(w.th, Fresh(c))
      /\ a.said # "ok" => a.th = w.th
  BY <1>2, StartAnswer
<1> HIDE DEF a
<1>4. /\ u \in Worlds /\ u.r = w.r /\ u.j = w.j
      /\ u.f.cut = w.f.cut /\ u.f.ends = w.f.ends /\ u.f.count >= w.f.count
      /\ w.f.lost => u.f.lost
      /\ \/ u.th = a.th /\ u.said = a.said /\ u.f = w.f
         \/ u.f.count > w.f.count /\ u.f.count # w.f.count /\ u.said = "failed"
      /\ u.th = w.th \/ u.th = a.th
  <2>1. a \in Answers
    BY <1>3
  <2> QED
    BY <2>1, CalledFacts
<1>5. Worse(w.f, u.f)
  BY <1>4 DEF Worse
<1>7. /\ u.said # "channel_type_not_supported"
      /\ u.said = "ok" => a.said = "ok" /\ u.th = a.th /\ u.f = w.f
      /\ u.f.count = w.f.count => u.said = a.said
  BY <1>3, <1>4
<1>8. CASE u.said = "ok"
  <2>0. u.th = Append(w.th, Fresh(c))
    BY <1>3, <1>7, <1>8
  <2>8. u.th \in Thread
    BY <1>4, WorldParts
  <2>1. u.th \in Thread /\ u.th = Append(w.th, Fresh(c)) /\ Len(u.th) = Len(w.th) + 1 /\ Len(u.th) \in Nat
    BY <1>2, <2>0, <2>8 DEF Thread
  <2> DEFINE at == Len(u.th)
  <2>3. v = MovedTo(u, at, 0)
    BY <1>1, <1>8 DEF MovedTo
  <2>4. u \in Worlds /\ 0 \in Nat
    BY <1>4
  <2>6. at \in Nat
    BY <2>1
  <2> HIDE DEF at
  <2> DEFINE x == MovedTo(u, at, 0)
  <2>7. /\ x \in Worlds /\ x.th = u.th /\ x.j = u.j /\ x.f = u.f /\ x.said = u.said
        /\ x.r.at = at /\ x.r.spent = 0 /\ x.r.partial = u.r.partial /\ SameWords(u.r, x.r)
    BY <2>4, <2>6, MovedFacts
  <2> HIDE DEF x
  <2>9. v = x
    BY <2>3 DEF x
  <2>5. /\ v \in Worlds /\ v.th = u.th /\ v.j = u.j /\ v.f = u.f /\ v.said = u.said
        /\ v.r.at = Len(u.th) /\ v.r.spent = 0 /\ v.r.partial = u.r.partial /\ SameWords(u.r, v.r)
    BY <2>7, <2>9 DEF at
  <2> QED
    BY <1>4, <1>5, <1>7, <1>8, <2>1, <2>5
<1>9. CASE u.said # "ok"
  <2>1. v = u
    BY <1>1, <1>7, <1>9
  <2> QED
    BY <1>3, <1>4, <1>5, <1>9, <2>1, SameSelf
<1> QED
  BY <1>8, <1>9

LEMMA TryHosted ==
  ASSUME NEW w \in Worlds, w.r.at \in DOMAIN w.th, w.th[w.r.at].kind = "stream",
         NEW c \in Chunks, NEW v \in TryAppend(w, c)
  PROVE  /\ v \in Worlds /\ v.r = w.r /\ v.j = w.j /\ Worse(w.f, v.f)
         /\ v.said = "ok" => v.th = [w.th EXCEPT ![w.r.at] = Apply(w.th[w.r.at], c)] /\ v.f = w.f
         /\ v.said \in {"msg_too_long", "message_not_in_streaming_state"} => v.th = w.th /\ v.f = w.f
         /\ v.th = w.th \/ v.th = [w.th EXCEPT ![w.r.at] = Apply(w.th[w.r.at], c)]
         /\ v.said \in {"ok", "failed", "msg_too_long", "message_not_in_streaming_state"}
         /\ v.f.count = w.f.count =>
              /\ v.f = w.f /\ v.said # "failed"
              /\ w.th[w.r.at].state # "open" => v.said = "message_not_in_streaming_state"
              /\ w.th[w.r.at].state = "open" /\ ~Fits(w.th[w.r.at], c) => v.said = "msg_too_long"
              /\ w.th[w.r.at].state = "open" /\ Fits(w.th[w.r.at], c) => v.said = "ok"
<1> DEFINE th == w.th
           i == w.r.at
           a == AppendStream(th, i, c)
<1>0. th \in Thread /\ i \in DOMAIN th /\ th[i].kind # "placed"
  BY WorldParts
<1>1. v \in Called(w, a)
  BY DEF TryAppend
<1>2. th = w.th /\ i = w.r.at
  OBVIOUS
<1> HIDE DEF th, i
<1>3. /\ a \in Answers
      /\ th[i].state # "open" => a.said = "message_not_in_streaming_state"
      /\ th[i].state = "open" /\ ~Fits(th[i], c) => a.said = "msg_too_long"
      /\ th[i].state = "open" /\ Fits(th[i], c) => a.said = "ok"
      /\ a.said \in {"ok", "msg_too_long", "message_not_in_streaming_state"}
      /\ a.said = "ok" => a.th = [th EXCEPT ![i] = Apply(th[i], c)]
      /\ a.said # "ok" => a.th = th
  BY <1>0, AppendAnswer
<1> HIDE DEF a
<1>4. /\ v \in Worlds /\ v.r = w.r /\ v.j = w.j
      /\ v.f.cut = w.f.cut /\ v.f.ends = w.f.ends /\ v.f.count >= w.f.count
      /\ w.f.lost => v.f.lost
      /\ \/ v.th = a.th /\ v.said = a.said /\ v.f = w.f
         \/ v.f.count > w.f.count /\ v.f.count # w.f.count /\ v.said = "failed"
      /\ v.th = w.th \/ v.th = a.th
  <2>1. a \in Answers
    BY <1>3
  <2> QED
    BY <1>1, <2>1, CalledFacts
<1>5. Worse(w.f, v.f)
  BY <1>4 DEF Worse
<1>8. CASE v.th = a.th /\ v.said = a.said /\ v.f = w.f
  BY <1>2, <1>3, <1>4, <1>5, <1>8
<1>9. CASE v.f.count > w.f.count /\ v.f.count # w.f.count /\ v.said = "failed"
  BY <1>2, <1>3, <1>4, <1>5, <1>9
<1> QED
  BY <1>4, <1>8, <1>9

LEMMA StopHosted ==
  ASSUME NEW w \in Worlds, NEW i \in DOMAIN w.th, NEW v \in Called(w, StopStream(w.th, i))
  PROVE  /\ v \in Worlds /\ v.r = w.r /\ v.j = w.j /\ Worse(w.f, v.f)
         /\ v.th = w.th \/ v.th = [w.th EXCEPT ![i] = Stopped(w.th[i])]
         /\ v.f.count = w.f.count =>
              /\ v.f = w.f
              /\ w.th[i].state # "open" => v.th = w.th
              /\ w.th[i].state = "open" => v.th = [w.th EXCEPT ![i] = Stopped(w.th[i])]
<1> DEFINE a == StopStream(w.th, i)
<1>2. w.th \in Thread
  BY WorldParts
<1>3. /\ a \in Answers
      /\ w.th[i].state # "open" => a.said = "message_not_in_streaming_state" /\ a.th = w.th
      /\ w.th[i].state = "open" => a.said = "ok" /\ a.th = [w.th EXCEPT ![i] = Stopped(w.th[i])]
  BY <1>2, StopAnswer
<1>1. v \in Called(w, a)
  OBVIOUS
<1> HIDE DEF a
<1>4. /\ v \in Worlds /\ v.r = w.r /\ v.j = w.j
      /\ v.f.cut = w.f.cut /\ v.f.ends = w.f.ends /\ v.f.count >= w.f.count
      /\ w.f.lost => v.f.lost
      /\ \/ v.th = a.th /\ v.said = a.said /\ v.f = w.f
         \/ v.f.count > w.f.count /\ v.f.count # w.f.count /\ v.said = "failed"
      /\ v.th = w.th \/ v.th = a.th
  <2>1. a \in Answers
    BY <1>3
  <2> QED
    BY <1>1, <2>1, CalledFacts
<1>5. Worse(w.f, v.f)
  BY <1>4 DEF Worse
<1>8. CASE v.th = a.th /\ v.said = a.said /\ v.f = w.f
  BY <1>3, <1>4, <1>5, <1>8
<1>9. CASE v.f.count > w.f.count /\ v.f.count # w.f.count /\ v.said = "failed"
  BY <1>3, <1>4, <1>5, <1>9
<1> QED
  BY <1>4, <1>8, <1>9

(* The stream being written, and no words after it *)
StreamAt(th, at) ==
  at # 0 => /\ at \in DOMAIN th /\ th[at].kind = "stream"
            /\ \A j \in DOMAIN th : j > at => SaidIn(th[j]) = {}

Wordless(c) == \A p \in DOMAIN c.text : c.text[p] <= 0

LEMMA QuietStream ==
  ASSUME NEW th \in Thread, NEW th2 \in Thread, Quiet(th, th2), NEW at \in Nat, StreamAt(th, at)
  PROVE  StreamAt(th2, at)
BY DEF Quiet, StreamAt, Thread

LEMMA OpenerCloser ==
  /\ Words(Opener) \in Chunks /\ Wordless(Words(Opener)) /\ Len(Words(Opener).text) = 2
  /\ Words(Opener).text = <<MARK, NL>>
  /\ Words(Closer) \in Chunks /\ Wordless(Words(Closer)) /\ Len(Words(Closer).text) = 3
  /\ Words(Closer).text = <<NL, MARK, NL>>
  /\ Words(Opener).lists = <<>> /\ Words(Closer).lists = <<>>
<1>1. Opener \in Seq(Int) /\ Closer \in Seq(Int)
  BY DEF Opener, Closer, NL, MARK
<1>2. Words(Opener) \in Chunks /\ Words(Opener).text = Opener /\ Words(Opener).lists = <<>>
  BY <1>1, WordsTyped
<1>3. Words(Closer) \in Chunks /\ Words(Closer).text = Closer /\ Words(Closer).lists = <<>>
  BY <1>1, WordsTyped
<1> QED
  BY <1>2, <1>3 DEF Opener, Closer, NL, MARK, Wordless

LEMMA QuietStart ==
  ASSUME NEW th \in Thread, NEW c \in Chunks, Wordless(c)
  PROVE  Quiet(th, Append(th, Fresh(c)))
<1>1. Fresh(c) \in Message /\ Fresh(c).kind = "stream" /\ Fresh(c).text = c.text
  BY FreshFacts
<1>2. SaidIn(Fresh(c)) = {}
  <2>1. \A p \in DOMAIN c.text : ~(c.text[p] > 0)
    BY DEF Wordless, Chunks
  <2> QED
    BY <1>1, <2>1 DEF SaidIn
<1> QED
  BY <1>1, <1>2, QuietAppend

LEMMA QuietApply ==
  ASSUME NEW th \in Thread, NEW i \in DOMAIN th, th[i].kind = "stream", NEW c \in Chunks, Wordless(c)
  PROVE  Quiet(th, [th EXCEPT ![i] = Apply(th[i], c)])
<1>1. th[i] \in Message
  BY DEF Thread
<1> DEFINE m == Apply(th[i], c)
<1>2. m \in Message /\ m.kind = "stream" /\ m.text = th[i].text \o c.text
  BY <1>1, ApplyTyped
<1> HIDE DEF m
<1>3. c.text \in Seq(Int) /\ \A p \in DOMAIN c.text : c.text[p] <= 0
  BY DEF Wordless, Chunks
<1>4. SaidIn(m) = SaidIn(th[i]) /\ \A p \in SaidIn(m) : m.text[p] = th[i].text[p]
  BY <1>1, <1>2, <1>3, NothingSaid
<1>5. Quiet(th, [th EXCEPT ![i] = m])
  BY <1>2, <1>4, QuietExcept
<1> QED
  BY <1>5 DEF m

LEMMA QuietStop ==
  ASSUME NEW th \in Thread, NEW i \in DOMAIN th
  PROVE  Quiet(th, [th EXCEPT ![i] = Stopped(th[i])])
<1>1. th[i] \in Message
  BY DEF Thread
<1> DEFINE m == Stopped(th[i])
<1>2. m \in Message /\ m.kind = th[i].kind /\ m.text = th[i].text
  BY <1>1, StoppedFacts
<1> HIDE DEF m
<1>3. SaidIn(m) = SaidIn(th[i])
  BY <1>2 DEF SaidIn
<1>4. Quiet(th, [th EXCEPT ![i] = m])
  BY <1>2, <1>3, QuietExcept
<1> QED
  BY <1>4 DEF m

(* What becomes of a message whose stream is left, if every call is carried out. *)
Shut(m, fenced) ==
  IF m.state # "open" THEN m
  ELSE Stopped(IF fenced /\ Fits(m, Words(Closer)) THEN Apply(m, Words(Closer)) ELSE m)

ShutAt(th, at, fenced) == [th EXCEPT ![at] = Shut(th[at], fenced)]

LEMMA ExceptTwice ==
  ASSUME NEW th \in Thread, NEW i \in DOMAIN th, NEW m, NEW n
  PROVE  [[th EXCEPT ![i] = m] EXCEPT ![i] = n] = [th EXCEPT ![i] = n]
BY DEF Thread

LEMMA RolloverHosted ==
  ASSUME hosts, NEW w \in Worlds, w.r.mode = "streaming", StreamAt(w.th, w.r.at),
         NEW v \in Rollover(w)
  PROVE  /\ v \in Worlds /\ SameWords(w.r, v.r) /\ v.j = w.j /\ Worse(w.f, v.f)
         /\ Quiet(w.th, v.th)
         /\ w.r.at = 0 => v = w
         /\ w.r.at # 0 => /\ \/ v.r.at = 0 /\ v.r.spent = 0
                             \/ /\ v.r.at > Len(w.th) /\ v.r.at = Len(v.th) /\ v.r.spent = 2
                                /\ v.th[v.r.at].kind = "stream"
                          /\ v.r.partial = "empty"
         /\ w.r.at # 0 /\ v.f.count = w.f.count =>
              /\ v.f = w.f
              /\ IF w.r.fenced
                 THEN /\ v.th = Append(ShutAt(w.th, w.r.at, TRUE), Fresh(Words(Opener)))
                      /\ v.r.at = Len(w.th) + 1 /\ v.r.spent = 2
                 ELSE /\ v.th = ShutAt(w.th, w.r.at, FALSE)
                      /\ v.r.at = 0 /\ v.r.spent = 0
<1> DEFINE at == w.r.at
           fenced == w.r.fenced
<1>1. w.th \in Thread /\ w.r \in Fields /\ w.f \in FaultsSet
  BY WorldParts
<1>2. CASE at = 0
  <2>1. v = w
    BY <1>2 DEF Rollover
  <2> QED
    BY <1>1, <1>2, <2>1, QuietSame, WorseFacts, SameSelf
<1>3. CASE at # 0
  <2>0. at \in DOMAIN w.th /\ w.th[at].kind = "stream" /\ at \in Nat
    BY <1>1, <1>3 DEF StreamAt, Fields
  <2> DEFINE closed  == IF fenced THEN Called(w, AppendStream(w.th, at, Words(Closer))) ELSE {w}
             stopped == UNION {Called(u, StopStream(u.th, at)) : u \in closed}
             left    == {MovedTo(u, 0, 0) : u \in stopped}
             opened  == {IF u.said = "ok" THEN Spent(u, Len(Opener)) ELSE u
                         : u \in UNION {Start(t, Words(Opener)) : t \in left}}
  <2>a. Rollover(w) = {Emptied(u) : u \in IF fenced THEN opened ELSE left}
    BY <1>3 DEF Rollover, Emptied, MovedTo, Spent
  <2>c. \A z \in left : \E x \in closed : \E y \in Called(x, StopStream(x.th, at)) : z = MovedTo(y, 0, 0)
    OBVIOUS
  <2>d. \A u \in opened : \E z \in left : \E t \in Start(z, Words(Opener)) :
          u = IF t.said = "ok" THEN Spent(t, Len(Opener)) ELSE t
    OBVIOUS
  <2> HIDE DEF opened, left, stopped
  <2>e. \E z \in left :
          \/ ~fenced /\ v = Emptied(z)
          \/ fenced /\ \E t \in Start(z, Words(Opener)) :
                         v = Emptied(IF t.said = "ok" THEN Spent(t, Len(Opener)) ELSE t)
    <3>1. CASE ~fenced
      BY <2>a, <3>1
    <3>2. CASE fenced
      <4>1. PICK u \in opened : v = Emptied(u)
        BY <2>a, <3>2
      <4>3. PICK z \in left : \E t \in Start(z, Words(Opener)) :
               u = IF t.said = "ok" THEN Spent(t, Len(Opener)) ELSE t
        BY <2>d
      <4>2. PICK t \in Start(z, Words(Opener)) :
               u = IF t.said = "ok" THEN Spent(t, Len(Opener)) ELSE t
        BY <4>3
      <4> QED
        BY <3>2, <4>1, <4>2
    <3> QED
      BY <3>1, <3>2
  <2>f. PICK q \in left :
          \/ ~fenced /\ v = Emptied(q)
          \/ fenced /\ \E t \in Start(q, Words(Opener)) :
                         v = Emptied(IF t.said = "ok" THEN Spent(t, Len(Opener)) ELSE t)
    BY <2>e
  <2>g. PICK x \in closed : \E y \in Called(x, StopStream(x.th, at)) : q = MovedTo(y, 0, 0)
    BY <2>c
  <2>h. PICK y \in Called(x, StopStream(x.th, at)) : q = MovedTo(y, 0, 0)
    BY <2>g
  <2>1. /\ x \in (IF fenced THEN Called(w, AppendStream(w.th, at, Words(Closer))) ELSE {w})
        /\ y \in Called(x, StopStream(x.th, at))
        /\ \/ ~fenced /\ v = Emptied(MovedTo(y, 0, 0))
           \/ fenced /\ \E t \in Start(MovedTo(y, 0, 0), Words(Opener)) :
                          v = Emptied(IF t.said = "ok" THEN Spent(t, Len(Opener)) ELSE t)
    BY <2>f, <2>g, <2>h
  <2> HIDE DEF closed
  <2>2. /\ x \in Worlds /\ x.r = w.r /\ x.j = w.j /\ Worse(w.f, x.f)
        /\ Quiet(w.th, x.th)
        /\ x.th \in Thread /\ DOMAIN x.th = DOMAIN w.th /\ Len(x.th) = Len(w.th)
        /\ x.f.count = w.f.count =>
             /\ x.f = w.f
             /\ x.th = [w.th EXCEPT ![at] =
                          IF w.th[at].state = "open" /\ fenced /\ Fits(w.th[at], Words(Closer))
                          THEN Apply(w.th[at], Words(Closer)) ELSE w.th[at]]
    <3>1. CASE ~fenced
      <4>1. x = w
        BY <3>1, <2>1
      <4>2. w.th = [w.th EXCEPT ![at] = w.th[at]]
        BY <1>1, <2>0 DEF Thread
      <4> QED
        BY <1>1, <3>1, <4>1, <4>2, QuietSame, WorseFacts
    <3>2. CASE fenced
      <4> DEFINE c == Words(Closer)
                 th2 == [w.th EXCEPT ![at] = Apply(w.th[at], c)]
      <4>1. c \in Chunks /\ Wordless(c)
        BY OpenerCloser
      <4>2. x \in TryAppend(w, c)
        BY <3>2, <2>1 DEF TryAppend
      <4> HIDE DEF c
      <4>3. /\ x \in Worlds /\ x.r = w.r /\ x.j = w.j /\ Worse(w.f, x.f)
            /\ x.said = "ok" => x.th = th2 /\ x.f = w.f
            /\ x.said \in {"msg_too_long", "message_not_in_streaming_state"} => x.th = w.th /\ x.f = w.f
            /\ x.th = w.th \/ x.th = th2
            /\ x.f.count = w.f.count =>
              /\ x.f = w.f /\ x.said # "failed"
              /\ w.th[at].state # "open" => x.said = "message_not_in_streaming_state"
              /\ w.th[at].state = "open" /\ ~Fits(w.th[at], c) => x.said = "msg_too_long"
              /\ w.th[at].state = "open" /\ Fits(w.th[at], c) => x.said = "ok"
        BY <2>0, <4>1, <4>2, TryHosted
      <4>4. Quiet(w.th, th2) /\ DOMAIN th2 = DOMAIN w.th
        BY <1>1, <2>0, <4>1, QuietApply
      <4>5. x.th \in Thread
        BY <4>3, WorldParts
      <4>6. Quiet(w.th, x.th) /\ DOMAIN x.th = DOMAIN w.th
        BY <1>1, <4>3, <4>4, QuietSame
      <4>7. Len(x.th) = Len(w.th)
        BY <1>1, <4>5, <4>6 DEF Thread
      <4>8. w.th = [w.th EXCEPT ![at] = w.th[at]]
        BY <1>1, <2>0 DEF Thread
      <4>9. ASSUME x.f.count = w.f.count
            PROVE  x.f = w.f /\ x.th = [w.th EXCEPT ![at] =
                          IF w.th[at].state = "open" /\ fenced /\ Fits(w.th[at], c)
                          THEN Apply(w.th[at], c) ELSE w.th[at]]
        <5>1. CASE w.th[at].state = "open" /\ Fits(w.th[at], c)
          BY <3>2, <4>3, <4>9, <5>1
        <5>2. CASE ~(w.th[at].state = "open" /\ Fits(w.th[at], c))
          <6>1. x.th = w.th /\ x.f = w.f
            BY <4>3, <4>9, <5>2
          <6> QED
            BY <4>8, <5>2, <6>1
        <5> QED
          BY <5>1, <5>2
      <4> QED
        BY <4>3, <4>5, <4>6, <4>7, <4>9 DEF c
    <3> QED
      BY <3>1, <3>2
  <2>3. /\ y \in Worlds /\ y.r = w.r /\ y.j = w.j /\ Worse(w.f, y.f)
        /\ Quiet(w.th, y.th)
        /\ y.th \in Thread /\ DOMAIN y.th = DOMAIN w.th /\ Len(y.th) = Len(w.th)
        /\ y.f.count = w.f.count => y.f = w.f /\ y.th = ShutAt(w.th, at, fenced)
    <3>1. at \in DOMAIN x.th
      BY <2>0, <2>2
    <3>2. /\ y \in Worlds /\ y.r = x.r /\ y.j = x.j /\ Worse(x.f, y.f)
          /\ y.th = x.th \/ y.th = [x.th EXCEPT ![at] = Stopped(x.th[at])]
          /\ y.f.count = x.f.count =>
              /\ y.f = x.f
              /\ x.th[at].state # "open" => y.th = x.th
              /\ x.th[at].state = "open" => y.th = [x.th EXCEPT ![at] = Stopped(x.th[at])]
      <4>1. x \in Worlds
        BY <2>2
      <4>2. y \in Called(x, StopStream(x.th, at))
        BY <2>1
      <4> HIDE DEF at
      <4> QED
        BY <3>1, <4>1, <4>2, StopHosted
    <3>3. Quiet(x.th, y.th) /\ DOMAIN y.th = DOMAIN x.th
      <4>1. Quiet(x.th, [x.th EXCEPT ![at] = Stopped(x.th[at])])
        BY <2>2, <3>1, QuietStop
      <4>2. Quiet(x.th, x.th)
        BY <2>2, QuietSame
      <4> QED
        BY <3>2, <4>1, <4>2
    <3>4. Quiet(w.th, y.th)
      BY <2>2, <3>3, QuietTwice
    <3>5. y.th \in Thread
      BY <3>2, WorldParts
    <3>6. Len(y.th) = Len(w.th)
      BY <1>1, <2>2, <3>3, <3>5 DEF Thread
    <3>7. Worse(w.f, y.f)
      <4>1. x.f \in FaultsSet /\ y.f \in FaultsSet
        BY <2>2, <3>2, WorldParts
      <4> QED
        BY <1>1, <2>2, <3>2, <4>1, WorseFacts
    <3>8. ASSUME y.f.count = w.f.count
          PROVE  y.f = w.f /\ y.th = ShutAt(w.th, at, fenced)
      <4>1. x.f.count = w.f.count /\ y.f.count = x.f.count
        <5>1. x.f \in FaultsSet /\ y.f \in FaultsSet
          BY <2>2, <3>2, WorldParts
        <5> QED
          BY <1>1, <2>2, <3>2, <3>8, <5>1 DEF Worse, FaultsSet
      <4> DEFINE m == w.th[at]
                 n == IF m.state = "open" /\ fenced /\ Fits(m, Words(Closer))
                      THEN Apply(m, Words(Closer)) ELSE m
      <4>2. x.th = [w.th EXCEPT ![at] = n] /\ x.f = w.f
        BY <2>2, <4>1
      <4>3. m \in Message
        BY <1>1, <2>0 DEF Thread
      <4>4. n.state = m.state
        <5>1. Apply(m, Words(Closer)).state = m.state
          BY <2>0, <4>3, ApplyTyped, OpenerCloser
        <5> QED
          BY <5>1
      <4> HIDE DEF n
      <4>5. x.th[at] = n
        BY <1>1, <2>0, <4>2 DEF Thread
      <4>6. CASE m.state # "open"
        <5>1. n = m
          BY <4>6 DEF n
        <5>2. y.th = [w.th EXCEPT ![at] = m]
          BY <3>2, <4>1, <4>2, <4>4, <4>5, <4>6, <5>1
        <5>3. Shut(m, fenced) = m
          BY <4>6 DEF Shut
        <5> QED
          BY <3>2, <4>1, <4>2, <5>2, <5>3 DEF ShutAt
      <4>7. CASE m.state = "open"
        <5>1. y.th = [[w.th EXCEPT ![at] = n] EXCEPT ![at] = Stopped(n)]
          BY <3>2, <4>1, <4>2, <4>4, <4>5, <4>7
        <5>2. y.th = [w.th EXCEPT ![at] = Stopped(n)]
          BY <1>1, <2>0, <5>1, ExceptTwice
        <5>3. Shut(m, fenced) = Stopped(n)
          BY <4>7 DEF Shut, n
        <5> QED
          BY <3>2, <4>1, <4>2, <5>2, <5>3 DEF ShutAt
      <4> QED
        BY <4>6, <4>7
    <3> QED
      BY <2>2, <3>2, <3>3, <3>4, <3>5, <3>6, <3>7, <3>8
  <2> DEFINE z == MovedTo(y, 0, 0)
  <2>4. /\ z \in Worlds /\ z.th = y.th /\ z.j = w.j /\ z.f = y.f
        /\ z.r.at = 0 /\ z.r.spent = 0 /\ SameWords(w.r, z.r)
    <3>1. y \in Worlds /\ 0 \in Nat
      BY <2>3
    <3>2. /\ z \in Worlds /\ z.th = y.th /\ z.j = y.j /\ z.f = y.f
          /\ z.r.at = 0 /\ z.r.spent = 0 /\ SameWords(y.r, z.r)
      BY <3>1, MovedFacts
    <3> QED
      BY <2>3, <3>2
  <2> HIDE DEF z
  <2>5. CASE ~fenced
    <3>1. v = Emptied(z)
      BY <2>1, <2>5 DEF z
    <3>2. /\ v \in Worlds /\ v.th = z.th /\ v.j = z.j /\ v.f = z.f
          /\ v.r.at = z.r.at /\ v.r.spent = z.r.spent /\ v.r.partial = "empty" /\ SameWords(z.r, v.r)
      BY <2>4, <3>1, EmptiedFacts
    <3>3. SameWords(w.r, v.r)
      BY <2>4, <3>2, SameTwice
    <3>4. fenced = FALSE
      BY <1>1, <2>5 DEF Fields
    <3> QED
      BY <1>3, <2>3, <2>4, <3>2, <3>3, <3>4
  <2>6. CASE fenced
    <3> DEFINE o == Words(Opener)
    <3>1. o \in Chunks /\ Wordless(o) /\ Len(o.text) = 2 /\ Len(Opener) = 2 /\ 2 \in Nat
      BY OpenerCloser DEF Opener
    <3>2. PICK t \in Start(z, o) : v = Emptied(IF t.said = "ok" THEN Spent(t, 2) ELSE t)
      BY <2>1, <2>6, <3>1 DEF z
    <3> HIDE DEF o
    <3>3. /\ t \in Worlds /\ SameWords(z.r, t.r) /\ t.j = z.j /\ Worse(z.f, t.f)
          /\ t.said = "ok" => /\ t.th = Append(z.th, Fresh(o)) /\ t.f = z.f
                              /\ t.r.at = Len(z.th) + 1 /\ t.r.spent = 0
          /\ t.said # "ok" => /\ t.r.at = z.r.at /\ t.r.spent = z.r.spent
                              /\ t.th = z.th \/ t.th = Append(z.th, Fresh(o))
          /\ t.f.count = z.f.count /\ Len(o.text) <= MaxText => t.said = "ok"
      BY <2>4, <3>1, <3>2, StartHosted
    <3> DEFINE s == IF t.said = "ok" THEN Spent(t, 2) ELSE t
    <3>4. /\ s \in Worlds /\ s.th = t.th /\ s.j = t.j /\ s.f = t.f /\ s.r.at = t.r.at /\ SameWords(t.r, s.r)
          /\ s.r.spent = IF t.said = "ok" THEN 2 ELSE t.r.spent
      <4>1. CASE t.said = "ok"
        <5>1. /\ Spent(t, 2) \in Worlds /\ Spent(t, 2).th = t.th /\ Spent(t, 2).j = t.j
              /\ Spent(t, 2).f = t.f /\ Spent(t, 2).r.at = t.r.at /\ Spent(t, 2).r.spent = 2
              /\ SameWords(t.r, Spent(t, 2).r)
          BY <3>1, <3>3, SpentFacts
        <5> QED
          BY <4>1, <5>1
      <4>2. CASE t.said # "ok"
        BY <3>3, <4>2, SameSelf
      <4> QED
        BY <4>1, <4>2
    <3> HIDE DEF s
    <3>5. v = Emptied(s)
      BY <3>2 DEF s
    <3>6. /\ v \in Worlds /\ v.th = s.th /\ v.j = s.j /\ v.f = s.f
          /\ v.r.at = s.r.at /\ v.r.spent = s.r.spent /\ v.r.partial = "empty" /\ SameWords(s.r, v.r)
      BY <3>4, <3>5, EmptiedFacts
    <3>7. SameWords(w.r, v.r)
      BY <2>4, <3>3, <3>4, <3>6, SameTwice
    <3>8. Worse(w.f, v.f)
      <4>1. z.f \in FaultsSet /\ t.f \in FaultsSet
        BY <2>4, <3>3, WorldParts
      <4> QED
        BY <1>1, <2>3, <2>4, <3>3, <3>4, <3>6, <4>1, WorseFacts
    <3>9. Quiet(w.th, v.th)
      <4>1. Quiet(z.th, Append(z.th, Fresh(o))) /\ Quiet(z.th, z.th)
        <5>1. z.th \in Thread
          BY <2>4, WorldParts
        <5> QED
          BY <3>1, <5>1, QuietStart, QuietSame
      <4>2. Quiet(z.th, v.th)
        BY <3>3, <3>4, <3>6, <4>1
      <4> QED
        BY <2>3, <2>4, <4>2, QuietTwice
    <3>10. CASE t.said = "ok"
      <4>1. v.th = Append(y.th, Fresh(o)) /\ v.r.at = Len(w.th) + 1 /\ v.r.spent = 2 /\ v.f = y.f
        BY <2>3, <2>4, <3>3, <3>4, <3>6, <3>10
      <4>2. Len(w.th) \in Nat /\ Len(y.th) \in Nat
        BY <1>1, <2>3 DEF Thread
      <4>3. Len(v.th) = Len(w.th) + 1 /\ v.th[Len(w.th) + 1] = Fresh(o)
        BY <2>3, <4>1, <4>2 DEF Thread
      <4>4. Fresh(o).kind = "stream"
        BY <3>1, FreshFacts
      <4>5. v.r.at > Len(w.th) /\ v.r.at = Len(v.th) /\ v.th[v.r.at].kind = "stream"
        BY <4>1, <4>2, <4>3, <4>4
      <4>6. ASSUME v.f.count = w.f.count
            PROVE  v.f = w.f /\ v.th = Append(ShutAt(w.th, at, TRUE), Fresh(Words(Opener)))
        BY <2>3, <2>6, <4>1, <4>6 DEF o
      <4> QED
        BY <1>3, <2>6, <3>6, <3>7, <3>8, <3>9, <4>1, <4>5, <4>6, <2>4, <3>3, <3>4
    <3>11. CASE t.said # "ok"
      <4>1. v.r.at = 0 /\ v.r.spent = 0
        BY <2>4, <3>3, <3>4, <3>6, <3>11
      <4>2. v.f.count # w.f.count
        <5>1. t.f.count # z.f.count
          BY <3>1, <3>3, <3>11, Bounds
        <5>2. t.f \in FaultsSet /\ y.f \in FaultsSet
          BY <2>3, <3>3, WorldParts
        <5> QED
          BY <1>1, <2>3, <2>4, <3>3, <3>4, <3>6, <5>1, <5>2 DEF Worse, FaultsSet
      <4> QED
        BY <1>3, <2>4, <3>3, <3>4, <3>6, <3>7, <3>8, <3>9, <4>1, <4>2
    <3> QED
      BY <3>10, <3>11
  <2> QED
    BY <2>5, <2>6
<1> QED
  BY <1>2, <1>3

(* The message at i, below which nothing is said, got the chunk. *)
Written(th, th2, c, i) ==
  \E th1 \in Thread :
    /\ Quiet(th, th1)
    /\ i \in DOMAIN th1 /\ th1[i].kind = "stream"
    /\ \A j \in DOMAIN th1 : j > i => SaidIn(th1[j]) = {}
    /\ th2 = [th1 EXCEPT ![i] = Apply(th1[i], c)]

LEMMA WrittenQuiet ==
  ASSUME NEW th \in Thread, NEW th2, NEW c \in Chunks, Wordless(c), NEW i, Written(th, th2, c, i)
  PROVE  Quiet(th, th2)
<1>1. PICK th1 \in Thread :
        /\ Quiet(th, th1)
        /\ i \in DOMAIN th1 /\ th1[i].kind = "stream"
        /\ th2 = [th1 EXCEPT ![i] = Apply(th1[i], c)]
  BY DEF Written
<1>2. Quiet(th1, th2)
  BY <1>1, QuietApply
<1> QED
  BY <1>1, <1>2, QuietTwice

LEMMA AppendExcept ==
  ASSUME NEW th \in Thread, NEW m \in Message, NEW n \in Message
  PROVE  [Append(th, m) EXCEPT ![Len(th) + 1] = n] = Append(th, n)
<1> DEFINE k == Len(th) + 1
           x == Append(th, m)
           y == Append(th, n)
<1>1. k \in Nat /\ Len(th) \in Nat
  BY DEF Thread
<1>2. x \in [1 .. k -> Message] /\ y \in [1 .. k -> Message]
  <2>1. x \in Seq(Message) /\ y \in Seq(Message) /\ Len(x) = k /\ Len(y) = k
    BY DEF Thread
  <2> HIDE DEF x, y, k
  <2> QED
    BY <2>1
<1>3. y[k] = n /\ \A i \in 1 .. k : i # k => x[i] = y[i]
  BY DEF Thread
<1> HIDE DEF k, x, y
<1>4. [x EXCEPT ![k] = n] \in [1 .. k -> Message]
  BY <1>2
<1>5. \A i \in 1 .. k : [x EXCEPT ![k] = n][i] = y[i]
  BY <1>2, <1>3
<1>6. [x EXCEPT ![k] = n] = y
  BY <1>2, <1>4, <1>5
<1> QED
  BY <1>6 DEF x, y, k

LEMMA LenConcat ==
  ASSUME NEW s \in Seq(Int), NEW t \in Seq(Int)
  PROVE  Len(s \o t) = Len(s) + Len(t) /\ Len(s) \in Nat /\ Len(t) \in Nat
OBVIOUS

LEMMA StartWrites ==
  ASSUME NEW th \in Thread, NEW c \in Chunks, NEW th0, Quiet(th0, th)
  PROVE  Written(th0, Append(th, Fresh(c)), c, Len(th) + 1)
<1> DEFINE n  == NewMessage("stream", <<>>)
           th1 == Append(th, n)
           i   == Len(th) + 1
<1>1. n \in Message /\ n.kind = "stream" /\ n.text = <<>>
  BY NewMessageTyped
<1>2. SaidIn(n) = {}
  BY <1>1 DEF SaidIn
<1>3. Fresh(c) = Apply(n, c)
  BY DEF Fresh
<1> HIDE DEF n
<1>4. Len(th) \in Nat /\ th1 \in Thread /\ DOMAIN th1 = 1 .. Len(th) + 1 /\ i \in DOMAIN th1 /\ th1[i] = n
  BY <1>1 DEF Thread
<1>5. Quiet(th, th1)
  BY <1>1, <1>2, QuietAppend
<1>6. Quiet(th0, th1)
  BY <1>5, QuietTwice
<1>7. \A j \in DOMAIN th1 : ~(j > i)
  BY <1>4
<1>8. Append(th, Fresh(c)) = [th1 EXCEPT ![i] = Apply(th1[i], c)]
  <2>1. Fresh(c) \in Message
    BY FreshFacts
  <2> DEFINE m == Fresh(c)
  <2>3. m \in Message
    BY <2>1
  <2> HIDE DEF m
  <2>2. Append(th, m) = [Append(th, n) EXCEPT ![Len(th) + 1] = m]
    BY <1>1, <2>3, AppendExcept
  <2> QED
    BY <1>3, <1>4, <2>2 DEF m
<1> HIDE DEF th1, i
<1>9. Written(th0, Append(th, Fresh(c)), c, i)
  BY <1>1, <1>4, <1>6, <1>7, <1>8 DEF Written
<1> QED
  BY <1>9 DEF i

LEMMA AppendWrites ==
  ASSUME NEW th \in Thread, NEW at \in Nat, at # 0, StreamAt(th, at), NEW c \in Chunks,
         NEW th0, Quiet(th0, th)
  PROVE  Written(th0, [th EXCEPT ![at] = Apply(th[at], c)], c, at)
BY DEF Written, StreamAt

LEMMA WrittenStream ==
  ASSUME NEW th, NEW th2 \in Thread, NEW c \in Chunks, NEW i \in Nat, Written(th, th2, c, i)
  PROVE  StreamAt(th2, i)
<1>1. PICK th1 \in Thread :
        /\ i \in DOMAIN th1 /\ th1[i].kind = "stream"
        /\ \A j \in DOMAIN th1 : j > i => SaidIn(th1[j]) = {}
        /\ th2 = [th1 EXCEPT ![i] = Apply(th1[i], c)]
  BY DEF Written
<1>2. th1[i] \in Message
  BY <1>1 DEF Thread
<1>3. Apply(th1[i], c).kind = "stream"
  BY <1>1, <1>2, ApplyTyped
<1>4. DOMAIN th2 = DOMAIN th1 /\ DOMAIN th1 \subseteq Nat
  BY <1>1 DEF Thread
<1>5. th2[i].kind = "stream" /\ \A j \in DOMAIN th1 : j > i => th2[j] = th1[j]
  BY <1>1, <1>3, <1>4
<1> QED
  BY <1>1, <1>4, <1>5 DEF StreamAt

(* What a chunk does if every call is carried out. *)
CalmAppend(w, v, c) ==
  LET at == w.r.at
  IN  \/ /\ at = 0
         /\ v.th = Append(w.th, Fresh(c)) /\ v.r.at = Len(w.th) + 1
         /\ v.r.spent = 0 /\ v.r.partial = w.r.partial
      \/ /\ at # 0 /\ w.th[at].state = "open" /\ Fits(w.th[at], c)
         /\ v.th = [w.th EXCEPT ![at] = Apply(w.th[at], c)] /\ v.r.at = at
         /\ v.r.spent = w.r.spent /\ v.r.partial = w.r.partial
      \/ /\ at # 0 /\ ~(w.th[at].state = "open" /\ Fits(w.th[at], c))
         /\ v.r.at = Len(w.th) + 1 /\ v.r.partial = "empty"
         /\ IF w.r.fenced
            THEN /\ v.th = Append(ShutAt(w.th, at, TRUE), Apply(Fresh(Words(Opener)), c))
                 /\ v.r.spent = 2
            ELSE /\ v.th = Append(ShutAt(w.th, at, FALSE), Fresh(c))
                 /\ v.r.spent = 0

LEMMA ShutAtTyped ==
  ASSUME NEW th \in Thread, NEW at \in DOMAIN th, th[at].kind = "stream", NEW fenced \in BOOLEAN
  PROVE  /\ ShutAt(th, at, fenced) \in Thread /\ DOMAIN ShutAt(th, at, fenced) = DOMAIN th
         /\ Len(ShutAt(th, at, fenced)) = Len(th)
         /\ \A j \in DOMAIN th \ {at} : ShutAt(th, at, fenced)[j] = th[j]
         /\ ShutAt(th, at, fenced)[at] = Shut(th[at], fenced)
         /\ Shut(th[at], fenced) \in Message /\ Shut(th[at], fenced).kind = "stream"
<1>1. th[at] \in Message /\ th[at].kind # "placed"
  BY DEF Thread
<1> DEFINE c == Words(Closer)
           m == th[at]
           n == IF fenced /\ Fits(m, c) THEN Apply(m, c) ELSE m
           s == Shut(m, fenced)
<1>2. c \in Chunks
  BY OpenerCloser
<1> HIDE DEF c
<1>3. Apply(m, c) \in Message /\ Apply(m, c).kind = m.kind
  BY <1>1, <1>2, ApplyTyped
<1>4. n \in Message /\ n.kind = "stream"
  BY <1>1, <1>3
<1>5. s = IF m.state # "open" THEN m ELSE Stopped(n)
  BY DEF Shut, c
<1> HIDE DEF n
<1>6. Stopped(n) \in Message /\ Stopped(n).kind = "stream"
  BY <1>4, StoppedFacts
<1>7. s \in Message /\ s.kind = "stream"
  BY <1>1, <1>5, <1>6
<1> HIDE DEF s
<1>8. ShutAt(th, at, fenced) = [th EXCEPT ![at] = s]
  BY DEF ShutAt, s
<1>9. [th EXCEPT ![at] = s] \in Thread /\ DOMAIN [th EXCEPT ![at] = s] = DOMAIN th
  BY <1>7 DEF Thread
<1>10. Len([th EXCEPT ![at] = s]) = Len(th)
  BY <1>7 DEF Thread
<1>11. [th EXCEPT ![at] = s][at] = s /\ \A j \in DOMAIN th \ {at} : [th EXCEPT ![at] = s][j] = th[j]
  BY DEF Thread
<1> QED
  BY <1>7, <1>8, <1>9, <1>10, <1>11 DEF s

LEMMA AppendHosted ==
  ASSUME hosts, NEW w \in Worlds, w.r.mode = "streaming", StreamAt(w.th, w.r.at),
         NEW c \in Chunks, NEW v \in AppendChunk(w, c)
  PROVE  /\ v \in Worlds /\ SameWords(w.r, v.r) /\ v.j = w.j /\ Worse(w.f, v.f)
         /\ \/ v.said # "ok" /\ Quiet(w.th, v.th)
            \/ \E i \in Nat : /\ Written(w.th, v.th, c, i)
                              /\ i = w.r.at \/ i > Len(w.th)
                              /\ v.r.at = 0 \/ v.r.at = i
                              /\ v.said = "ok" => v.r.at = i
         /\ v.r.at = w.r.at \/ v.r.at = 0 \/ v.r.at > Len(w.th)
         /\ StreamAt(v.th, v.r.at)
         /\ v.r.spent \in {w.r.spent, 0, 2} /\ v.r.partial \in {w.r.partial, "empty"}
         /\ v.f.count = w.f.count /\ Len(c.text) + 2 <= MaxText =>
              v.said = "ok" /\ v.f = w.f /\ CalmAppend(w, v, c)
<1>1. w.th \in Thread /\ w.r \in Fields /\ w.f \in FaultsSet /\ w.r.at \in Nat /\ w.r.fenced \in BOOLEAN
  BY WorldParts DEF Fields
<1>2. CASE w.r.at = 0
  <2>1. v \in Start(w, c)
    BY <1>2 DEF AppendChunk
  <2>2. /\ v \in Worlds /\ SameWords(w.r, v.r) /\ v.r.partial = w.r.partial
        /\ v.j = w.j /\ Worse(w.f, v.f)
        /\ v.said = "ok" => /\ v.th = Append(w.th, Fresh(c)) /\ v.f = w.f
                            /\ v.r.at = Len(w.th) + 1 /\ v.r.spent = 0
        /\ v.said # "ok" => /\ v.r.at = w.r.at /\ v.r.spent = w.r.spent
                            /\ v.th = w.th \/ v.th = Append(w.th, Fresh(c))
        /\ v.f.count = w.f.count /\ Len(c.text) <= MaxText => v.said = "ok"
    BY <2>1, StartHosted
  <2>3. Written(w.th, Append(w.th, Fresh(c)), c, Len(w.th) + 1)
    BY <1>1, QuietSame, StartWrites
  <2>4. Len(w.th) + 1 \in Nat /\ Len(w.th) + 1 > Len(w.th) /\ Len(w.th) \in Nat
    BY <1>1 DEF Thread
  <2>5. v.th \in Thread
    BY <2>2, WorldParts
  <2>6. Len(c.text) \in Nat
    BY DEF Chunks
  <2>7. CASE v.said = "ok"
    <3>1. v.th = Append(w.th, Fresh(c)) /\ v.f = w.f /\ v.r.at = Len(w.th) + 1 /\ v.r.spent = 0
      BY <2>2, <2>7
    <3>2. StreamAt(v.th, v.r.at)
      BY <2>3, <2>4, <2>5, <3>1, WrittenStream
    <3>3. CalmAppend(w, v, c)
      BY <1>2, <2>2, <3>1 DEF CalmAppend
    <3> QED
      BY <2>2, <2>3, <2>4, <2>7, <3>1, <3>2, <3>3
  <2>8. CASE v.said # "ok"
    <3>1. v.r.at = 0 /\ StreamAt(v.th, v.r.at) /\ v.r.spent = w.r.spent
      BY <1>2, <2>2, <2>8 DEF StreamAt
    <3>2. ~(v.f.count = w.f.count /\ Len(c.text) + 2 <= MaxText)
      BY <2>2, <2>6, <2>8, Bounds
    <3>3. \/ Quiet(w.th, v.th)
          \/ Written(w.th, v.th, c, Len(w.th) + 1)
      BY <1>1, <2>2, <2>3, <2>8, QuietSame
    <3> QED
      BY <2>2, <2>4, <2>8, <3>1, <3>2, <3>3
  <2> QED
    BY <2>7, <2>8
<1>3. CASE w.r.at # 0
  <2> DEFINE at == w.r.at
  <2>0. at \in DOMAIN w.th /\ w.th[at].kind = "stream" /\ at \in Nat /\ at \in 1 .. Len(w.th)
    BY <1>1, <1>3 DEF StreamAt, Thread
  <2>1. PICK t \in TryAppend(w, c) :
          v \in IF ~Closed(t.said) /\ t.said # "msg_too_long" THEN {t}
                ELSE UNION { IF u.r.at = 0 THEN Start(u, c) ELSE TryAppend(u, c) : u \in Rollover(t) }
    BY <1>3 DEF AppendChunk
  <2>2. /\ t \in Worlds /\ t.r = w.r /\ t.j = w.j /\ Worse(w.f, t.f)
        /\ t.said = "ok" => t.th = [w.th EXCEPT ![at] = Apply(w.th[at], c)] /\ t.f = w.f
        /\ t.said \in {"msg_too_long", "message_not_in_streaming_state"} => t.th = w.th /\ t.f = w.f
        /\ t.th = w.th \/ t.th = [w.th EXCEPT ![at] = Apply(w.th[at], c)]
        /\ t.said \in {"ok", "failed", "msg_too_long", "message_not_in_streaming_state"}
        /\ t.f.count = w.f.count =>
             /\ t.f = w.f /\ t.said # "failed"
             /\ w.th[at].state # "open" => t.said = "message_not_in_streaming_state"
             /\ w.th[at].state = "open" /\ ~Fits(w.th[at], c) => t.said = "msg_too_long"
             /\ w.th[at].state = "open" /\ Fits(w.th[at], c) => t.said = "ok"
    BY <2>0, TryHosted
  <2>3. Written(w.th, [w.th EXCEPT ![at] = Apply(w.th[at], c)], c, at)
    BY <1>1, <1>3, QuietSame, AppendWrites
  <2>4. t.th \in Thread
    BY <2>2, WorldParts
  <2>5. CASE t.said \in {"ok", "failed"}
    <3>1. v = t
      BY <2>1, <2>5 DEF Closed
    <3>2. StreamAt(v.th, v.r.at)
      BY <2>0, <2>2, <2>3, <2>4, <3>1, WrittenStream
    <3>3. v.f.count = w.f.count =>
            v.said = "ok" /\ v.f = w.f /\ CalmAppend(w, v, c)
      <4> SUFFICES ASSUME v.f.count = w.f.count
                   PROVE  v.said = "ok" /\ v.f = w.f /\ CalmAppend(w, v, c)
        OBVIOUS
      <4>1. w.th[at].state = "open" /\ Fits(w.th[at], c) /\ v.said = "ok" /\ v.f = w.f
        BY <2>2, <2>5, <3>1
      <4>2. v.th = [w.th EXCEPT ![at] = Apply(w.th[at], c)] /\ v.r = w.r
        BY <2>2, <3>1, <4>1
      <4>3. CalmAppend(w, v, c)
        BY <1>3, <4>1, <4>2 DEF CalmAppend
      <4> QED
        BY <4>1, <4>3
    <3>4. \/ v.said # "ok" /\ Quiet(w.th, v.th)
          \/ Written(w.th, v.th, c, at)
      <4>1. Quiet(w.th, w.th)
        BY <1>1, QuietSame
      <4> QED
        BY <2>2, <2>3, <2>5, <3>1, <4>1
    <3> QED
      BY <2>0, <2>2, <3>1, <3>2, <3>3, <3>4, SameSelf
  <2>6. CASE t.said \in {"msg_too_long", "message_not_in_streaming_state"}
    <3>1. PICK u \in Rollover(t) : v \in IF u.r.at = 0 THEN Start(u, c) ELSE TryAppend(u, c)
      BY <2>1, <2>6 DEF Closed
    <3>2. t.th = w.th /\ t.f = w.f /\ t.r = w.r /\ t.j = w.j /\ t \in Worlds
      BY <2>2, <2>6
    <3>3. /\ u \in Worlds /\ SameWords(w.r, u.r) /\ u.j = w.j /\ Worse(w.f, u.f)
          /\ Quiet(w.th, u.th)
          /\ \/ u.r.at = 0 /\ u.r.spent = 0
             \/ /\ u.r.at > Len(w.th) /\ u.r.at = Len(u.th) /\ u.r.spent = 2
                /\ u.th[u.r.at].kind = "stream"
          /\ u.r.partial = "empty"
          /\ u.f.count = w.f.count =>
              /\ u.f = w.f
              /\ IF w.r.fenced
                 THEN /\ u.th = Append(ShutAt(w.th, w.r.at, TRUE), Fresh(Words(Opener)))
                      /\ u.r.at = Len(w.th) + 1 /\ u.r.spent = 2
                 ELSE /\ u.th = ShutAt(w.th, w.r.at, FALSE)
                      /\ u.r.at = 0 /\ u.r.spent = 0
      <4>1. t.r.mode = "streaming" /\ StreamAt(t.th, t.r.at)
        BY <3>2
      <4>2. /\ u \in Worlds /\ SameWords(t.r, u.r) /\ u.j = t.j /\ Worse(t.f, u.f)
            /\ Quiet(t.th, u.th)
            /\ t.r.at # 0 => /\ \/ u.r.at = 0 /\ u.r.spent = 0
                                \/ /\ u.r.at > Len(t.th) /\ u.r.at = Len(u.th) /\ u.r.spent = 2
                                   /\ u.th[u.r.at].kind = "stream"
                             /\ u.r.partial = "empty"
            /\ t.r.at # 0 /\ u.f.count = t.f.count =>
                 /\ u.f = t.f
                 /\ IF t.r.fenced
                    THEN /\ u.th = Append(ShutAt(t.th, t.r.at, TRUE), Fresh(Words(Opener)))
                         /\ u.r.at = Len(t.th) + 1 /\ u.r.spent = 2
                    ELSE /\ u.th = ShutAt(t.th, t.r.at, FALSE)
                         /\ u.r.at = 0 /\ u.r.spent = 0
        BY <3>1, <3>2, <4>1, RolloverHosted
      <4> QED
        BY <1>3, <3>2, <4>2
    <3>4. u.th \in Thread /\ u.r \in Fields /\ u.f \in FaultsSet /\ u.r.at \in Nat
      BY <3>3, WorldParts DEF Fields
    <3>5. Len(u.th) \in Nat /\ Len(w.th) \in Nat /\ Len(u.th) >= Len(w.th)
      BY <1>1, <3>3, <3>4 DEF Thread, Quiet
    <3>6. CASE u.r.at = 0
      <4>1. v \in Start(u, c)
        BY <3>1, <3>6
      <4>2. /\ v \in Worlds /\ SameWords(u.r, v.r) /\ v.r.partial = u.r.partial
            /\ v.j = u.j /\ Worse(u.f, v.f)
            /\ v.said = "ok" => /\ v.th = Append(u.th, Fresh(c)) /\ v.f = u.f
                                /\ v.r.at = Len(u.th) + 1 /\ v.r.spent = 0
            /\ v.said # "ok" => /\ v.r.at = u.r.at /\ v.r.spent = u.r.spent
                                /\ v.th = u.th \/ v.th = Append(u.th, Fresh(c))
            /\ v.f.count = u.f.count /\ Len(c.text) <= MaxText => v.said = "ok"
        BY <3>3, <4>1, StartHosted
      <4>3. v.f \in FaultsSet /\ v.th \in Thread
        BY <4>2, WorldParts
      <4>4. Worse(w.f, v.f) /\ SameWords(w.r, v.r) /\ v.j = w.j
        BY <1>1, <3>3, <3>4, <4>2, <4>3, WorseFacts, SameTwice
      <4>5. Written(w.th, Append(u.th, Fresh(c)), c, Len(u.th) + 1)
        BY <3>3, <3>4, StartWrites
      <4>6. Len(u.th) + 1 \in Nat /\ Len(u.th) + 1 > Len(w.th)
        BY <3>5
      <4>7. v.f.count = w.f.count /\ Len(c.text) + 2 <= MaxText =>
              v.said = "ok" /\ v.f = w.f /\ CalmAppend(w, v, c)
        <5> SUFFICES ASSUME v.f.count = w.f.count, Len(c.text) + 2 <= MaxText
                     PROVE  v.said = "ok" /\ v.f = w.f /\ CalmAppend(w, v, c)
          OBVIOUS
        <5>1. u.f.count = w.f.count /\ v.f.count = u.f.count
          BY <1>1, <3>3, <3>4, <4>2, <4>3 DEF Worse, FaultsSet
        <5>2. ~w.r.fenced
          <6>1. w.r.fenced => u.r.at = Len(w.th) + 1
            BY <3>3, <5>1
          <6> QED
            BY <3>5, <3>6, <6>1
        <5>3. u.f = w.f /\ u.th = ShutAt(w.th, at, FALSE)
          BY <3>3, <5>1, <5>2
        <5>4. Len(c.text) \in Nat
          BY DEF Chunks
        <5>5. v.said = "ok"
          BY <4>2, <5>1, <5>4, Bounds
        <5>6. Len(u.th) = Len(w.th)
          BY <1>1, <2>0, <5>3, ShutAtTyped
        <5>7. ~(w.th[at].state = "open" /\ Fits(w.th[at], c))
          BY <1>1, <2>2, <2>6, <3>2
        <5>8. v.r.at = Len(w.th) + 1 /\ v.r.partial = "empty" /\ v.th = Append(ShutAt(w.th, at, FALSE), Fresh(c))
              /\ v.r.spent = 0
          BY <3>3, <4>2, <5>3, <5>5, <5>6
        <5> QED
          BY <1>3, <4>2, <5>2, <5>3, <5>5, <5>7, <5>8 DEF CalmAppend
      <4>8. v.r.spent = 0 /\ v.r.partial = "empty"
        BY <3>3, <3>5, <3>6, <4>2
      <4>9. CASE v.said = "ok"
        <5>1. StreamAt(v.th, v.r.at)
          BY <4>2, <4>3, <4>5, <4>6, <4>9, WrittenStream
        <5> QED
          BY <4>2, <4>4, <4>5, <4>6, <4>7, <4>8, <4>9, <5>1
      <4>10. CASE v.said # "ok"
        <5>1. v.r.at = 0 /\ StreamAt(v.th, v.r.at)
          BY <3>6, <4>2, <4>10 DEF StreamAt
        <5>2. Quiet(w.th, v.th) \/ Written(w.th, v.th, c, Len(u.th) + 1)
          BY <3>3, <4>2, <4>5, <4>10
        <5> QED
          BY <4>2, <4>4, <4>6, <4>7, <4>8, <4>10, <5>1, <5>2
      <4> QED
        BY <4>9, <4>10
    <3>7. CASE u.r.at # 0
      <4> DEFINE j == u.r.at
      <4>0. j > Len(w.th) /\ j = Len(u.th) /\ u.r.spent = 2 /\ u.th[j].kind = "stream" /\ j \in DOMAIN u.th
        BY <3>3, <3>4, <3>5, <3>7 DEF Thread
      <4>1. v \in TryAppend(u, c)
        BY <3>1, <3>7
      <4>2. /\ v \in Worlds /\ v.r = u.r /\ v.j = u.j /\ Worse(u.f, v.f)
            /\ v.said = "ok" => v.th = [u.th EXCEPT ![j] = Apply(u.th[j], c)] /\ v.f = u.f
            /\ v.said \in {"msg_too_long", "message_not_in_streaming_state"} => v.th = u.th /\ v.f = u.f
            /\ v.th = u.th \/ v.th = [u.th EXCEPT ![j] = Apply(u.th[j], c)]
            /\ v.f.count = u.f.count =>
                 /\ v.f = u.f
                 /\ u.th[j].state = "open" /\ Fits(u.th[j], c) => v.said = "ok"
        <5>1. u \in Worlds
          BY <3>3
        <5> QED
          BY <4>0, <4>1, <5>1, TryHosted
      <4>3. v.f \in FaultsSet /\ v.th \in Thread
        BY <4>2, WorldParts
      <4>4. Worse(w.f, v.f) /\ SameWords(w.r, v.r) /\ v.j = w.j
        BY <1>1, <3>3, <3>4, <4>2, <4>3, WorseFacts
      <4>5. StreamAt(u.th, j)
        BY <3>4, <3>5, <4>0 DEF StreamAt, Thread
      <4>6. Written(w.th, [u.th EXCEPT ![j] = Apply(u.th[j], c)], c, j)
        BY <3>3, <3>4, <3>7, <4>5, AppendWrites
      <4>7. StreamAt(v.th, v.r.at)
        BY <3>4, <4>2, <4>3, <4>5, <4>6, WrittenStream
      <4>8. v.f.count = w.f.count /\ Len(c.text) + 2 <= MaxText =>
              v.said = "ok" /\ v.f = w.f /\ CalmAppend(w, v, c)
        <5> SUFFICES ASSUME v.f.count = w.f.count, Len(c.text) + 2 <= MaxText
                     PROVE  v.said = "ok" /\ v.f = w.f /\ CalmAppend(w, v, c)
          OBVIOUS
        <5>1. u.f.count = w.f.count /\ v.f.count = u.f.count
          BY <1>1, <3>3, <3>4, <4>2, <4>3 DEF Worse, FaultsSet
        <5>2. w.r.fenced
          BY <3>3, <3>7, <5>1
        <5> DEFINE o  == Words(Opener)
                   th1 == ShutAt(w.th, at, TRUE)
                   m  == Fresh(o)
        <5>3. u.f = w.f /\ u.th = Append(th1, m) /\ j = Len(w.th) + 1 /\ u.r.spent = 2
          BY <3>3, <5>1, <5>2
        <5>4. o \in Chunks /\ Len(o.text) = 2
          BY OpenerCloser
        <5> HIDE DEF o
        <5>5. m \in Message /\ m.kind = "stream" /\ m.state = "open" /\ m.text = o.text
          BY <5>4, FreshFacts
        <5> HIDE DEF m
        <5>6. th1 \in Thread /\ Len(th1) = Len(w.th)
          BY <1>1, <2>0, ShutAtTyped
        <5> HIDE DEF th1
        <5>7. u.th[j] = m
          BY <5>3, <5>5, <5>6 DEF Thread
        <5>8. Fits(m, c)
          <6>1. Len(m.text \o c.text) = Len(m.text) + Len(c.text) /\ Len(c.text) \in Nat
            <7>1. o.text \in Seq(Int) /\ c.text \in Seq(Int)
              BY <5>4 DEF Chunks
            <7> QED
              BY <5>5, <7>1, LenConcat
          <6> QED
            BY <5>4, <5>5, <6>1, Bounds DEF Fits
        <5>9. v.said = "ok" /\ v.f = w.f
          BY <4>2, <5>1, <5>3, <5>5, <5>7, <5>8
        <5>10. v.th = [Append(th1, m) EXCEPT ![Len(th1) + 1] = Apply(m, c)]
          BY <4>2, <5>3, <5>6, <5>7, <5>9
        <5>11. Apply(m, c) \in Message
          BY <5>5, ApplyTyped
        <5> DEFINE n == Apply(m, c)
        <5>12. [Append(th1, m) EXCEPT ![Len(th1) + 1] = n] = Append(th1, n)
          <6>1. n \in Message
            BY <5>11
          <6> HIDE DEF n
          <6> QED
            BY <5>5, <5>6, <6>1, AppendExcept
        <5>13. v.th = Append(th1, Apply(m, c))
          BY <5>10, <5>12 DEF n
        <5>14. ~(w.th[at].state = "open" /\ Fits(w.th[at], c))
          BY <1>1, <2>2, <2>6, <3>2
        <5>15. v.r.at = Len(w.th) + 1 /\ v.r.partial = "empty" /\ v.r.spent = 2
          BY <3>3, <4>2, <5>3
        <5>16. v.th = Append(ShutAt(w.th, at, TRUE), Apply(Fresh(Words(Opener)), c))
          BY <5>13 DEF th1, m, o
        <5>17. CalmAppend(w, v, c)
          BY <1>3, <5>2, <5>14, <5>15, <5>16 DEF CalmAppend
        <5> QED
          BY <5>9, <5>17
      <4>9. \/ v.said # "ok" /\ Quiet(w.th, v.th)
            \/ Written(w.th, v.th, c, j)
        BY <3>3, <4>2, <4>6
      <4>10. v.r.at = j /\ v.r.spent = 2 /\ v.r.partial = "empty" /\ j \in Nat
        BY <3>3, <3>4, <4>0, <4>2
      <4> QED
        BY <4>0, <4>2, <4>4, <4>7, <4>8, <4>9, <4>10
    <3> QED
      BY <3>6, <3>7
  <2> QED
    BY <2>2, <2>5, <2>6
<1> QED
  BY <1>2, <1>3

(* Nothing is said or unsaid. *)
Still(th, th2) ==
  /\ DOMAIN th \subseteq DOMAIN th2
  /\ \A i \in DOMAIN th : /\ SaidIn(th2[i]) = SaidIn(th[i])
                          /\ \A p \in SaidIn(th[i]) : th2[i].text[p] = th[i].text[p]
  /\ \A i \in DOMAIN th2 \ DOMAIN th : SaidIn(th2[i]) = {}

AllUnder(th, n) == \A i \in DOMAIN th : \A p \in SaidIn(th[i]) : th[i].text[p] <= n

Ordered(th) ==
  \A i, j \in DOMAIN th : \A p \in SaidIn(th[i]), q \in SaidIn(th[j]) :
    i < j \/ (i = j /\ p < q) => th[i].text[p] < th[j].text[q]

Covers(th, n) ==
  \A u \in 1 .. n : \E i \in DOMAIN th : \E p \in SaidIn(th[i]) : th[i].text[p] = u

Parted(th, i, n) ==
  \A j \in DOMAIN th : \A p \in SaidIn(th[j]) : IF th[j].text[p] <= n THEN j < i ELSE j > i

PlacedAt(th, i, k) == i \in DOMAIN th /\ th[i].kind = "placed" /\ th[i].text = <<k>>

LEMMA QuietStill == ASSUME NEW th, NEW th2, Quiet(th, th2) PROVE Still(th, th2)
BY DEF Quiet, Still

LEMMA StillUnder == ASSUME NEW th, NEW th2, Still(th, th2), NEW n, AllUnder(th, n) PROVE AllUnder(th2, n)
BY DEF Still, AllUnder

LEMMA StillOrdered == ASSUME NEW th, NEW th2, Still(th, th2), Ordered(th) PROVE Ordered(th2)
<1> SUFFICES ASSUME NEW i \in DOMAIN th2, NEW j \in DOMAIN th2,
                    NEW p \in SaidIn(th2[i]), NEW q \in SaidIn(th2[j]),
                    i < j \/ (i = j /\ p < q)
             PROVE  th2[i].text[p] < th2[j].text[q]
  BY DEF Ordered
<1>1. i \in DOMAIN th /\ j \in DOMAIN th
  BY DEF Still
<1>2. p \in SaidIn(th[i]) /\ q \in SaidIn(th[j]) /\ th2[i].text[p] = th[i].text[p]
      /\ th2[j].text[q] = th[j].text[q]
  BY <1>1 DEF Still
<1> QED
  BY <1>1, <1>2 DEF Ordered

LEMMA StillCovers == ASSUME NEW th, NEW th2, Still(th, th2), NEW n, Covers(th, n) PROVE Covers(th2, n)
BY DEF Still, Covers

LEMMA StillParted ==
  ASSUME NEW th, NEW th2, Still(th, th2), NEW i, NEW n, Parted(th, i, n)
  PROVE  Parted(th2, i, n)
BY DEF Still, Parted

LEMMA QuietPlaced ==
  ASSUME NEW th, NEW th2, Quiet(th, th2), NEW i, NEW k
  PROVE  PlacedAt(th2, i, k) <=> PlacedAt(th, i, k)
<1>1. ASSUME PlacedAt(th2, i, k) PROVE PlacedAt(th, i, k)
  BY <1>1 DEF Quiet, PlacedAt
<1>2. ASSUME PlacedAt(th, i, k) PROVE PlacedAt(th2, i, k)
  BY <1>2 DEF Quiet, PlacedAt
<1> QED
  BY <1>1, <1>2

(* What is said up to m, at x and nowhere else beyond n. *)
Grows(th, th2, n, m, x) ==
  /\ AllUnder(th2, m)
  /\ Ordered(th) => Ordered(th2)
  /\ \A i, a \in Nat : Parted(th, i, a) /\ a <= n /\ x > i => Parted(th2, i, a)
  /\ \A i, k : PlacedAt(th2, i, k) <=> PlacedAt(th, i, k)

(* A piece of what is left to write, at the newest message with words. *)
LEMMA PieceKeeps ==
  ASSUME NEW th \in Thread, NEW th2, NEW c \in Chunks, NEW x \in Nat, Written(th, th2, c, x),
         NEW n \in Nat, AllUnder(th, n), \A p \in 1 .. Len(c.text) : c.text[p] = n + p
  PROVE  /\ Grows(th, th2, n, n + Len(c.text), x)
         /\ Covers(th, n) => Covers(th2, n + Len(c.text))
<1>1. PICK th1 \in Thread :
        /\ Quiet(th, th1)
        /\ x \in DOMAIN th1 /\ th1[x].kind = "stream"
        /\ \A j \in DOMAIN th1 : j > x => SaidIn(th1[j]) = {}
        /\ th2 = [th1 EXCEPT ![x] = Apply(th1[x], c)]
  BY DEF Written
<1> DEFINE m0 == th1[x]
           m1 == Apply(m0, c)
           s  == c.text
           l  == Len(m0.text)
<1>2. m0 \in Message /\ m0.kind = "stream" /\ DOMAIN th1 \subseteq Nat
  BY <1>1 DEF Thread
<1>3. m1 \in Message /\ m1.kind = "stream" /\ m1.text = m0.text \o s
  BY <1>2, ApplyTyped
<1>4. s \in Seq(Int) /\ Len(s) \in Nat
  BY DEF Chunks
<1>5. DOMAIN th2 = DOMAIN th1 /\ th2[x] = m1 /\ \A j \in DOMAIN th1 : j # x => th2[j] = th1[j]
  BY <1>1
<1> HIDE DEF m0, m1, s
<1>6. /\ SaidIn(m0) \subseteq 1 .. l /\ l \in Nat
      /\ \A p \in 1 .. l : m1.text[p] = m0.text[p] /\ (p \in SaidIn(m1) <=> p \in SaidIn(m0))
      /\ \A p \in 1 .. Len(s) : m1.text[l + p] = s[p] /\ (l + p \in SaidIn(m1) <=> s[p] > 0)
      /\ \A q \in SaidIn(m1) : q \in SaidIn(m0) \/ \E p \in 1 .. Len(s) : q = l + p /\ s[p] > 0
  <2>1. m0.kind # "placed" /\ m1.kind # "placed"
    BY <1>2, <1>3
  <2>2. m0 \in Message /\ m1 \in Message /\ s \in Seq(Int) /\ m1.text = m0.text \o s
    BY <1>2, <1>3, <1>4
  <2>3. /\ SaidIn(m0) \subseteq 1 .. Len(m0.text) /\ Len(m0.text) \in Nat
        /\ \A p \in 1 .. Len(m0.text) : m1.text[p] = m0.text[p] /\ (p \in SaidIn(m1) <=> p \in SaidIn(m0))
        /\ \A p \in 1 .. Len(s) : m1.text[Len(m0.text) + p] = s[p] /\ (Len(m0.text) + p \in SaidIn(m1) <=> s[p] > 0)
        /\ \A q \in SaidIn(m1) : q \in SaidIn(m0) \/ \E p \in 1 .. Len(s) : q = Len(m0.text) + p /\ s[p] > 0
    BY <2>1, <2>2, SaidInText
  <2> QED
    BY <2>3
<1> HIDE DEF l
<1>7. \A p \in 1 .. Len(s) : s[p] = n + p
  BY DEF s
<1>8. AllUnder(th1, n)
  BY <1>1, QuietStill, StillUnder
<1>9. \A q \in SaidIn(m1) : \/ q \in SaidIn(m0) /\ m1.text[q] = m0.text[q]
                            \/ \E p \in 1 .. Len(s) : q = l + p /\ m1.text[q] = n + p
  BY <1>6, <1>7
<1>10. SaidIn(m0) \subseteq SaidIn(m1) /\ \A q \in SaidIn(m0) : m1.text[q] = m0.text[q] /\ m0.text[q] \in Int
  <2>1. SaidIn(m0) \subseteq DOMAIN m0.text /\ m0.text \in Seq(Int)
    BY <1>2 DEF SaidIn, Message
  <2> QED
    BY <1>6, <2>1
<1>11. \A p \in 1 .. Len(s) : l + p \in SaidIn(m1) /\ m1.text[l + p] = n + p
  BY <1>6, <1>7
<1>12. \A q \in SaidIn(m0) : m0.text[q] <= n
  BY <1>1, <1>8 DEF AllUnder, m0
<1>13. AllUnder(th2, n + Len(s))
  <2> SUFFICES ASSUME NEW i \in DOMAIN th1, NEW p \in SaidIn(th2[i])
               PROVE  th2[i].text[p] <= n + Len(s)
    BY <1>5 DEF AllUnder
  <2>1. CASE i = x
    <3>1. p \in SaidIn(m1) /\ th2[i].text[p] = m1.text[p]
      BY <1>5, <2>1
    <3>2. CASE p \in SaidIn(m0)
      BY <1>4, <1>10, <1>12, <3>1, <3>2
    <3>3. CASE \E q \in 1 .. Len(s) : p = l + q /\ m1.text[p] = n + q
      BY <1>4, <3>1, <3>3
    <3> QED
      BY <1>9, <3>1, <3>2, <3>3
  <2>2. CASE i # x
    <3>1. p \in SaidIn(th1[i]) /\ th2[i].text[p] = th1[i].text[p]
      BY <1>5, <2>2
    <3>2. th1[i].text[p] \in Int
      <4>1. th1[i] \in Message /\ th1[i].kind # "placed"
        BY <1>1, <3>1 DEF Thread, SaidIn
      <4> QED
        BY <3>1, <4>1 DEF Message, SaidIn
    <3> QED
      BY <1>4, <1>8, <3>1, <3>2 DEF AllUnder
  <2> QED
    BY <2>1, <2>2
<1>14. Ordered(th) => Ordered(th2)
  <2> SUFFICES ASSUME Ordered(th), NEW i \in DOMAIN th1, NEW j \in DOMAIN th1,
                      NEW p \in SaidIn(th2[i]), NEW q \in SaidIn(th2[j]),
                      i < j \/ (i = j /\ p < q)
               PROVE  th2[i].text[p] < th2[j].text[q]
    BY <1>5 DEF Ordered
  <2>1. Ordered(th1)
    BY <1>1, QuietStill, StillOrdered
  <2>2. i \in Nat /\ j \in Nat /\ x \in Nat
    BY <1>2
  <2>3. CASE i # x /\ j # x
    BY <1>5, <2>1, <2>3 DEF Ordered
  <2>4. CASE i = x
    <3>1. p \in SaidIn(m1) /\ th2[i].text[p] = m1.text[p]
      BY <1>5, <2>4
    <3>2. j = x
      <4>1. CASE j # x
        <5>1. j > x /\ q \in SaidIn(th1[j])
          BY <1>5, <2>2, <2>4, <4>1
        <5> QED
          BY <1>1, <5>1
      <4> QED
        BY <4>1
    <3>3. q \in SaidIn(m1) /\ th2[j].text[q] = m1.text[q] /\ p < q
      BY <1>5, <2>2, <2>4, <3>2
    <3>4. SaidIn(m1) \subseteq Nat /\ p \in Nat /\ q \in Nat
      <4>1. m1.text \in Seq(Int) /\ SaidIn(m1) \subseteq DOMAIN m1.text
        BY <1>3 DEF Message, SaidIn
      <4> QED
        BY <3>1, <3>3, <4>1
    <3>5. CASE q \in SaidIn(m0)
      <4>1. p \in SaidIn(m0)
        BY <1>4, <1>6, <1>9, <3>1, <3>3, <3>4, <3>5
      <4>2. m0.text[p] < m0.text[q]
        BY <1>1, <2>1, <3>3, <3>5, <4>1 DEF Ordered, m0
      <4> QED
        BY <1>10, <3>1, <3>3, <3>5, <4>1, <4>2
    <3>6. CASE \E b \in 1 .. Len(s) : q = l + b /\ m1.text[q] = n + b
      <4>1. PICK b \in 1 .. Len(s) : q = l + b /\ m1.text[q] = n + b
        BY <3>6
      <4>2. CASE p \in SaidIn(m0)
        <5>1. m1.text[p] <= n /\ m1.text[p] \in Int
          BY <1>10, <1>12, <4>2
        <5> QED
          BY <1>4, <3>1, <3>3, <4>1, <5>1
      <4>3. CASE \E a \in 1 .. Len(s) : p = l + a /\ m1.text[p] = n + a
        BY <1>4, <1>6, <3>1, <3>3, <4>1, <4>3
      <4> QED
        BY <1>9, <3>1, <4>2, <4>3
    <3> QED
      BY <1>9, <3>3, <3>5, <3>6
  <2>5. CASE i # x /\ j = x
    <3>1. i < x
      BY <2>2, <2>5
    <3>2. p \in SaidIn(th1[i]) /\ th2[i].text[p] = th1[i].text[p]
      BY <1>5, <2>5
    <3>3. q \in SaidIn(m1) /\ th2[j].text[q] = m1.text[q]
      BY <1>5, <2>5
    <3>4. th1[i].text[p] <= n /\ th1[i].text[p] \in Int
      <4>1. th1[i] \in Message /\ th1[i].kind # "placed"
        BY <1>1, <3>2 DEF Thread, SaidIn
      <4>2. th1[i].text[p] \in Int
        BY <3>2, <4>1 DEF Message, SaidIn
      <4> QED
        BY <1>8, <3>2, <4>2 DEF AllUnder
    <3>5. CASE q \in SaidIn(m0)
      <4>1. th1[i].text[p] < m0.text[q]
        BY <1>1, <2>1, <3>1, <3>2, <3>5 DEF Ordered, m0
      <4> QED
        BY <1>10, <3>2, <3>3, <3>5, <4>1
    <3>6. CASE \E b \in 1 .. Len(s) : q = l + b /\ m1.text[q] = n + b
      BY <1>4, <3>2, <3>3, <3>4, <3>6
    <3> QED
      BY <1>9, <3>3, <3>5, <3>6
  <2> QED
    BY <2>3, <2>4, <2>5
<1>15. Covers(th, n) => Covers(th2, n + Len(s))
  <2> SUFFICES ASSUME Covers(th, n), NEW u \in 1 .. n + Len(s)
               PROVE  \E i \in DOMAIN th2 : \E p \in SaidIn(th2[i]) : th2[i].text[p] = u
    BY DEF Covers
  <2>1. CASE u <= n
    <3>1. u \in 1 .. n
      BY <1>4, <2>1
    <3>2. Covers(th1, n)
      BY <1>1, QuietStill, StillCovers
    <3>3. PICK i \in DOMAIN th1 : \E p \in SaidIn(th1[i]) : th1[i].text[p] = u
      BY <3>1, <3>2 DEF Covers
    <3>4. PICK p \in SaidIn(th1[i]) : th1[i].text[p] = u
      BY <3>3
    <3>5. p \in SaidIn(th2[i]) /\ th2[i].text[p] = u
      <4>1. CASE i = x
        BY <1>5, <1>10, <3>4, <4>1 DEF m0
      <4>2. CASE i # x
        BY <1>5, <3>4, <4>2
      <4> QED
        BY <4>1, <4>2
    <3> QED
      BY <1>5, <3>5
  <2>2. CASE ~(u <= n)
    <3>1. u - n \in 1 .. Len(s) /\ n + (u - n) = u
      BY <1>4, <2>2
    <3>2. l + (u - n) \in SaidIn(m1) /\ m1.text[l + (u - n)] = u
      BY <1>11, <3>1
    <3> QED
      BY <1>1, <1>5, <3>2
  <2> QED
    BY <2>1, <2>2
<1>16. ASSUME NEW i \in Nat, NEW m \in Nat, Parted(th, i, m), m <= n, x > i
       PROVE  Parted(th2, i, m)
  <2>1. Parted(th1, i, m)
    BY <1>1, <1>16, QuietStill, StillParted
  <2> SUFFICES ASSUME NEW j \in DOMAIN th1, NEW p \in SaidIn(th2[j])
               PROVE  IF th2[j].text[p] <= m THEN j < i ELSE j > i
    BY <1>5 DEF Parted
  <2>2. CASE j # x
    BY <1>5, <2>1, <2>2 DEF Parted
  <2>3. CASE j = x
    <3>1. p \in SaidIn(m1) /\ th2[j].text[p] = m1.text[p]
      BY <1>5, <2>3
    <3>2. CASE p \in SaidIn(m0)
      BY <1>1, <1>10, <2>1, <2>3, <3>1, <3>2 DEF Parted, m0
    <3>3. CASE \E b \in 1 .. Len(s) : p = l + b /\ m1.text[p] = n + b
      <4>1. ~(m1.text[p] <= m)
        BY <1>4, <1>16, <3>3
      <4> QED
        BY <1>16, <2>3, <3>1, <4>1
    <3> QED
      BY <1>9, <3>1, <3>2, <3>3
  <2> QED
    BY <2>2, <2>3
<1>17. ASSUME NEW i, NEW k
       PROVE  PlacedAt(th2, i, k) <=> PlacedAt(th, i, k)
  <2>1. PlacedAt(th1, i, k) <=> PlacedAt(th, i, k)
    BY <1>1, QuietPlaced
  <2>2. PlacedAt(th2, i, k) <=> PlacedAt(th1, i, k)
    <3>1. CASE i = x
      BY <1>1, <1>3, <1>5, <3>1 DEF PlacedAt
    <3>2. CASE i # x
      BY <1>5, <3>2 DEF PlacedAt
    <3> QED
      BY <3>1, <3>2
  <2> QED
    BY <2>1, <2>2
<1>18. Grows(th, th2, n, n + Len(s), x)
  BY <1>13, <1>14, <1>16, <1>17 DEF Grows
<1> QED
  BY <1>15, <1>18 DEF s

WithR(w, g) == [w EXCEPT !.r = g]
WithJ(w, g) == [w EXCEPT !.j = g]
WithF(w, g) == [w EXCEPT !.f = g]

LEMMA WithRFacts ==
  ASSUME NEW w \in Worlds, NEW g \in Fields
  PROVE  /\ WithR(w, g) \in Worlds /\ WithR(w, g).th = w.th /\ WithR(w, g).r = g
         /\ WithR(w, g).j = w.j /\ WithR(w, g).f = w.f /\ WithR(w, g).said = w.said
BY DEF WithR, Worlds

LEMMA WithJFacts ==
  ASSUME NEW w \in Worlds, NEW g \in Jobs
  PROVE  /\ WithJ(w, g) \in Worlds /\ WithJ(w, g).th = w.th /\ WithJ(w, g).j = g
         /\ WithJ(w, g).r = w.r /\ WithJ(w, g).f = w.f /\ WithJ(w, g).said = w.said
BY DEF WithJ, Worlds

LEMMA Empties == <<>> \in Seq(Int) /\ <<>> \in Seq(Post) /\ Len(<<>>) = 0 /\ DOMAIN <<>> = {}
OBVIOUS

Chopped(w, cut) ==
  [w EXCEPT !.r.pending = SubSeq(@, cut + 1, Len(@)), !.r.flushed = TRUE, !.r.open = 0]

Unplaced(w) == [w EXCEPT !.r.placed = FALSE]
Blanked(w)  == [w EXCEPT !.r.all = <<>>, !.r.posted = <<>>, !.r.broken = FALSE]
Rested(w, text) == [w EXCEPT !.j.rest = text]
Rejoined(w, text) == [w EXCEPT !.r.all = text, !.r.broken = FALSE, !.j.part = 1]
Turned(w, text) ==
  [w EXCEPT !.r.mode = "buffered", !.r.all = text, !.r.posted = <<>>, !.r.broken = FALSE,
            !.j.part = 1, !.said = "ok"]

ChoppedR(r, cut) == [r EXCEPT !.pending = SubSeq(@, cut + 1, Len(@)), !.flushed = TRUE, !.open = 0]

LEMMA ChoppedFacts ==
  ASSUME NEW w \in Worlds, NEW cut \in Nat, cut <= Len(w.r.pending)
  PROVE  LET v == Chopped(w, cut)
         IN  /\ v \in Worlds /\ v.th = w.th /\ v.j = w.j /\ v.f = w.f /\ v.said = w.said
             /\ v.r = ChoppedR(w.r, cut) /\ v.r \in Fields
             /\ v.r.pending = SubSeq(w.r.pending, cut + 1, Len(w.r.pending))
             /\ v.r.mode = w.r.mode /\ v.r.at = w.r.at /\ v.r.spent = w.r.spent
             /\ v.r.placed = w.r.placed /\ v.r.all = w.r.all /\ v.r.posted = w.r.posted
             /\ v.r.broken = w.r.broken /\ v.r.fenced = w.r.fenced /\ v.r.partial = w.r.partial
             /\ v.r.beats = w.r.beats /\ v.r.drawn = w.r.drawn /\ v.r.open = 0
<1> DEFINE p == SubSeq(w.r.pending, cut + 1, Len(w.r.pending))
           g1 == [w.r EXCEPT !.pending = p]
           x1 == WithR(w, g1)
           g2 == [g1 EXCEPT !.flushed = TRUE]
           x2 == WithR(x1, g2)
           g3 == [g2 EXCEPT !.open = 0]
           x3 == WithR(x2, g3)
<1>1. w.r \in Fields
  BY WorldParts
<1>2. p \in Seq(Int)
  <2>1. w.r.pending \in Seq(Int) /\ Len(w.r.pending) \in Nat
    BY <1>1 DEF Fields
  <2> QED
    BY <2>1
<1>3. Chopped(w, cut) = [[[w EXCEPT !.r = [w.r EXCEPT !.pending = p]]
           EXCEPT !.r = [[w EXCEPT !.r = [w.r EXCEPT !.pending = p]].r EXCEPT !.flushed = TRUE]]
           EXCEPT !.r.open = 0]
  BY DEF Chopped
<1> HIDE DEF p
<1>4. g1 \in Fields
  BY <1>1, <1>2 DEF Fields
<1> HIDE DEF g1
<1>5. x1 \in Worlds /\ x1.th = w.th /\ x1.r = g1 /\ x1.j = w.j /\ x1.f = w.f /\ x1.said = w.said
  BY <1>4, WithRFacts
<1> HIDE DEF x1
<1>6. g2 \in Fields
  BY <1>4 DEF Fields
<1> HIDE DEF g2
<1>7. x2 \in Worlds /\ x2.th = w.th /\ x2.r = g2 /\ x2.j = w.j /\ x2.f = w.f /\ x2.said = w.said
  BY <1>5, <1>6, WithRFacts
<1> HIDE DEF x2
<1>8. g3 \in Fields
  BY <1>6 DEF Fields
<1> HIDE DEF g3
<1>9. x3 \in Worlds /\ x3.th = w.th /\ x3.r = g3 /\ x3.j = w.j /\ x3.f = w.f /\ x3.said = w.said
  BY <1>7, <1>8, WithRFacts
<1>10. Chopped(w, cut) = x3
  <2>1. x1 = [w EXCEPT !.r = [w.r EXCEPT !.pending = p]]
    BY DEF x1, g1, WithR
  <2>2. Chopped(w, cut) = [[x1 EXCEPT !.r = [x1.r EXCEPT !.flushed = TRUE]] EXCEPT !.r.open = 0]
    BY <1>3, <2>1
  <2>3. [x1 EXCEPT !.r = [x1.r EXCEPT !.flushed = TRUE]] = x2
    BY <1>5 DEF x2, g2, WithR
  <2>4. Chopped(w, cut) = [x2 EXCEPT !.r = [x2.r EXCEPT !.open = 0]]
    BY <2>2, <2>3
  <2> QED
    BY <1>7, <2>4 DEF g3, WithR
<1>11. g3 = ChoppedR(w.r, cut)
  BY DEF g3, g2, g1, p, ChoppedR
<1>12. ChoppedR(w.r, cut) \in Fields
  BY <1>8, <1>11
<1>13. /\ ChoppedR(w.r, cut).pending = SubSeq(w.r.pending, cut + 1, Len(w.r.pending))
       /\ ChoppedR(w.r, cut).mode = w.r.mode /\ ChoppedR(w.r, cut).at = w.r.at
       /\ ChoppedR(w.r, cut).spent = w.r.spent /\ ChoppedR(w.r, cut).placed = w.r.placed
       /\ ChoppedR(w.r, cut).all = w.r.all /\ ChoppedR(w.r, cut).posted = w.r.posted
       /\ ChoppedR(w.r, cut).broken = w.r.broken /\ ChoppedR(w.r, cut).fenced = w.r.fenced
       /\ ChoppedR(w.r, cut).partial = w.r.partial /\ ChoppedR(w.r, cut).beats = w.r.beats
       /\ ChoppedR(w.r, cut).drawn = w.r.drawn /\ ChoppedR(w.r, cut).open = 0
  BY <1>1 DEF ChoppedR, Fields
<1> HIDE DEF x3
<1> QED
  BY <1>9, <1>10, <1>11, <1>12, <1>13

LEMMA UnplacedFacts ==
  ASSUME NEW w \in Worlds
  PROVE  LET v == Unplaced(w)
         IN  /\ v \in Worlds /\ v.th = w.th /\ v.f = w.f
             /\ v.said = w.said
             /\ v.j = w.j
             /\ v.r.mode = w.r.mode /\ v.r.at = w.r.at /\ v.r.spent = w.r.spent
             /\ v.r.pending = w.r.pending /\ v.r.flushed = w.r.flushed /\ v.r.fenced = w.r.fenced
             /\ v.r.partial = w.r.partial /\ v.r.beats = w.r.beats /\ v.r.drawn = w.r.drawn
             /\ v.r.open = w.r.open /\ v.r.placed = FALSE /\ v.r.all = w.r.all
             /\ v.r.posted = w.r.posted /\ v.r.broken = w.r.broken
<1> DEFINE x0 == w
           g1 == [x0.r EXCEPT !.placed = FALSE]
           x1 == WithR(x0, g1)
<1>1. x0 \in Worlds /\ x0.th = w.th /\ x0.r = w.r /\ x0.j = w.j /\ x0.f = w.f /\ x0.said = w.said /\ w.r \in Fields /\ w.j \in Jobs
  BY WorldParts
<1>2. Unplaced(w) = x1
  BY DEF Unplaced, WithR, WithJ
<1> HIDE DEF x0
<1>3. g1 \in Fields /\ g1.mode = w.r.mode /\ g1.at = w.r.at /\ g1.spent = w.r.spent /\ g1.pending = w.r.pending /\ g1.flushed = w.r.flushed /\ g1.fenced = w.r.fenced /\ g1.partial = w.r.partial /\ g1.beats = w.r.beats /\ g1.drawn = w.r.drawn /\ g1.open = w.r.open /\ g1.placed = FALSE /\ g1.all = w.r.all /\ g1.posted = w.r.posted /\ g1.broken = w.r.broken
  BY <1>1, <1>1 DEF Fields
<1> HIDE DEF g1
<1>4. x1 \in Worlds /\ x1.th = w.th /\ x1.r = g1 /\ x1.j = w.j /\ x1.f = w.f /\ x1.said = w.said
  BY <1>1, <1>3, WithRFacts
<1> HIDE DEF x1
<1> QED
  BY <1>1, <1>2, <1>3, <1>4

LEMMA BlankedFacts ==
  ASSUME NEW w \in Worlds
  PROVE  LET v == Blanked(w)
         IN  /\ v \in Worlds /\ v.th = w.th /\ v.f = w.f
             /\ v.said = w.said
             /\ v.j = w.j
             /\ v.r.mode = w.r.mode /\ v.r.at = w.r.at /\ v.r.spent = w.r.spent
             /\ v.r.pending = w.r.pending /\ v.r.flushed = w.r.flushed /\ v.r.fenced = w.r.fenced
             /\ v.r.partial = w.r.partial /\ v.r.beats = w.r.beats /\ v.r.drawn = w.r.drawn
             /\ v.r.open = w.r.open /\ v.r.placed = w.r.placed /\ v.r.all = <<>>
             /\ v.r.posted = <<>> /\ v.r.broken = FALSE
<1> DEFINE x0 == w
           g1 == [x0.r EXCEPT !.all = <<>>]
           x1 == WithR(x0, g1)
           g2 == [x1.r EXCEPT !.posted = <<>>]
           x2 == WithR(x1, g2)
           g3 == [x2.r EXCEPT !.broken = FALSE]
           x3 == WithR(x2, g3)
<1>1. x0 \in Worlds /\ x0.th = w.th /\ x0.r = w.r /\ x0.j = w.j /\ x0.f = w.f /\ x0.said = w.said /\ w.r \in Fields /\ w.j \in Jobs
  BY WorldParts
<1>2. Blanked(w) = x3
  BY DEF Blanked, WithR, WithJ
<1> HIDE DEF x0
<1>3. g1 \in Fields /\ g1.mode = w.r.mode /\ g1.at = w.r.at /\ g1.spent = w.r.spent /\ g1.pending = w.r.pending /\ g1.flushed = w.r.flushed /\ g1.fenced = w.r.fenced /\ g1.partial = w.r.partial /\ g1.beats = w.r.beats /\ g1.drawn = w.r.drawn /\ g1.open = w.r.open /\ g1.placed = w.r.placed /\ g1.all = <<>> /\ g1.posted = w.r.posted /\ g1.broken = w.r.broken
  BY <1>1, <1>1, Empties DEF Fields
<1> HIDE DEF g1
<1>4. x1 \in Worlds /\ x1.th = w.th /\ x1.r = g1 /\ x1.j = w.j /\ x1.f = w.f /\ x1.said = w.said
  BY <1>1, <1>3, WithRFacts
<1> HIDE DEF x1
<1>5. g2 \in Fields /\ g2.mode = g1.mode /\ g2.at = g1.at /\ g2.spent = g1.spent /\ g2.pending = g1.pending /\ g2.flushed = g1.flushed /\ g2.fenced = g1.fenced /\ g2.partial = g1.partial /\ g2.beats = g1.beats /\ g2.drawn = g1.drawn /\ g2.open = g1.open /\ g2.placed = g1.placed /\ g2.all = g1.all /\ g2.posted = <<>> /\ g2.broken = g1.broken
  BY <1>1, <1>4, <1>3, Empties DEF Fields
<1> HIDE DEF g2
<1>6. x2 \in Worlds /\ x2.th = w.th /\ x2.r = g2 /\ x2.j = w.j /\ x2.f = w.f /\ x2.said = w.said
  BY <1>4, <1>5, WithRFacts
<1> HIDE DEF x2
<1>7. g3 \in Fields /\ g3.mode = g2.mode /\ g3.at = g2.at /\ g3.spent = g2.spent /\ g3.pending = g2.pending /\ g3.flushed = g2.flushed /\ g3.fenced = g2.fenced /\ g3.partial = g2.partial /\ g3.beats = g2.beats /\ g3.drawn = g2.drawn /\ g3.open = g2.open /\ g3.placed = g2.placed /\ g3.all = g2.all /\ g3.posted = g2.posted /\ g3.broken = FALSE
  BY <1>1, <1>6, <1>5 DEF Fields
<1> HIDE DEF g3
<1>8. x3 \in Worlds /\ x3.th = w.th /\ x3.r = g3 /\ x3.j = w.j /\ x3.f = w.f /\ x3.said = w.said
  BY <1>6, <1>7, WithRFacts
<1> HIDE DEF x3
<1> QED
  BY <1>1, <1>2, <1>3, <1>5, <1>7, <1>8

LEMMA RestedFacts ==
  ASSUME NEW w \in Worlds, NEW text \in Seq(Int)
  PROVE  LET v == Rested(w, text)
         IN  /\ v \in Worlds /\ v.th = w.th /\ v.f = w.f
             /\ v.said = w.said
             /\ v.j.rest = text
             /\ v.j.part = w.j.part
             /\ v.j.then = w.j.then
             /\ v.r = w.r
<1> DEFINE x0 == w
           g1 == [x0.j EXCEPT !.rest = text]
           x1 == WithJ(x0, g1)
<1>1. x0 \in Worlds /\ x0.th = w.th /\ x0.r = w.r /\ x0.j = w.j /\ x0.f = w.f /\ x0.said = w.said /\ w.r \in Fields /\ w.j \in Jobs
  BY WorldParts
<1>2. Rested(w, text) = x1
  BY DEF Rested, WithR, WithJ
<1> HIDE DEF x0
<1>3. g1 \in Jobs /\ g1.rest = text /\ g1.part = w.j.part /\ g1.then = w.j.then
  BY <1>1, <1>1 DEF Jobs
<1> HIDE DEF g1
<1>4. x1 \in Worlds /\ x1.th = w.th /\ x1.r = w.r /\ x1.j = g1 /\ x1.f = w.f /\ x1.said = w.said
  BY <1>1, <1>3, WithJFacts
<1> HIDE DEF x1
<1> QED
  BY <1>1, <1>2, <1>3, <1>4

LEMMA RejoinedFacts ==
  ASSUME NEW w \in Worlds, NEW text \in Seq(Int)
  PROVE  LET v == Rejoined(w, text)
         IN  /\ v \in Worlds /\ v.th = w.th /\ v.f = w.f
             /\ v.said = w.said
             /\ v.j.rest = w.j.rest
             /\ v.j.part = 1
             /\ v.j.then = w.j.then
             /\ v.r.mode = w.r.mode /\ v.r.at = w.r.at /\ v.r.spent = w.r.spent
             /\ v.r.pending = w.r.pending /\ v.r.flushed = w.r.flushed /\ v.r.fenced = w.r.fenced
             /\ v.r.partial = w.r.partial /\ v.r.beats = w.r.beats /\ v.r.drawn = w.r.drawn
             /\ v.r.open = w.r.open /\ v.r.placed = w.r.placed /\ v.r.all = text
             /\ v.r.posted = w.r.posted /\ v.r.broken = FALSE
<1> DEFINE x0 == w
           g1 == [x0.r EXCEPT !.all = text]
           x1 == WithR(x0, g1)
           g2 == [x1.r EXCEPT !.broken = FALSE]
           x2 == WithR(x1, g2)
           g3 == [x2.j EXCEPT !.part = 1]
           x3 == WithJ(x2, g3)
<1>1. x0 \in Worlds /\ x0.th = w.th /\ x0.r = w.r /\ x0.j = w.j /\ x0.f = w.f /\ x0.said = w.said /\ w.r \in Fields /\ w.j \in Jobs
  BY WorldParts
<1>2. Rejoined(w, text) = x3
  BY DEF Rejoined, WithR, WithJ
<1> HIDE DEF x0
<1>3. g1 \in Fields /\ g1.mode = w.r.mode /\ g1.at = w.r.at /\ g1.spent = w.r.spent /\ g1.pending = w.r.pending /\ g1.flushed = w.r.flushed /\ g1.fenced = w.r.fenced /\ g1.partial = w.r.partial /\ g1.beats = w.r.beats /\ g1.drawn = w.r.drawn /\ g1.open = w.r.open /\ g1.placed = w.r.placed /\ g1.all = text /\ g1.posted = w.r.posted /\ g1.broken = w.r.broken
  BY <1>1, <1>1 DEF Fields
<1> HIDE DEF g1
<1>4. x1 \in Worlds /\ x1.th = w.th /\ x1.r = g1 /\ x1.j = w.j /\ x1.f = w.f /\ x1.said = w.said
  BY <1>1, <1>3, WithRFacts
<1> HIDE DEF x1
<1>5. g2 \in Fields /\ g2.mode = g1.mode /\ g2.at = g1.at /\ g2.spent = g1.spent /\ g2.pending = g1.pending /\ g2.flushed = g1.flushed /\ g2.fenced = g1.fenced /\ g2.partial = g1.partial /\ g2.beats = g1.beats /\ g2.drawn = g1.drawn /\ g2.open = g1.open /\ g2.placed = g1.placed /\ g2.all = g1.all /\ g2.posted = g1.posted /\ g2.broken = FALSE
  BY <1>1, <1>4, <1>3 DEF Fields
<1> HIDE DEF g2
<1>6. x2 \in Worlds /\ x2.th = w.th /\ x2.r = g2 /\ x2.j = w.j /\ x2.f = w.f /\ x2.said = w.said
  BY <1>4, <1>5, WithRFacts
<1> HIDE DEF x2
<1>7. g3 \in Jobs /\ g3.rest = w.j.rest /\ g3.part = 1 /\ g3.then = w.j.then
  BY <1>1, <1>6 DEF Jobs
<1> HIDE DEF g3
<1>8. x3 \in Worlds /\ x3.th = w.th /\ x3.r = g2 /\ x3.j = g3 /\ x3.f = w.f /\ x3.said = w.said
  BY <1>6, <1>7, WithJFacts
<1> HIDE DEF x3
<1> QED
  BY <1>1, <1>2, <1>3, <1>5, <1>7, <1>8

LEMMA TurnedFacts ==
  ASSUME NEW w \in Worlds, NEW text \in Seq(Int)
  PROVE  LET v == Turned(w, text)
         IN  /\ v \in Worlds /\ v.th = w.th /\ v.f = w.f
             /\ v.said = "ok"
             /\ v.j.rest = w.j.rest
             /\ v.j.part = 1
             /\ v.j.then = w.j.then
             /\ v.r.mode = "buffered" /\ v.r.at = w.r.at /\ v.r.spent = w.r.spent
             /\ v.r.pending = w.r.pending /\ v.r.flushed = w.r.flushed /\ v.r.fenced = w.r.fenced
             /\ v.r.partial = w.r.partial /\ v.r.beats = w.r.beats /\ v.r.drawn = w.r.drawn
             /\ v.r.open = w.r.open /\ v.r.placed = w.r.placed /\ v.r.all = text
             /\ v.r.posted = <<>> /\ v.r.broken = FALSE
<1> DEFINE x0 == w
           g1 == [x0.r EXCEPT !.mode = "buffered"]
           x1 == WithR(x0, g1)
           g2 == [x1.r EXCEPT !.all = text]
           x2 == WithR(x1, g2)
           g3 == [x2.r EXCEPT !.posted = <<>>]
           x3 == WithR(x2, g3)
           g4 == [x3.r EXCEPT !.broken = FALSE]
           x4 == WithR(x3, g4)
           g5 == [x4.j EXCEPT !.part = 1]
           x5 == WithJ(x4, g5)
           x6 == [x5 EXCEPT !.said = "ok"]
<1>1. x0 \in Worlds /\ x0.th = w.th /\ x0.r = w.r /\ x0.j = w.j /\ x0.f = w.f /\ x0.said = w.said /\ w.r \in Fields /\ w.j \in Jobs
  BY WorldParts
<1>2. Turned(w, text) = x6
  BY DEF Turned, WithR, WithJ
<1> HIDE DEF x0
<1>3. g1 \in Fields /\ g1.mode = "buffered" /\ g1.at = w.r.at /\ g1.spent = w.r.spent /\ g1.pending = w.r.pending /\ g1.flushed = w.r.flushed /\ g1.fenced = w.r.fenced /\ g1.partial = w.r.partial /\ g1.beats = w.r.beats /\ g1.drawn = w.r.drawn /\ g1.open = w.r.open /\ g1.placed = w.r.placed /\ g1.all = w.r.all /\ g1.posted = w.r.posted /\ g1.broken = w.r.broken
  BY <1>1, <1>1 DEF Fields
<1> HIDE DEF g1
<1>4. x1 \in Worlds /\ x1.th = w.th /\ x1.r = g1 /\ x1.j = w.j /\ x1.f = w.f /\ x1.said = w.said
  BY <1>1, <1>3, WithRFacts
<1> HIDE DEF x1
<1>5. g2 \in Fields /\ g2.mode = g1.mode /\ g2.at = g1.at /\ g2.spent = g1.spent /\ g2.pending = g1.pending /\ g2.flushed = g1.flushed /\ g2.fenced = g1.fenced /\ g2.partial = g1.partial /\ g2.beats = g1.beats /\ g2.drawn = g1.drawn /\ g2.open = g1.open /\ g2.placed = g1.placed /\ g2.all = text /\ g2.posted = g1.posted /\ g2.broken = g1.broken
  BY <1>1, <1>4, <1>3 DEF Fields
<1> HIDE DEF g2
<1>6. x2 \in Worlds /\ x2.th = w.th /\ x2.r = g2 /\ x2.j = w.j /\ x2.f = w.f /\ x2.said = w.said
  BY <1>4, <1>5, WithRFacts
<1> HIDE DEF x2
<1>7. g3 \in Fields /\ g3.mode = g2.mode /\ g3.at = g2.at /\ g3.spent = g2.spent /\ g3.pending = g2.pending /\ g3.flushed = g2.flushed /\ g3.fenced = g2.fenced /\ g3.partial = g2.partial /\ g3.beats = g2.beats /\ g3.drawn = g2.drawn /\ g3.open = g2.open /\ g3.placed = g2.placed /\ g3.all = g2.all /\ g3.posted = <<>> /\ g3.broken = g2.broken
  BY <1>1, <1>6, <1>5, Empties DEF Fields
<1> HIDE DEF g3
<1>8. x3 \in Worlds /\ x3.th = w.th /\ x3.r = g3 /\ x3.j = w.j /\ x3.f = w.f /\ x3.said = w.said
  BY <1>6, <1>7, WithRFacts
<1> HIDE DEF x3
<1>9. g4 \in Fields /\ g4.mode = g3.mode /\ g4.at = g3.at /\ g4.spent = g3.spent /\ g4.pending = g3.pending /\ g4.flushed = g3.flushed /\ g4.fenced = g3.fenced /\ g4.partial = g3.partial /\ g4.beats = g3.beats /\ g4.drawn = g3.drawn /\ g4.open = g3.open /\ g4.placed = g3.placed /\ g4.all = g3.all /\ g4.posted = g3.posted /\ g4.broken = FALSE
  BY <1>1, <1>8, <1>7 DEF Fields
<1> HIDE DEF g4
<1>10. x4 \in Worlds /\ x4.th = w.th /\ x4.r = g4 /\ x4.j = w.j /\ x4.f = w.f /\ x4.said = w.said
  BY <1>8, <1>9, WithRFacts
<1> HIDE DEF x4
<1>11. g5 \in Jobs /\ g5.rest = w.j.rest /\ g5.part = 1 /\ g5.then = w.j.then
  BY <1>1, <1>10 DEF Jobs
<1> HIDE DEF g5
<1>12. x5 \in Worlds /\ x5.th = w.th /\ x5.r = g4 /\ x5.j = g5 /\ x5.f = w.f /\ x5.said = w.said
  BY <1>10, <1>11, WithJFacts
<1> HIDE DEF x5
<1>13. x6 \in Worlds /\ x6.th = w.th /\ x6.r = g4 /\ x6.j = g5 /\ x6.f = w.f /\ x6.said = "ok"
  BY <1>12 DEF Worlds, Sayings
<1> HIDE DEF x6
<1> QED
  BY <1>1, <1>2, <1>3, <1>5, <1>7, <1>9, <1>11, <1>13

(* The reply goes on in whole messages, the first of them with the text. *)
GoesOver(r, s, text) ==
  /\ s.mode = "buffered" /\ s.all = text /\ s.posted = <<>> /\ s.broken = FALSE
  /\ s.at = r.at /\ s.spent = r.spent /\ s.pending = r.pending /\ s.flushed = r.flushed
  /\ s.fenced = r.fenced /\ s.partial = r.partial /\ s.beats = r.beats /\ s.drawn = r.drawn
  /\ s.open = r.open /\ s.placed = r.placed

LEMMA TurnedOver ==
  ASSUME NEW w \in Worlds, NEW text \in Seq(Int)
  PROVE  /\ Turned(w, text) \in Worlds /\ Turned(w, text).th = w.th /\ Turned(w, text).f = w.f
         /\ Turned(w, text).said = "ok"
         /\ Turned(w, text).j.rest = w.j.rest /\ Turned(w, text).j.part = 1
         /\ Turned(w, text).j.then = w.j.then
         /\ GoesOver(w.r, Turned(w, text).r, text)
<1>1. GoesOver(w.r, Turned(w, text).r, text)
  BY TurnedFacts DEF GoesOver
<1> QED
  BY <1>1, TurnedFacts

LEMMA AppendUnhosted ==
  ASSUME ~hosts, NEW w \in Worlds, w.r.at = 0, NEW c \in Chunks, NEW v \in AppendChunk(w, c)
  PROVE  /\ v \in Worlds /\ v.th = w.th /\ Worse(w.f, v.f)
         /\ \/ /\ w.r.mode = "streaming" /\ v.said = "ok" /\ v.f = w.f
               /\ GoesOver(w.r, v.r, c.text)
               /\ v.j.part = 1 /\ v.j.rest = w.j.rest /\ v.j.then = w.j.then
            \/ /\ v.said = "failed" /\ v.r = w.r /\ v.j = w.j
               /\ w.r.mode = "streaming" => v.f.count # w.f.count
<1>1. w.th \in Thread /\ w.r \in Fields /\ w.f \in FaultsSet /\ c.text \in Seq(Int)
  BY WorldParts DEF Chunks
<1>2. CASE w.r.mode # "streaming"
  <2>1. v = [w EXCEPT !.said = "failed"]
    BY <1>2 DEF AppendChunk
  <2>2. v \in Worlds /\ v.th = w.th /\ v.r = w.r /\ v.j = w.j /\ v.f = w.f /\ v.said = "failed"
    BY <2>1 DEF Worlds, Sayings
  <2> QED
    BY <1>1, <1>2, <2>2, WorseFacts
<1>3. CASE w.r.mode = "streaming"
  <2>1. v \in Start(w, c)
    BY <1>3 DEF AppendChunk
  <2> DEFINE a == StartStream(w.th, hosts, c)
  <2>2. PICK u \in Called(w, a) :
          v = IF u.said = "ok" THEN [u EXCEPT !.r.at = Len(u.th), !.r.spent = 0]
              ELSE IF u.said = "channel_type_not_supported" THEN Turned(u, c.text)
              ELSE u
    BY <2>1 DEF Start, Turned
  <2>3. a \in Answers /\ a.said = "channel_type_not_supported" /\ a.th = w.th
    BY <1>1, StartAnswer
  <2> HIDE DEF a
  <2>4. /\ u \in Worlds /\ u.r = w.r /\ u.j = w.j
        /\ u.f.cut = w.f.cut /\ u.f.ends = w.f.ends /\ u.f.count >= w.f.count
        /\ w.f.lost => u.f.lost
        /\ \/ u.th = a.th /\ u.said = a.said /\ u.f = w.f
           \/ u.f.count > w.f.count /\ u.f.count # w.f.count /\ u.said = "failed"
        /\ u.th = w.th \/ u.th = a.th
    <3>1. a \in Answers
      BY <2>3
    <3> QED
      BY <3>1, CalledFacts
  <2>5. Worse(w.f, u.f) /\ u.th = w.th
    BY <2>3, <2>4 DEF Worse
  <2>6. CASE u.said = "channel_type_not_supported"
    <3> DEFINE x == Turned(u, c.text)
    <3>1. /\ x \in Worlds /\ x.th = u.th /\ x.f = u.f /\ x.said = "ok"
          /\ x.j.rest = u.j.rest /\ x.j.part = 1 /\ x.j.then = u.j.then
          /\ GoesOver(u.r, x.r, c.text)
      <4>1. u \in Worlds
        BY <2>4
      <4> QED
        BY <1>1, <4>1, TurnedOver
    <3>2. v = x
      BY <2>2, <2>6
    <3> HIDE DEF x
    <3>3. u.f = w.f
      BY <2>4, <2>6
    <3> QED
      BY <1>3, <2>4, <2>5, <3>1, <3>2, <3>3
  <2>7. CASE u.said # "channel_type_not_supported"
    <3>1. u.said = "failed" /\ u.f.count # w.f.count
      BY <2>3, <2>4, <2>7
    <3>2. v = u
      BY <2>2, <3>1
    <3> QED
      BY <1>3, <2>4, <2>5, <3>1, <3>2
  <2> QED
    BY <2>6, <2>7
<1> QED
  BY <1>2, <1>3

(* What a surface makes of the reply *)
Fitting(h, w) ==
  /\ w \in Worlds
  /\ StreamAt(w.th, w.r.at)
  /\ w.r.spent <= Budget + 2
  /\ h => w.r.mode = "streaming"
  /\ ~h => w.r.at = 0

(* The stream is where it was, or none is written, or a new one. *)
MovesOn(w, v) == v.r.at = w.r.at \/ v.r.at = 0 \/ v.r.at > Len(w.th)

LEMMA RolloverFits ==
  ASSUME NEW w, Fitting(hosts, w), w.r.mode = "streaming", NEW v \in Rollover(w)
  PROVE  /\ Fitting(hosts, v) /\ SameWords(w.r, v.r) /\ v.j = w.j /\ Worse(w.f, v.f)
         /\ Quiet(w.th, v.th)
         /\ v.r.at = 0 \/ v.r.at > Len(w.th)
         /\ w.r.at = 0 => v = w
<1>1. w \in Worlds /\ w.th \in Thread /\ w.f \in FaultsSet /\ w.r \in Fields
  BY WorldParts DEF Fitting
<1>2. CASE w.r.at = 0
  <2>1. v = w
    BY <1>2 DEF Rollover
  <2> QED
    BY <1>1, <1>2, <2>1, QuietSame, WorseFacts, SameSelf
<1>3. CASE w.r.at # 0
  <2>1. hosts /\ StreamAt(w.th, w.r.at)
    BY <1>3 DEF Fitting
  <2>2. /\ v \in Worlds /\ SameWords(w.r, v.r) /\ v.j = w.j /\ Worse(w.f, v.f)
        /\ Quiet(w.th, v.th)
        /\ \/ v.r.at = 0 /\ v.r.spent = 0
           \/ /\ v.r.at > Len(w.th) /\ v.r.at = Len(v.th) /\ v.r.spent = 2
              /\ v.th[v.r.at].kind = "stream"
    BY <1>1, <1>3, <2>1, RolloverHosted
  <2>3. v.th \in Thread /\ v.r \in Fields
    BY <2>2, WorldParts
  <2>4. StreamAt(v.th, v.r.at)
    <3>1. CASE v.r.at = 0
      BY <3>1 DEF StreamAt
    <3>2. CASE v.r.at # 0
      <4>1. v.r.at = Len(v.th) /\ v.th[v.r.at].kind = "stream"
        BY <2>2, <3>2
      <4>2. v.r.at \in DOMAIN v.th /\ \A j \in DOMAIN v.th : ~(j > v.r.at)
        BY <2>3, <3>2, <4>1 DEF Thread
      <4> QED
        BY <4>1, <4>2 DEF StreamAt
    <3> QED
      BY <3>1, <3>2
  <2>5. v.r.mode = "streaming" /\ v.r.spent <= Budget + 2
    BY <2>2, Bounds DEF SameWords
  <2>6. Fitting(hosts, v)
    BY <2>1, <2>2, <2>4, <2>5 DEF Fitting
  <2>7. v.r.at = 0 \/ v.r.at > Len(w.th)
    BY <2>2
  <2> QED
    BY <1>3, <2>2, <2>6, <2>7
<1> QED
  BY <1>2, <1>3

SameText(r, s) ==
  /\ s.mode = r.mode /\ s.pending = r.pending /\ s.flushed = r.flushed
  /\ s.beats = r.beats /\ s.drawn = r.drawn /\ s.open = r.open
  /\ s.all = r.all /\ s.posted = r.posted /\ s.broken = r.broken

LEMMA LeavePlacedFacts ==
  ASSUME NEW w, Fitting(hosts, w), NEW v \in LeavePlaced(w)
  PROVE  /\ Fitting(hosts, v) /\ v.j = w.j /\ Worse(w.f, v.f) /\ Quiet(w.th, v.th)
         /\ ~v.r.placed
         /\ ~w.r.placed => v = w
         /\ w.r.placed /\ w.r.mode = "streaming" =>
              SameText(w.r, v.r) /\ (v.r.at = 0 \/ v.r.at > Len(w.th))
         /\ w.r.placed /\ w.r.mode # "streaming" =>
              /\ v.th = w.th /\ v.f = w.f /\ v.r.all = <<>> /\ v.r.posted = <<>> /\ v.r.broken = FALSE
              /\ v.r.mode = w.r.mode /\ v.r.at = w.r.at /\ v.r.pending = w.r.pending
              /\ v.r.flushed = w.r.flushed /\ v.r.beats = w.r.beats /\ v.r.drawn = w.r.drawn
              /\ v.r.open = w.r.open
<1>1. w \in Worlds /\ w.th \in Thread /\ w.f \in FaultsSet /\ w.r \in Fields
  BY WorldParts DEF Fitting
<1>2. CASE ~w.r.placed
  <2>1. v = w
    BY <1>2 DEF LeavePlaced
  <2> QED
    BY <1>1, <1>2, <2>1, QuietSame, WorseFacts
<1>3. CASE w.r.placed
  <2> DEFINE u == Unplaced(w)
  <2>1. v \in IF w.r.mode = "streaming" THEN Rollover(u) ELSE {Blanked(u)}
    <3>1. u.r.mode = w.r.mode
      BY <1>1, UnplacedFacts
    <3>2. LeavePlaced(w) = IF w.r.mode = "streaming" THEN Rollover(u) ELSE {Blanked(u)}
      BY <1>3 DEF LeavePlaced, Unplaced, Blanked
    <3> QED
      BY <3>2
  <2>2. /\ u \in Worlds /\ u.th = w.th /\ u.f = w.f /\ u.j = w.j /\ u.r.placed = FALSE
        /\ u.r.at = w.r.at /\ u.r.spent = w.r.spent /\ SameText(w.r, u.r)
    BY <1>1, UnplacedFacts DEF SameText
  <2> HIDE DEF u
  <2>3. Fitting(hosts, u)
    BY <2>2 DEF Fitting, SameText
  <2>4. CASE w.r.mode = "streaming"
    <3>1. v \in Rollover(u) /\ u.r.mode = "streaming"
      BY <2>1, <2>2, <2>4 DEF SameText
    <3>2. /\ Fitting(hosts, v) /\ SameWords(u.r, v.r) /\ v.j = u.j /\ Worse(u.f, v.f)
          /\ Quiet(u.th, v.th)
          /\ v.r.at = 0 \/ v.r.at > Len(u.th)
      BY <2>3, <3>1, RolloverFits
    <3>3. SameText(w.r, v.r) /\ v.r.placed = FALSE
      BY <2>2, <3>2 DEF SameText, SameWords
    <3> QED
      BY <1>3, <2>2, <2>4, <3>2, <3>3
  <2>5. CASE w.r.mode # "streaming"
    <3> DEFINE x == Blanked(u)
    <3>1. /\ x \in Worlds /\ x.th = u.th /\ x.f = u.f /\ x.j = u.j
          /\ x.r.all = <<>> /\ x.r.posted = <<>> /\ x.r.broken = FALSE
          /\ x.r.mode = u.r.mode /\ x.r.at = u.r.at /\ x.r.pending = u.r.pending
          /\ x.r.flushed = u.r.flushed /\ x.r.beats = u.r.beats /\ x.r.drawn = u.r.drawn
          /\ x.r.open = u.r.open /\ x.r.placed = u.r.placed /\ x.r.spent = u.r.spent
      BY <2>2, BlankedFacts
    <3>2. v = x
      BY <2>1, <2>5
    <3> HIDE DEF x
    <3>3. Fitting(hosts, v)
      BY <2>3, <3>1, <3>2 DEF Fitting
    <3>4. Worse(w.f, v.f) /\ Quiet(w.th, v.th)
      BY <1>1, <2>2, <3>1, <3>2, QuietSame, WorseFacts
    <3> QED
      BY <1>3, <2>2, <2>5, <3>1, <3>2, <3>3, <3>4 DEF SameText
  <2> QED
    BY <2>4, <2>5
<1> QED
  BY <1>2, <1>3

LEMMA Least ==
  ASSUME NEW T \in SUBSET Nat, T # {}
  PROVE  \E x \in T : \A y \in T : x <= y
<1> DEFINE Less == {p \in Nat \X Nat : p[1] < p[2]}
<1>1. IsWellFoundedOn(Less, Nat)
  BY NatLessThanWellFounded DEF OpToRel
<1>2. \A x, y \in Nat : <<y, x>> \in Less <=> y < x
  OBVIOUS
<1> HIDE DEF Less
<1>3. PICK x \in T : \A y \in T : <<y, x>> \notin Less
  BY <1>1, WFMin
<1>4. \A y \in T : ~(y < x)
  BY <1>2, <1>3
<1> QED
  BY <1>4

LEMMA Induct ==
  ASSUME NEW Holds \in SUBSET Nat, 0 \in Holds, \A n \in Nat : n \in Holds => n + 1 \in Holds
  PROVE  Holds = Nat
<1> SUFFICES ASSUME Nat \ Holds # {} PROVE FALSE
  OBVIOUS
<1>1. PICK x \in Nat \ Holds : \A y \in Nat \ Holds : x <= y
  BY Least
<1>2. x # 0 /\ x - 1 \in Nat /\ x - 1 \in Holds
  BY <1>1
<1> QED
  BY <1>1, <1>2

LEMMA Greatest ==
  ASSUME NEW n \in Nat, NEW T \in SUBSET (1 .. n), T # {}
  PROVE  \E x \in T : \A y \in T : y <= x
<1> DEFINE S == {m \in Nat : n - m \in T}
<1>1. S # {}
  <2>1. PICK x \in T : TRUE
    OBVIOUS
  <2>2. n - x \in Nat /\ n - (n - x) = x
    OBVIOUS
  <2> QED
    BY <2>1, <2>2
<1>2. S \in SUBSET Nat
  OBVIOUS
<1> HIDE DEF S
<1>3. PICK m \in S : \A k \in S : m <= k
  BY <1>1, <1>2, Least
<1>4. m \in Nat /\ n - m \in T
  BY <1>3 DEF S
<1>5. \A y \in T : y <= n - m
  <2> TAKE y \in T
  <2>1. n - y \in Nat /\ n - (n - y) = y
    OBVIOUS
  <2>2. n - y \in S
    BY <2>1 DEF S
  <2>3. m <= n - y
    BY <1>3, <2>2
  <2> QED
    BY <1>4, <2>1, <2>3
<1> QED
  BY <1>4, <1>5

LEMMA LastIndexFacts ==
  ASSUME NEW text \in Seq(Int), NEW kind
  PROVE  /\ LastIndexOf(text, kind) \in 0 .. Len(text)
         /\ LastIndexOf(text, kind) # 0 => KindOf(text[LastIndexOf(text, kind)]) = kind
         /\ \A i \in 1 .. Len(text) : KindOf(text[i]) = kind => i <= LastIndexOf(text, kind)
<1> DEFINE at == {i \in DOMAIN text : KindOf(text[i]) = kind}
           x  == CHOOSE i \in at : \A j \in at : j <= i
<1>1. LastIndexOf(text, kind) = IF at = {} THEN 0 ELSE x
  BY DEF LastIndexOf
<1>2. at \in SUBSET (1 .. Len(text)) /\ Len(text) \in Nat
  OBVIOUS
<1>5. \A i \in at : KindOf(text[i]) = kind
  OBVIOUS
<1>6. \A i \in 1 .. Len(text) : KindOf(text[i]) = kind => i \in at
  OBVIOUS
<1> HIDE DEF at
<1>3. CASE at = {}
  BY <1>1, <1>2, <1>3, <1>6
<1>4. CASE at # {}
  <2>1. \E i \in at : \A j \in at : j <= i
    BY <1>2, <1>4, Greatest
  <2>2. x \in at /\ \A j \in at : j <= x
    BY <2>1
  <2> HIDE DEF x
  <2>3. LastIndexOf(text, kind) = x
    BY <1>1, <1>4
  <2> QED
    BY <1>2, <1>5, <1>6, <2>2, <2>3
<1> QED
  BY <1>3, <1>4

LEMMA SplitAtFacts ==
  ASSUME NEW text \in Seq(Int), NEW room \in Nat
  PROVE  SplitAt(text, room) \in 0 .. Len(text) /\ SplitAt(text, room) <= room
<1>1. CASE Len(text) <= room
  BY <1>1 DEF SplitAt
<1>2. CASE ~(Len(text) <= room)
  <2> DEFINE head == SubSeq(text, 1, room)
             nl   == LastIndexOf(head, "nl")
  <2>1. head \in Seq(Int) /\ Len(head) = room
    BY <1>2
  <2> HIDE DEF head
  <2>2. nl \in 0 .. room
    BY <2>1, LastIndexFacts
  <2>3. SplitAt(text, room) = IF nl > 0 THEN nl ELSE room
    BY <1>2 DEF SplitAt, head
  <2> HIDE DEF nl
  <2> QED
    BY <1>2, <2>2, <2>3
<1> QED
  BY <1>1, <1>2

Gaps(text) == \A p \in 1 .. Len(text) : text[p] = NL

LEMMA BreakFacts ==
  ASSUME NEW text \in Seq(Int)
  PROVE  Break(text) \in Seq(Int) /\ Gaps(Break(text))
<1> DEFINE words == {i \in DOMAIN text : KindOf(text[i]) # "nl"}
           x     == CHOOSE i \in words : \A j \in words : j <= i
           had   == Len(text) - (IF words = {} THEN 0 ELSE x)
           n     == IF had >= 2 THEN 0 ELSE 2 - had
<1>1. Break(text) = IF words = {} THEN <<>> ELSE [i \in 1 .. n |-> NL]
  BY DEF Break
<1>2. words \in SUBSET (1 .. Len(text)) /\ Len(text) \in Nat
  OBVIOUS
<1> HIDE DEF words
<1>3. CASE words = {}
  BY <1>1, <1>3, Empties DEF Gaps
<1>4. CASE words # {}
  <2>1. \E i \in words : \A j \in words : j <= i
    BY <1>2, <1>4, Greatest
  <2>2. x \in words
    BY <2>1
  <2> HIDE DEF x
  <2>3. had \in Nat
    BY <1>2, <1>4, <2>2
  <2> HIDE DEF had
  <2>4. n \in Nat
    BY <2>3
  <2> HIDE DEF n
  <2>5. Break(text) = [i \in 1 .. n |-> NL]
    BY <1>1, <1>4
  <2>6. Break(text) \in Seq(Int) /\ Len(Break(text)) = n
    BY <2>4, <2>5 DEF NL
  <2> QED
    BY <2>5, <2>6 DEF Gaps
<1> QED
  BY <1>3, <1>4

(* What Unled leaves out are newlines. *)
LEMMA UnledFacts ==
  ASSUME NEW text \in Seq(Int)
  PROVE  \E k \in 1 .. Len(text) + 1 :
           /\ Unled(text) = SubSeq(text, k, Len(text))
           /\ \A i \in 1 .. k - 1 : KindOf(text[i]) = "nl"
<1> DEFINE words == {i \in DOMAIN text : KindOf(text[i]) # "nl"}
           x     == CHOOSE i \in words : \A j \in words : i <= j
<1>1. Unled(text) = IF words = {} THEN <<>> ELSE SubSeq(text, x, Len(text))
  BY DEF Unled
<1>2. words \in SUBSET (1 .. Len(text)) /\ Len(text) \in Nat
  OBVIOUS
<1>3. \A i \in 1 .. Len(text) : i \notin words => KindOf(text[i]) = "nl"
  OBVIOUS
<1> HIDE DEF words
<1>4. CASE words = {}
  <2>1. SubSeq(text, Len(text) + 1, Len(text)) = <<>>
    BY <1>2
  <2>2. \A i \in 1 .. (Len(text) + 1) - 1 : KindOf(text[i]) = "nl"
    BY <1>2, <1>3, <1>4
  <2>3. Len(text) + 1 \in 1 .. Len(text) + 1
    BY <1>2
  <2> QED
    BY <1>1, <1>4, <2>1, <2>2, <2>3
<1>5. CASE words # {}
  <2>1. \E i \in words : \A j \in words : i <= j
    BY <1>2, <1>5, Least
  <2>2. x \in words /\ \A j \in words : x <= j
    BY <2>1
  <2> HIDE DEF x
  <2>3. x \in 1 .. Len(text) + 1 /\ \A i \in 1 .. x - 1 : KindOf(text[i]) = "nl"
    BY <1>2, <1>3, <2>2
  <2> QED
    BY <1>1, <1>5, <2>3
<1> QED
  BY <1>4, <1>5

Joining(all, broken, text) ==
  IF broken /\ Unled(all) # <<>> THEN all \o Break(all) \o Unled(text) ELSE all \o text

(* What is joined is all there was, a gap, and the text but for newlines   *)
(* that lead it.                                                           *)
LEMMA JoinedFacts ==
  ASSUME NEW all \in Seq(Int), NEW broken \in BOOLEAN, NEW text \in Seq(Int)
  PROVE  \E gap \in Seq(Int), k \in 1 .. Len(text) + 1 :
           /\ Gaps(gap)
           /\ \A i \in 1 .. k - 1 : KindOf(text[i]) = "nl"
           /\ SubSeq(text, k, Len(text)) \in Seq(Int)
           /\ Joining(all, broken, text) = (all \o gap) \o SubSeq(text, k, Len(text))
<1>1. \A k \in 1 .. Len(text) + 1 : SubSeq(text, k, Len(text)) \in Seq(Int)
  OBVIOUS
<1>2. CASE broken /\ Unled(all) # <<>>
  <2>1. PICK k \in 1 .. Len(text) + 1 :
           /\ Unled(text) = SubSeq(text, k, Len(text))
           /\ \A i \in 1 .. k - 1 : KindOf(text[i]) = "nl"
    BY UnledFacts
  <2>2. Break(all) \in Seq(Int) /\ Gaps(Break(all))
    BY BreakFacts
  <2>3. Joining(all, broken, text) = (all \o Break(all)) \o SubSeq(text, k, Len(text))
    BY <1>2, <2>1 DEF Joining
  <2> QED
    BY <1>1, <2>1, <2>2, <2>3
<1>3. CASE ~(broken /\ Unled(all) # <<>>)
  <2>1. Joining(all, broken, text) = all \o text
    BY <1>3 DEF Joining
  <2>2. all \o <<>> = all /\ SubSeq(text, 1, Len(text)) = text
    OBVIOUS
  <2>3. Gaps(<<>>)
    BY Empties DEF Gaps
  <2>4. 1 \in 1 .. Len(text) + 1 /\ \A i \in 1 .. 1 - 1 : KindOf(text[i]) = "nl"
    OBVIOUS
  <2>5. Joining(all, broken, text) = (all \o <<>>) \o SubSeq(text, 1, Len(text))
    BY <2>1, <2>2
  <2> QED
    BY <1>1, <2>3, <2>4, <2>5, Empties
<1> QED
  BY <1>2, <1>3

LEMMA JoinedUnits ==
  ASSUME NEW all \in Seq(Int), NEW broken \in BOOLEAN, NEW text \in Seq(Int)
  PROVE  /\ Joining(all, broken, text) \in Seq(Int)
         /\ \A p \in DOMAIN Joining(all, broken, text) : Joining(all, broken, text)[p] > 0 =>
              \/ \E q \in DOMAIN all : all[q] = Joining(all, broken, text)[p]
              \/ \E q \in DOMAIN text : text[q] = Joining(all, broken, text)[p]
<1>1. PICK gap \in Seq(Int), k \in 1 .. Len(text) + 1 :
           /\ Gaps(gap)
           /\ \A i \in 1 .. k - 1 : KindOf(text[i]) = "nl"
           /\ SubSeq(text, k, Len(text)) \in Seq(Int)
           /\ Joining(all, broken, text) = (all \o gap) \o SubSeq(text, k, Len(text))
  BY JoinedFacts
<1> DEFINE J == Joining(all, broken, text)
           t == SubSeq(text, k, Len(text))
<1>3. \A q \in 1 .. Len(t) : \E r \in DOMAIN text : text[r] = t[q]
  <2> TAKE q \in 1 .. Len(t)
  <2>1. k + q - 1 \in DOMAIN text /\ t[q] = text[k + q - 1]
    OBVIOUS
  <2> QED
    BY <2>1
<1>4. t \in Seq(Int) /\ J = (all \o gap) \o t
  BY <1>1
<1> HIDE DEF J, t
<1>5. J \in Seq(Int) /\ Len(J) = Len(all) + Len(gap) + Len(t)
  BY <1>4
<1>6. \A p \in 1 .. Len(all) : J[p] = all[p]
  BY <1>4
<1>7. \A p \in 1 .. Len(gap) : J[Len(all) + p] = gap[p]
  BY <1>4
<1>8. \A p \in 1 .. Len(t) : J[Len(all) + Len(gap) + p] = t[p]
  BY <1>4
<1>9. ASSUME NEW p \in DOMAIN J, J[p] > 0
      PROVE  (\E q \in DOMAIN all : all[q] = J[p]) \/ (\E q \in DOMAIN text : text[q] = J[p])
  <2>1. p \in Nat /\ p >= 1 /\ p <= Len(all) + Len(gap) + Len(t)
    BY <1>5
  <2>2. CASE p <= Len(all)
    <3>1. p \in DOMAIN all /\ all[p] = J[p]
      BY <1>6, <2>1, <2>2
    <3> QED
      BY <3>1
  <2>3. CASE p > Len(all) /\ p <= Len(all) + Len(gap)
    <3>1. p - Len(all) \in 1 .. Len(gap) /\ Len(all) + (p - Len(all)) = p
      BY <2>1, <2>3
    <3>2. J[p] = gap[p - Len(all)]
      BY <1>7, <3>1
    <3>3. J[p] = NL
      BY <1>1, <3>1, <3>2 DEF Gaps
    <3> QED
      BY <1>9, <3>3 DEF NL
  <2>4. CASE p > Len(all) + Len(gap)
    <3>1. p - (Len(all) + Len(gap)) \in 1 .. Len(t) /\ Len(all) + Len(gap) + (p - (Len(all) + Len(gap))) = p
      BY <1>4, <2>1, <2>4
    <3>2. J[p] = t[p - (Len(all) + Len(gap))]
      BY <1>8, <3>1
    <3> QED
      BY <1>3, <3>1, <3>2
  <2> QED
    BY <2>1, <2>2, <2>3, <2>4
<1> QED
  BY <1>5, <1>9 DEF J

LEMMA CutText ==
  ASSUME NEW text \in Seq(Int), NEW cut \in Nat, cut <= Len(text)
  PROVE  /\ SubSeq(text, 1, cut) \in Seq(Int) /\ Len(SubSeq(text, 1, cut)) = cut
         /\ \A p \in 1 .. cut : SubSeq(text, 1, cut)[p] = text[p]
         /\ SubSeq(text, cut + 1, Len(text)) \in Seq(Int)
         /\ Len(SubSeq(text, cut + 1, Len(text))) = Len(text) - cut
         /\ \A p \in 1 .. Len(text) - cut : SubSeq(text, cut + 1, Len(text))[p] = text[cut + p]
         /\ cut = Len(text) => SubSeq(text, cut + 1, Len(text)) = <<>>
<1>1. Len(text) \in Nat
  OBVIOUS
<1>2. SubSeq(text, 1, cut) \in Seq(Int) /\ Len(SubSeq(text, 1, cut)) = cut
  BY <1>1
<1>3. \A p \in 1 .. cut : SubSeq(text, 1, cut)[p] = text[p]
  BY <1>1
<1>4. SubSeq(text, cut + 1, Len(text)) \in Seq(Int) /\ Len(SubSeq(text, cut + 1, Len(text))) = Len(text) - cut
  BY <1>1
<1>5. \A p \in 1 .. Len(text) - cut : SubSeq(text, cut + 1, Len(text))[p] = text[cut + p]
  BY <1>1
<1>6. cut = Len(text) => SubSeq(text, cut + 1, Len(text)) = <<>>
  BY <1>1, <1>4
<1> QED
  BY <1>2, <1>3, <1>4, <1>5, <1>6

LEMMA EmitFacts ==
  ASSUME NEW w, Fitting(hosts, w), NEW cut \in 1 .. Len(w.r.pending), NEW v \in Emit(w, cut)
  PROVE  LET text == SubSeq(w.r.pending, 1, cut)
         IN  /\ Fitting(hosts, v) /\ Worse(w.f, v.f) /\ Quiet(w.th, v.th)
             /\ v.r.placed = FALSE /\ v.r.open = 0
             /\ v.r.beats = w.r.beats /\ v.r.drawn = w.r.drawn /\ v.r.mode = w.r.mode
             /\ v.r.pending = SubSeq(w.r.pending, cut + 1, Len(w.r.pending))
             /\ v.j.then = w.j.then
             /\ ~w.r.placed => /\ v.th = w.th /\ v.f = w.f /\ v.r.at = w.r.at /\ v.r.spent = w.r.spent
                               /\ v.r.fenced = w.r.fenced /\ v.r.partial = w.r.partial
             /\ w.r.placed /\ w.r.mode = "streaming" => v.r.at = 0 \/ v.r.at > Len(w.th)
             /\ w.r.mode = "streaming" =>
                  /\ v.j.rest = text /\ v.j.part = w.j.part
                  /\ v.r.all = w.r.all /\ v.r.posted = w.r.posted
             /\ w.r.mode # "streaming" =>
                  /\ v.j.rest = w.j.rest /\ v.j.part = 1 /\ v.th = w.th /\ v.f = w.f
                  /\ v.r.at = w.r.at /\ v.r.broken = FALSE
                  /\ IF w.r.placed THEN v.r.all = Joining(<<>>, FALSE, text) /\ v.r.posted = <<>>
                     ELSE v.r.all = Joining(w.r.all, w.r.broken, text) /\ v.r.posted = w.r.posted
<1> DEFINE text == SubSeq(w.r.pending, 1, cut)
           out  == Chopped(w, cut)
           J(u) == Joining(u.r.all, u.r.broken, text)
<1>1. w \in Worlds /\ w.th \in Thread /\ w.f \in FaultsSet /\ w.r \in Fields /\ w.j \in Jobs
  BY WorldParts DEF Fitting
<1>2. cut \in Nat /\ cut <= Len(w.r.pending) /\ cut # 0 /\ w.r.pending \in Seq(Int)
  BY <1>1 DEF Fields
<1>3. PICK u \in LeavePlaced(out) :
        v = IF u.r.mode = "streaming" THEN Rested(u, text) ELSE Rejoined(u, J(u))
  BY <1>2 DEF Emit, Chopped, Rested, Rejoined, Joining
<1>4. text \in Seq(Int)
  BY <1>2, CutText
<1>5. /\ out \in Worlds /\ out.th = w.th /\ out.j = w.j /\ out.f = w.f
      /\ out.r.pending = SubSeq(w.r.pending, cut + 1, Len(w.r.pending))
      /\ out.r.mode = w.r.mode /\ out.r.at = w.r.at /\ out.r.spent = w.r.spent
      /\ out.r.placed = w.r.placed /\ out.r.all = w.r.all /\ out.r.posted = w.r.posted
      /\ out.r.broken = w.r.broken /\ out.r.fenced = w.r.fenced /\ out.r.partial = w.r.partial
      /\ out.r.beats = w.r.beats /\ out.r.drawn = w.r.drawn /\ out.r.open = 0
  BY <1>1, <1>2, ChoppedFacts
<1> HIDE DEF out
<1>6. Fitting(hosts, out)
  BY <1>5 DEF Fitting
<1>7. /\ Fitting(hosts, u) /\ u.j = w.j /\ Worse(w.f, u.f) /\ Quiet(w.th, u.th)
      /\ ~u.r.placed
      /\ ~w.r.placed => u = out
      /\ w.r.placed /\ w.r.mode = "streaming" =>
           SameText(out.r, u.r) /\ (u.r.at = 0 \/ u.r.at > Len(w.th))
      /\ w.r.placed /\ w.r.mode # "streaming" =>
           /\ u.th = w.th /\ u.f = w.f /\ u.r.all = <<>> /\ u.r.posted = <<>> /\ u.r.broken = FALSE
           /\ u.r.mode = w.r.mode /\ u.r.at = w.r.at /\ u.r.pending = out.r.pending
           /\ u.r.beats = w.r.beats /\ u.r.drawn = w.r.drawn
           /\ u.r.open = 0
  <2>1. /\ Fitting(hosts, u) /\ u.j = out.j /\ Worse(out.f, u.f) /\ Quiet(out.th, u.th)
        /\ ~u.r.placed
        /\ ~out.r.placed => u = out
        /\ out.r.placed /\ out.r.mode = "streaming" =>
             SameText(out.r, u.r) /\ (u.r.at = 0 \/ u.r.at > Len(out.th))
        /\ out.r.placed /\ out.r.mode # "streaming" =>
             /\ u.th = out.th /\ u.f = out.f /\ u.r.all = <<>> /\ u.r.posted = <<>> /\ u.r.broken = FALSE
             /\ u.r.mode = out.r.mode /\ u.r.at = out.r.at /\ u.r.pending = out.r.pending
             /\ u.r.flushed = out.r.flushed /\ u.r.beats = out.r.beats /\ u.r.drawn = out.r.drawn
             /\ u.r.open = out.r.open
    BY <1>6, LeavePlacedFacts
  <2> QED
    BY <1>5, <2>1
<1>8. u \in Worlds /\ u.r \in Fields
  BY <1>7, WorldParts DEF Fitting
<1>9. /\ u.r.mode = w.r.mode /\ u.r.pending = out.r.pending /\ u.r.beats = w.r.beats
      /\ u.r.drawn = w.r.drawn /\ u.r.open = 0 /\ u.r.placed = FALSE
  BY <1>5, <1>7, <1>8 DEF SameText, Fields
<1> HIDE DEF text
<1>10. CASE w.r.mode = "streaming"
  <2> DEFINE x == Rested(u, text)
  <2>1. /\ x \in Worlds /\ x.th = u.th /\ x.f = u.f /\ x.r = u.r
        /\ x.j.rest = text /\ x.j.part = u.j.part /\ x.j.then = u.j.then
    BY <1>4, <1>8, RestedFacts
  <2>2. v = x
    BY <1>3, <1>9, <1>10
  <2> HIDE DEF x
  <2>3. Fitting(hosts, v)
    BY <1>7, <2>1, <2>2 DEF Fitting
  <2>4. v.r.all = w.r.all /\ v.r.posted = w.r.posted
    BY <1>5, <1>7, <1>10, <2>1, <2>2 DEF SameText
  <2>5. ~w.r.placed => /\ v.th = w.th /\ v.f = w.f /\ v.r.at = w.r.at /\ v.r.spent = w.r.spent
                       /\ v.r.fenced = w.r.fenced /\ v.r.partial = w.r.partial
    BY <1>5, <1>7, <2>1, <2>2
  <2>6. w.r.placed => v.r.at = 0 \/ v.r.at > Len(w.th)
    BY <1>7, <1>10, <2>1, <2>2
  <2> QED
    BY <1>5, <1>7, <1>9, <1>10, <2>1, <2>2, <2>3, <2>4, <2>5, <2>6 DEF text
<1>11. CASE w.r.mode # "streaming"
  <2> DEFINE a == J(u)
             x == Rejoined(u, a)
  <2>1. a \in Seq(Int)
    <3>1. u.r.all \in Seq(Int) /\ u.r.broken \in BOOLEAN
      BY <1>8 DEF Fields
    <3> QED
      BY <1>4, <3>1, JoinedUnits
  <2>2. v = x
    BY <1>3, <1>9, <1>11
  <2>3. IF w.r.placed THEN a = Joining(<<>>, FALSE, text) ELSE a = Joining(w.r.all, w.r.broken, text)
    BY <1>5, <1>7, <1>11
  <2> HIDE DEF a
  <2>4. /\ x \in Worlds /\ x.th = u.th /\ x.f = u.f /\ x.r.all = a /\ x.r.broken = FALSE
        /\ x.j.rest = u.j.rest /\ x.j.part = 1 /\ x.j.then = u.j.then
        /\ x.r.mode = u.r.mode /\ x.r.at = u.r.at /\ x.r.spent = u.r.spent /\ x.r.pending = u.r.pending
        /\ x.r.fenced = u.r.fenced /\ x.r.partial = u.r.partial /\ x.r.beats = u.r.beats
        /\ x.r.drawn = u.r.drawn /\ x.r.open = u.r.open /\ x.r.placed = u.r.placed
        /\ x.r.posted = u.r.posted
    BY <1>8, <2>1, RejoinedFacts
  <2> HIDE DEF x
  <2>5. Fitting(hosts, v)
    BY <1>7, <2>2, <2>4 DEF Fitting
  <2>6. v.r.posted = IF w.r.placed THEN <<>> ELSE w.r.posted
    BY <1>5, <1>7, <1>11, <2>2, <2>4
  <2>7. v.th = w.th /\ v.f = w.f /\ v.r.at = w.r.at
    BY <1>5, <1>7, <1>11, <2>2, <2>4
  <2>8. ~w.r.placed => /\ v.r.spent = w.r.spent
                       /\ v.r.fenced = w.r.fenced /\ v.r.partial = w.r.partial
    BY <1>5, <1>7, <2>2, <2>4
  <2>9. Quiet(w.th, v.th) /\ Worse(w.f, v.f)
    BY <1>7, <2>2, <2>4
  <2> QED
    BY <1>5, <1>7, <1>9, <1>11, <2>2, <2>3, <2>4, <2>5, <2>6, <2>7, <2>8, <2>9 DEF text
<1> QED
  BY <1>10, <1>11

(* How much of what was said is written, or was given up. *)
Left(w, top) == top - Len(w.r.pending) - Len(w.j.rest)

Shaped(w) ==
  /\ w.r.mode = "streaming" => w.r.all = <<>> /\ w.r.posted = <<>> /\ w.j.part = 0
  /\ w.r.placed => w.j.rest = <<>> /\ w.j.part = 0
  /\ w.j.then = "over" => w.j.rest = <<>> /\ w.j.part = 0
  /\ \A n \in DOMAIN w.r.posted : /\ w.r.posted[n].at \in DOMAIN w.th
                                  /\ w.th[w.r.posted[n].at].kind = "post"

Counted(w, top) ==
  /\ top \in Nat /\ Left(w, top) \in Nat
  /\ \A i \in 1 .. Len(w.j.rest) : w.j.rest[i] = Left(w, top) + i
  /\ \A i \in 1 .. Len(w.r.pending) : w.r.pending[i] = Left(w, top) + Len(w.j.rest) + i

Under(w, top) ==
  /\ AllUnder(w.th, Left(w, top))
  /\ \A p \in DOMAIN w.r.all : w.r.all[p] <= Left(w, top)

(* Nothing can be written above the message at i any more but what was     *)
(* said up to n, and nothing under it but what was said after.             *)
Clear(w, i, n) ==
  \/ w.r.placed
  \/ w.j.then = "over"
  \/ /\ w.r.at = 0 \/ w.r.at > i
     /\ \A m \in DOMAIN w.r.posted : w.r.posted[m].at > i
     /\ \A p \in DOMAIN w.r.all : w.r.all[p] > 0 => w.r.all[p] > n

Below(w, top, tl) ==
  \A i \in Nat, k \in Tools : PlacedAt(w.th, i, k) /\ tl[k].at = "told" =>
    /\ tl[k].after \in Nat /\ tl[k].after <= Left(w, top)
    /\ Parted(w.th, i, tl[k].after)
    /\ Clear(w, i, tl[k].after)

Reads(h, w, top) ==
  h => /\ Ordered(w.th)
       /\ w.f.count = 0 => ~w.f.cut /\ Covers(w.th, Left(w, top))

Good(h, w, top, tl) ==
  /\ Fitting(h, w)
  /\ Shaped(w)
  /\ Counted(w, top)
  /\ Under(w, top)
  /\ Below(w, top, tl)
  /\ Reads(h, w, top)

(* Nothing is written, and what was being written is gone on with or left. *)
Moves(h, w, v) ==
  /\ Fitting(h, v) /\ Quiet(w.th, v.th)
  /\ v.f.count >= w.f.count /\ v.f.cut = w.f.cut
  /\ v.j.rest = w.j.rest /\ v.j.part = w.j.part
  /\ w.j.then = "over" => v.j.then = "over"
  /\ v.j.then = "over" => w.j.rest = <<>> /\ w.j.part = 0
  /\ v.r.mode = w.r.mode /\ v.r.pending = w.r.pending
  /\ \/ /\ v.r.all = w.r.all /\ v.r.posted = w.r.posted /\ v.r.placed = w.r.placed
        /\ MovesOn(w, v)
     \/ /\ v.r.all = <<>> /\ v.r.posted = <<>> /\ v.r.placed = FALSE
        /\ v.r.at = 0 \/ v.r.at > Len(w.th)

LEMMA ClearMoves ==
  ASSUME NEW h, NEW w, NEW v, Fitting(h, w), Moves(h, w, v), NEW i \in Nat, NEW n \in Nat, NEW k,
         PlacedAt(w.th, i, k), Clear(w, i, n)
  PROVE  Clear(v, i, n)
<1>1. w \in Worlds /\ v \in Worlds
  BY DEF Fitting, Moves
<1>2. w.th \in Thread /\ w.r \in Fields /\ v.r \in Fields
  BY <1>1, WorldParts
<1>3. i \in 1 .. Len(w.th) /\ Len(w.th) \in Nat /\ w.r.at \in Nat /\ v.r.at \in Nat
  <2>1. w.r.at \in Nat /\ v.r.at \in Nat
    BY <1>2 DEF Fields
  <2>2. DOMAIN w.th = 1 .. Len(w.th) /\ Len(w.th) \in Nat
    BY <1>2 DEF Thread
  <2> QED
    BY <2>1, <2>2 DEF PlacedAt
<1>4. CASE /\ v.r.all = w.r.all /\ v.r.posted = w.r.posted /\ v.r.placed = w.r.placed
           /\ MovesOn(w, v)
  <2>1. CASE w.r.placed
    BY <1>4, <2>1 DEF Clear
  <2>2. CASE w.j.then = "over"
    BY <2>2 DEF Clear, Moves
  <2>3. CASE ~w.r.placed /\ w.j.then # "over"
    <3>1. /\ w.r.at = 0 \/ w.r.at > i
          /\ \A m \in DOMAIN w.r.posted : w.r.posted[m].at > i
          /\ \A p \in DOMAIN w.r.all : w.r.all[p] > 0 => w.r.all[p] > n
      BY <2>3 DEF Clear
    <3>2. v.r.at = 0 \/ v.r.at > i
      BY <1>3, <1>4, <3>1 DEF MovesOn
    <3> QED
      BY <1>4, <3>1, <3>2 DEF Clear
  <2> QED
    BY <2>1, <2>2, <2>3
<1>5. CASE /\ v.r.all = <<>> /\ v.r.posted = <<>> /\ v.r.placed = FALSE
           /\ v.r.at = 0 \/ v.r.at > Len(w.th)
  <2>1. v.r.at = 0 \/ v.r.at > i
    BY <1>3, <1>5
  <2> QED
    BY <1>5, <2>1, Empties DEF Clear
<1> QED
  BY <1>4, <1>5 DEF Moves

LEMMA GoodMoves ==
  ASSUME NEW h, NEW w, NEW v, NEW top, NEW tl, Good(h, w, top, tl), Moves(h, w, v)
  PROVE  Good(h, v, top, tl)
<1>1. w \in Worlds /\ v \in Worlds
  BY DEF Good, Fitting, Moves
<1>2. w.th \in Thread /\ w.r \in Fields /\ v.r \in Fields /\ v.th \in Thread
      /\ w.f \in FaultsSet /\ v.f \in FaultsSet
  BY <1>1, WorldParts
<1>3. Quiet(w.th, v.th) /\ Still(w.th, v.th) /\ Left(v, top) = Left(w, top)
  BY QuietStill DEF Moves, Left
<1>4. Fitting(h, v)
  BY DEF Moves
<1>5. v.r.all = w.r.all \/ v.r.all = <<>>
  BY DEF Moves
<1>6. Shaped(v)
  <2>1. v.r.mode = "streaming" => v.r.all = <<>> /\ v.r.posted = <<>> /\ v.j.part = 0
    BY DEF Good, Shaped, Moves
  <2>2. v.r.placed => v.j.rest = <<>> /\ v.j.part = 0
    BY DEF Good, Shaped, Moves
  <2>3. v.j.then = "over" => v.j.rest = <<>> /\ v.j.part = 0
    BY DEF Moves
  <2>4. ASSUME NEW n \in DOMAIN v.r.posted
        PROVE  v.r.posted[n].at \in DOMAIN v.th /\ v.th[v.r.posted[n].at].kind = "post"
    <3>1. v.r.posted = w.r.posted
      BY <2>4, Empties DEF Moves
    <3>2. w.r.posted[n].at \in DOMAIN w.th /\ w.th[w.r.posted[n].at].kind = "post"
      BY <2>4, <3>1 DEF Good, Shaped
    <3> QED
      BY <1>3, <3>1, <3>2 DEF Quiet
  <2> QED
    BY <2>1, <2>2, <2>3, <2>4 DEF Shaped
<1>7. Counted(v, top)
  BY <1>3 DEF Good, Counted, Moves
<1>8. Under(v, top)
  <2>1. AllUnder(v.th, Left(v, top))
    BY <1>3, StillUnder DEF Good, Under
  <2>2. \A p \in DOMAIN v.r.all : v.r.all[p] <= Left(v, top)
    BY <1>3, <1>5, Empties DEF Good, Under
  <2> QED
    BY <2>1, <2>2 DEF Under
<1>9. Below(v, top, tl)
  <2> SUFFICES ASSUME NEW i \in Nat, NEW k \in Tools, PlacedAt(v.th, i, k), tl[k].at = "told"
               PROVE  /\ tl[k].after \in Nat /\ tl[k].after <= Left(v, top)
                      /\ Parted(v.th, i, tl[k].after)
                      /\ Clear(v, i, tl[k].after)
    BY DEF Below
  <2>1. PlacedAt(w.th, i, k)
    BY <1>3, QuietPlaced
  <2>2. /\ tl[k].after \in Nat /\ tl[k].after <= Left(w, top)
        /\ Parted(w.th, i, tl[k].after)
        /\ Clear(w, i, tl[k].after)
    BY <2>1 DEF Good, Below
  <2>3. Parted(v.th, i, tl[k].after)
    BY <1>3, <2>2, StillParted
  <2>4. Clear(v, i, tl[k].after)
    <3>1. Fitting(h, w)
      BY DEF Good
    <3> QED
      BY <2>1, <2>2, <3>1, ClearMoves
  <2> QED
    BY <1>3, <2>2, <2>3, <2>4
<1>10. Reads(h, v, top)
  <2> SUFFICES ASSUME h
               PROVE  /\ Ordered(v.th)
                      /\ v.f.count = 0 => ~v.f.cut /\ Covers(v.th, Left(v, top))
    BY DEF Reads
  <2>1. Ordered(v.th)
    BY <1>3, StillOrdered DEF Good, Reads
  <2>2. ASSUME v.f.count = 0 PROVE ~v.f.cut /\ Covers(v.th, Left(v, top))
    <3>1. w.f.count = 0 /\ v.f.cut = w.f.cut
      BY <1>2, <2>2 DEF Moves, FaultsSet
    <3> QED
      BY <1>3, <3>1, StillCovers DEF Good, Reads
  <2> QED
    BY <2>1, <2>2
<1> QED
  BY <1>4, <1>6, <1>7, <1>8, <1>9, <1>10 DEF Good

LEMMA MoreUnder ==
  ASSUME NEW th \in Thread, NEW m \in Int, NEW n \in Int, m <= n, AllUnder(th, m)
  PROVE  AllUnder(th, n)
<1> SUFFICES ASSUME NEW i \in DOMAIN th, NEW p \in SaidIn(th[i]) PROVE th[i].text[p] <= n
  BY DEF AllUnder
<1>1. th[i] \in Message /\ th[i].kind # "placed"
  BY DEF Thread, SaidIn
<1>2. th[i].text[p] \in Int
  BY <1>1 DEF Message, SaidIn
<1> QED
  BY <1>2 DEF AllUnder

LEMMA CountParts ==
  ASSUME NEW w \in Worlds, NEW top, Counted(w, top)
  PROVE  /\ top \in Nat /\ Left(w, top) \in Nat
         /\ Len(w.r.pending) \in Nat /\ Len(w.j.rest) \in Nat
         /\ w.r.pending \in Seq(Int) /\ w.j.rest \in Seq(Int)
         /\ Left(w, top) + Len(w.j.rest) + Len(w.r.pending) = top
         /\ w.j.rest = <<>> => Left(w, top) + Len(w.r.pending) = top
         /\ \A i \in 1 .. Len(w.j.rest) : w.j.rest[i] = Left(w, top) + i
         /\ \A i \in 1 .. Len(w.r.pending) : w.r.pending[i] = Left(w, top) + Len(w.j.rest) + i
         /\ w.j.rest = <<>> =>
              \A i \in 1 .. Len(w.r.pending) : w.r.pending[i] = Left(w, top) + i
<1>1. w.r \in Fields /\ w.j \in Jobs
  BY WorldParts
<1>2. w.r.pending \in Seq(Int) /\ w.j.rest \in Seq(Int)
  BY <1>1 DEF Fields, Jobs
<1> DEFINE a == Len(w.r.pending)
           b == Len(w.j.rest)
<1>3. a \in Nat /\ b \in Nat /\ (w.j.rest = <<>> => b = 0)
  BY <1>2
<1>4. top \in Nat /\ Left(w, top) \in Nat /\ Left(w, top) = (top - a) - b
  BY DEF Counted, Left
<1>5. \A i \in 1 .. b : w.j.rest[i] = Left(w, top) + i
  BY DEF Counted
<1>6. \A i \in 1 .. a : w.r.pending[i] = Left(w, top) + b + i
  BY DEF Counted
<1> HIDE DEF a, b
<1>7. Left(w, top) + b + a = top /\ (w.j.rest = <<>> => Left(w, top) + a = top)
  BY <1>3, <1>4
<1>8. w.j.rest = <<>> => \A i \in 1 .. a : w.r.pending[i] = Left(w, top) + i
  BY <1>3, <1>4, <1>6
<1> QED
  BY <1>2, <1>3, <1>4, <1>5, <1>6, <1>7, <1>8 DEF a, b

(* The first `cut` of the words that wait, and the others. *)
LEMMA CountSplits ==
  ASSUME NEW w \in Worlds, NEW top, Counted(w, top), w.j.rest = <<>>,
         NEW cut \in 1 .. Len(w.r.pending), NEW v,
         v.r.pending = SubSeq(w.r.pending, cut + 1, Len(w.r.pending))
  PROVE  LET text == SubSeq(w.r.pending, 1, cut)
         IN  /\ top \in Nat /\ Left(w, top) \in Nat /\ cut \in Nat
             /\ text \in Seq(Int) /\ Len(text) = cut
             /\ \A i \in 1 .. cut : text[i] = Left(w, top) + i
             /\ v.j.rest = text => Left(v, top) = Left(w, top) /\ Counted(v, top)
             /\ v.j.rest = <<>> => Left(v, top) = Left(w, top) + cut /\ Counted(v, top)
<1> DEFINE text == SubSeq(w.r.pending, 1, cut)
           p == w.r.pending
           q == v.r.pending
           l == Left(w, top)
           n == Len(p)
<1>1. p \in Seq(Int) /\ n \in Nat /\ top \in Nat /\ l \in Nat /\ l + n = top
  BY CountParts
<1>2. \A i \in 1 .. n : p[i] = l + i
  BY CountParts
<1>3. cut \in Nat /\ cut <= n /\ cut \in 1 .. n
  BY <1>1
<1>4. /\ text \in Seq(Int) /\ Len(text) = cut
      /\ \A i \in 1 .. cut : text[i] = p[i]
      /\ Len(q) = n - cut
      /\ \A i \in 1 .. n - cut : q[i] = p[cut + i]
  BY <1>1, <1>3, CutText
<1>5. Left(v, top) = (top - Len(q)) - Len(v.j.rest)
  BY DEF Left
<1>6. Counted(v, top) <=>
        /\ top \in Nat /\ Left(v, top) \in Nat
        /\ \A i \in 1 .. Len(v.j.rest) : v.j.rest[i] = Left(v, top) + i
        /\ \A i \in 1 .. Len(q) : q[i] = Left(v, top) + Len(v.j.rest) + i
  BY DEF Counted
<1> HIDE DEF text, p, q, l, n
<1>7. \A i \in 1 .. cut : text[i] = l + i
  BY <1>1, <1>2, <1>3, <1>4
<1>8. \A i \in 1 .. n - cut : q[i] = l + cut + i
  <2> TAKE i \in 1 .. n - cut
  <2>1. cut + i \in 1 .. n
    BY <1>1, <1>3
  <2>2. p[cut + i] = l + (cut + i)
    BY <1>2, <2>1
  <2> QED
    BY <1>1, <1>3, <1>4, <2>2
<1>9. v.j.rest = text => Left(v, top) = l /\ Counted(v, top)
  <2> SUFFICES ASSUME v.j.rest = text PROVE Left(v, top) = l /\ Counted(v, top)
    OBVIOUS
  <2>1. Len(v.j.rest) = cut
    BY <1>4
  <2>2. Left(v, top) = l
    BY <1>1, <1>3, <1>4, <1>5, <2>1
  <2> QED
    BY <1>1, <1>4, <1>6, <1>7, <1>8, <2>1, <2>2
<1>10. v.j.rest = <<>> => Left(v, top) = l + cut /\ Counted(v, top)
  <2> SUFFICES ASSUME v.j.rest = <<>> PROVE Left(v, top) = l + cut /\ Counted(v, top)
    OBVIOUS
  <2>1. Len(v.j.rest) = 0
    BY Empties
  <2>2. Left(v, top) = l + cut
    BY <1>1, <1>3, <1>4, <1>5, <2>1
  <2>3. \A i \in 1 .. n - cut : q[i] = (l + cut) + 0 + i
    BY <1>1, <1>3, <1>8
  <2> QED
    BY <1>1, <1>3, <1>4, <1>6, <2>1, <2>2, <2>3
<1> QED
  BY <1>1, <1>3, <1>4, <1>7, <1>9, <1>10 DEF text, l

(* The first words that wait are to be written. *)
LEMMA GoodSplits ==
  ASSUME NEW h, NEW w, NEW v, NEW top, NEW tl, Good(h, w, top, tl), v \in Worlds,
         NEW cut \in 1 .. Len(w.r.pending),
         ~w.r.placed, w.j.rest = <<>>, w.j.part = 0, w.j.then # "over", w.r.mode = "streaming",
         v.th = w.th, v.f = w.f, v.j.then = w.j.then, v.j.part = 0,
         v.r.mode = w.r.mode, v.r.at = w.r.at, v.r.spent = w.r.spent, ~v.r.placed,
         v.r.all = w.r.all, v.r.posted = w.r.posted,
         v.j.rest = SubSeq(w.r.pending, 1, cut),
         v.r.pending = SubSeq(w.r.pending, cut + 1, Len(w.r.pending))
  PROVE  Good(h, v, top, tl)
<1>1. w \in Worlds
  BY DEF Good, Fitting
<1>2. Counted(w, top)
  BY DEF Good
<1>3. Left(v, top) = Left(w, top) /\ Counted(v, top)
  BY <1>1, <1>2, CountSplits
<1>7. Fitting(h, v)
  BY DEF Good, Fitting
<1>8. Shaped(v)
  BY DEF Good, Shaped
<1>10. Under(v, top)
  BY <1>3 DEF Good, Under
<1>11. Below(v, top, tl)
  <2>1. \A i, n : Clear(w, i, n) => Clear(v, i, n)
    BY DEF Clear
  <2> QED
    BY <1>3, <2>1 DEF Good, Below
<1>12. Reads(h, v, top)
  BY <1>3 DEF Good, Reads
<1> QED
  BY <1>3, <1>7, <1>8, <1>10, <1>11, <1>12 DEF Good

(* The first words that wait are joined to the text of a whole message. *)
LEMMA GoodJoins ==
  ASSUME NEW h, NEW w, NEW v, NEW top, NEW tl, Good(h, w, top, tl), Fitting(h, v), ~h,
         NEW cut \in 1 .. Len(w.r.pending), NEW broken \in BOOLEAN,
         NEW base \in Seq(Int),
         w.j.rest = <<>>, w.j.then # "over", w.r.mode # "streaming",
         v.th = w.th, v.j.then = w.j.then, v.j.rest = <<>>,
         v.r.mode = w.r.mode, v.r.at = w.r.at, ~v.r.placed,
         \/ base = w.r.all /\ v.r.posted = w.r.posted /\ ~w.r.placed
         \/ base = <<>> /\ v.r.posted = <<>>,
         v.r.all = Joining(base, broken, SubSeq(w.r.pending, 1, cut)),
         v.r.pending = SubSeq(w.r.pending, cut + 1, Len(w.r.pending))
  PROVE  Good(h, v, top, tl)
<1>1. w \in Worlds
  BY DEF Good, Fitting
<1>2. w.r \in Fields /\ w.th \in Thread /\ w.r.all \in Seq(Int)
  BY <1>1, WorldParts DEF Fields
<1> DEFINE text == SubSeq(w.r.pending, 1, cut)
<1>3. Counted(w, top)
  BY DEF Good
<1>4. /\ top \in Nat /\ Left(w, top) \in Nat /\ cut \in Nat
      /\ text \in Seq(Int) /\ Len(text) = cut
      /\ \A m \in 1 .. cut : text[m] = Left(w, top) + m
      /\ Left(v, top) = Left(w, top) + cut /\ Counted(v, top)
  BY <1>1, <1>3, CountSplits
<1>5. Left(w, top) \in Nat /\ Left(v, top) \in Nat /\ Left(w, top) <= Left(v, top)
  BY <1>4
<1> DEFINE all == v.r.all
<1>7. /\ all \in Seq(Int)
      /\ \A q \in DOMAIN all : all[q] > 0 =>
           (\E r \in DOMAIN base : base[r] = all[q]) \/ (\E r \in DOMAIN text : text[r] = all[q])
  <2>1. text \in Seq(Int)
    BY <1>4
  <2>2. all = Joining(base, broken, text)
    OBVIOUS
  <2> HIDE DEF text, all
  <2> DEFINE J == Joining(base, broken, text)
  <2>3. /\ J \in Seq(Int)
        /\ \A q \in DOMAIN J : J[q] > 0 =>
             (\E r \in DOMAIN base : base[r] = J[q]) \/ (\E r \in DOMAIN text : text[r] = J[q])
    BY <2>1, JoinedUnits
  <2> HIDE DEF J
  <2>4. all = J
    BY <2>2 DEF J
  <2> QED
    BY <2>3, <2>4
<1>8. \A r \in DOMAIN text : text[r] > Left(w, top) /\ text[r] <= Left(v, top)
  <2> TAKE r \in DOMAIN text
  <2>1. r \in 1 .. cut
    BY <1>4
  <2>2. text[r] = Left(w, top) + r
    BY <1>4, <2>1
  <2> HIDE DEF text
  <2> QED
    BY <1>4, <2>1, <2>2
<1> HIDE DEF text, all
<1>9. base = w.r.all \/ DOMAIN base = {}
  BY Empties
<1>10. Shaped(v)
  <2>1. \A n \in DOMAIN v.r.posted : /\ v.r.posted[n].at \in DOMAIN w.th
                                     /\ w.th[v.r.posted[n].at].kind = "post"
    BY Empties DEF Good, Shaped
  <2> QED
    BY <2>1 DEF Shaped
<1>12. Under(v, top)
  <2>1. AllUnder(v.th, Left(v, top))
    <3>1. AllUnder(w.th, Left(w, top)) /\ Left(w, top) <= Left(v, top)
      BY <1>5 DEF Good, Under
    <3>2. AllUnder(w.th, Left(v, top))
      <4>1. w.th \in Thread /\ Left(w, top) \in Int /\ Left(v, top) \in Int
        BY <1>2, <1>5
      <4> QED
        BY <3>1, <4>1, MoreUnder
    <3> QED
      BY <3>2
  <2>2. ASSUME NEW q \in DOMAIN all PROVE all[q] <= Left(v, top)
    <3>1. all[q] \in Int
      BY <1>7, <2>2
    <3>2. CASE \E r \in DOMAIN base : base[r] = all[q]
      <4>1. base = w.r.all
        BY <1>9, <3>2
      <4>2. all[q] <= Left(w, top)
        BY <3>2, <4>1 DEF Good, Under
      <4> QED
        BY <1>5, <3>1, <4>2
    <3>3. CASE \E r \in DOMAIN text : text[r] = all[q]
      BY <1>8, <3>3
    <3>4. CASE ~(all[q] > 0)
      BY <1>5, <3>1, <3>4
    <3> QED
      BY <1>7, <2>2, <3>2, <3>3, <3>4
  <2> QED
    BY <2>1, <2>2 DEF Under, all
<1>13. Below(v, top, tl)
  <2> SUFFICES ASSUME NEW i \in Nat, NEW k \in Tools, PlacedAt(v.th, i, k), tl[k].at = "told"
               PROVE  /\ tl[k].after \in Nat /\ tl[k].after <= Left(v, top)
                      /\ Parted(v.th, i, tl[k].after)
                      /\ Clear(v, i, tl[k].after)
    BY DEF Below
  <2> DEFINE n == tl[k].after
  <2>1. n \in Nat /\ n <= Left(w, top) /\ Parted(w.th, i, n) /\ Clear(w, i, n)
    BY DEF Good, Below
  <2> HIDE DEF n
  <2>2. n <= Left(v, top)
    BY <1>5, <2>1
  <2>3. Clear(v, i, n)
    <3>1. v.r.at = 0
      BY DEF Fitting
    <3>2. \A m \in DOMAIN v.r.posted : v.r.posted[m].at > i
      <4>1. CASE v.r.posted = w.r.posted /\ ~w.r.placed
        BY <2>1, <4>1 DEF Clear
      <4>2. CASE v.r.posted = <<>>
        BY <4>2, Empties
      <4> QED
        BY <4>1, <4>2
    <3>3. ASSUME NEW q \in DOMAIN all, all[q] > 0 PROVE all[q] > n
      <4>1. all[q] \in Int
        BY <1>7, <3>3
      <4>2. CASE \E r \in DOMAIN base : base[r] = all[q]
        <5>1. base = w.r.all /\ ~w.r.placed
          BY <4>2, Empties
        <5>2. \A r \in DOMAIN w.r.all : w.r.all[r] > 0 => w.r.all[r] > n
          BY <2>1, <5>1 DEF Clear
        <5> QED
          BY <3>3, <4>2, <5>1, <5>2
      <4>3. CASE \E r \in DOMAIN text : text[r] = all[q]
        <5>1. all[q] > Left(w, top)
          BY <1>8, <4>3
        <5> QED
          BY <1>5, <2>1, <4>1, <5>1
      <4> QED
        BY <1>7, <3>3, <4>2, <4>3
    <3> QED
      BY <3>1, <3>2, <3>3 DEF Clear, all
  <2> QED
    BY <2>1, <2>2, <2>3 DEF n
<1>14. Reads(h, v, top)
  BY DEF Reads
<1> QED
  BY <1>4, <1>10, <1>12, <1>13, <1>14 DEF Good

Waiting(w, pending) == WithR(w, [w.r EXCEPT !.pending = pending])
Restless(w) == WithJ(w, [w.j EXCEPT !.rest = <<>>])

LEMMA WaitingFacts ==
  ASSUME NEW w \in Worlds, NEW pending \in Seq(Int)
  PROVE  LET v == Waiting(w, pending)
         IN  /\ v \in Worlds /\ v.th = w.th /\ v.j = w.j /\ v.f = w.f /\ v.r.pending = pending
             /\ v.r.mode = w.r.mode /\ v.r.at = w.r.at /\ v.r.spent = w.r.spent
             /\ v.r.placed = w.r.placed /\ v.r.all = w.r.all /\ v.r.posted = w.r.posted
<1> DEFINE g == [w.r EXCEPT !.pending = pending]
<1>1. w.r \in Fields
  BY WorldParts
<1>2. /\ g \in Fields /\ g.pending = pending /\ g.mode = w.r.mode /\ g.at = w.r.at
      /\ g.spent = w.r.spent /\ g.placed = w.r.placed /\ g.all = w.r.all /\ g.posted = w.r.posted
  BY <1>1 DEF Fields
<1> HIDE DEF g
<1>3. /\ WithR(w, g) \in Worlds /\ WithR(w, g).th = w.th /\ WithR(w, g).r = g
      /\ WithR(w, g).j = w.j /\ WithR(w, g).f = w.f
  BY <1>2, WithRFacts
<1>4. Waiting(w, pending) = WithR(w, g)
  BY DEF Waiting, g
<1> QED
  BY <1>2, <1>3, <1>4

LEMMA RestlessFacts ==
  ASSUME NEW w \in Worlds
  PROVE  LET v == Restless(w)
         IN  /\ v \in Worlds /\ v.th = w.th /\ v.r = w.r /\ v.f = w.f
             /\ v.j.rest = <<>> /\ v.j.part = w.j.part /\ v.j.then = w.j.then
<1> DEFINE g == [w.j EXCEPT !.rest = <<>>]
<1>1. w.j \in Jobs
  BY WorldParts
<1>2. g \in Jobs /\ g.rest = <<>> /\ g.part = w.j.part /\ g.then = w.j.then
  BY <1>1, Empties DEF Jobs
<1> HIDE DEF g
<1>3. /\ WithJ(w, g) \in Worlds /\ WithJ(w, g).th = w.th /\ WithJ(w, g).j = g
      /\ WithJ(w, g).r = w.r /\ WithJ(w, g).f = w.f
  BY <1>2, WithJFacts
<1>4. Restless(w) = WithJ(w, g)
  BY DEF Restless, g
<1> QED
  BY <1>2, <1>3, <1>4

LEMMA GoodEmit ==
  ASSUME NEW w, NEW top, NEW tl, Good(hosts, w, top, tl),
         w.j.rest = <<>>, w.j.part = 0, w.j.then # "over",
         NEW cut \in 0 .. Len(w.r.pending), NEW v \in Emit(w, cut)
  PROVE  Good(hosts, v, top, tl) /\ (cut = 0 => v = w) /\ v.j.then = w.j.then
         /\ v.r.pending = SubSeq(w.r.pending, cut + 1, Len(w.r.pending))
<1>1. w \in Worlds /\ Fitting(hosts, w)
  BY DEF Good, Fitting
<1>2. w.r \in Fields /\ w.r.pending \in Seq(Int) /\ w.th \in Thread /\ w.r.mode \in {"streaming", "buffered"}
      /\ w.r.broken \in BOOLEAN /\ w.r.all \in Seq(Int) /\ w.r.placed \in BOOLEAN
  BY <1>1, WorldParts DEF Fields
<1>3. CASE cut = 0
  <2>1. v = w
    BY <1>3 DEF Emit
  <2>2. w.r.pending = SubSeq(w.r.pending, 1, Len(w.r.pending))
    BY <1>2
  <2> QED
    BY <1>3, <2>1, <2>2
<1>4. CASE cut # 0
  <2> DEFINE text == SubSeq(w.r.pending, 1, cut)
  <2>0. cut \in 1 .. Len(w.r.pending)
    BY <1>2, <1>4
  <2>1. /\ Fitting(hosts, v) /\ Worse(w.f, v.f) /\ Quiet(w.th, v.th)
        /\ v.r.placed = FALSE
        /\ v.r.mode = w.r.mode
        /\ v.r.pending = SubSeq(w.r.pending, cut + 1, Len(w.r.pending))
        /\ v.j.then = w.j.then
        /\ ~w.r.placed => /\ v.th = w.th /\ v.f = w.f /\ v.r.at = w.r.at /\ v.r.spent = w.r.spent
        /\ w.r.placed /\ w.r.mode = "streaming" => v.r.at = 0 \/ v.r.at > Len(w.th)
        /\ w.r.mode = "streaming" =>
             /\ v.j.rest = text /\ v.j.part = w.j.part
             /\ v.r.all = w.r.all /\ v.r.posted = w.r.posted
        /\ w.r.mode # "streaming" =>
             /\ v.j.rest = w.j.rest /\ v.j.part = 1 /\ v.th = w.th /\ v.f = w.f
             /\ v.r.at = w.r.at /\ v.r.broken = FALSE
             /\ IF w.r.placed THEN v.r.all = Joining(<<>>, FALSE, text) /\ v.r.posted = <<>>
                ELSE v.r.all = Joining(w.r.all, w.r.broken, text) /\ v.r.posted = w.r.posted
    BY <1>1, <2>0, EmitFacts
  <2>2. v \in Worlds
    BY <2>1 DEF Fitting
  <2>3. CASE w.r.mode = "streaming"
    <3> DEFINE u0 == Waiting(v, w.r.pending)
               u  == Restless(u0)
    <3>1. /\ u0 \in Worlds /\ u0.th = v.th /\ u0.j = v.j /\ u0.f = v.f /\ u0.r.pending = w.r.pending
          /\ u0.r.mode = v.r.mode /\ u0.r.at = v.r.at /\ u0.r.spent = v.r.spent
          /\ u0.r.placed = v.r.placed /\ u0.r.all = v.r.all /\ u0.r.posted = v.r.posted
      BY <1>2, <2>2, WaitingFacts
    <3> HIDE DEF u0
    <3>2. /\ u \in Worlds /\ u.th = u0.th /\ u.r = u0.r /\ u.f = u0.f
          /\ u.j.rest = <<>> /\ u.j.part = u0.j.part /\ u.j.then = u0.j.then
      BY <3>1, RestlessFacts
    <3> HIDE DEF u
    <3>3. Fitting(hosts, u)
      BY <2>1, <3>1, <3>2 DEF Fitting
    <3>4. w.r.all = <<>> /\ w.r.posted = <<>>
      BY <2>3 DEF Good, Shaped
    <3>5. \/ /\ u.r.all = w.r.all /\ u.r.posted = w.r.posted /\ u.r.placed = w.r.placed
             /\ MovesOn(w, u)
          \/ /\ u.r.all = <<>> /\ u.r.posted = <<>> /\ u.r.placed = FALSE
             /\ u.r.at = 0 \/ u.r.at > Len(w.th)
      <4>1. CASE w.r.placed
        BY <2>1, <2>3, <3>1, <3>2, <3>4, <4>1
      <4>2. CASE ~w.r.placed
        BY <1>2, <2>1, <2>3, <3>1, <3>2, <4>2 DEF MovesOn
      <4> QED
        BY <4>1, <4>2
    <3>6. Moves(hosts, w, u)
      BY <2>1, <2>3, <3>1, <3>2, <3>3, <3>5 DEF Moves, Worse
    <3>7. Good(hosts, u, top, tl)
      BY <3>6, GoodMoves
    <3>8. /\ cut \in 1 .. Len(u.r.pending)
          /\ ~u.r.placed /\ u.j.rest = <<>> /\ u.j.part = 0 /\ u.j.then # "over" /\ u.r.mode = "streaming"
          /\ v.th = u.th /\ v.f = u.f /\ v.j.then = u.j.then /\ v.j.part = 0
          /\ v.r.mode = u.r.mode /\ v.r.at = u.r.at /\ v.r.spent = u.r.spent /\ ~v.r.placed
          /\ v.r.all = u.r.all /\ v.r.posted = u.r.posted
          /\ v.j.rest = SubSeq(u.r.pending, 1, cut)
          /\ v.r.pending = SubSeq(u.r.pending, cut + 1, Len(u.r.pending))
      BY <2>0, <2>1, <2>3, <3>1, <3>2
    <3>9. Good(hosts, v, top, tl)
      BY <2>2, <3>7, <3>8, GoodSplits
    <3> QED
      BY <1>4, <2>1, <3>9
  <2>4. CASE w.r.mode # "streaming"
    <3>1. ~hosts
      BY <1>1, <2>4 DEF Fitting
    <3>2. CASE w.r.placed
      <4>1. /\ v.th = w.th /\ v.j.rest = <<>> /\ v.r.at = w.r.at /\ ~v.r.placed
            /\ v.r.posted = <<>> /\ v.r.all = Joining(<<>>, FALSE, text)
        BY <2>1, <2>4, <3>2
      <4>2. <<>> \in Seq(Int) /\ FALSE \in BOOLEAN
        OBVIOUS
      <4>3. Good(hosts, v, top, tl)
        BY <2>0, <2>1, <2>4, <3>1, <4>1, <4>2, GoodJoins
      <4> QED
        BY <1>4, <2>1, <4>3
    <3>3. CASE ~w.r.placed
      <4>1. /\ v.th = w.th /\ v.j.rest = <<>> /\ v.r.at = w.r.at /\ ~v.r.placed
            /\ v.r.posted = w.r.posted /\ v.r.all = Joining(w.r.all, w.r.broken, text)
        BY <2>1, <2>4, <3>3
      <4>3. Good(hosts, v, top, tl)
        BY <1>2, <2>0, <2>1, <2>4, <3>1, <3>3, <4>1, GoodJoins
      <4> QED
        BY <1>4, <2>1, <4>3
    <3> QED
      BY <3>2, <3>3
  <2> QED
    BY <2>3, <2>4
<1> QED
  BY <1>3, <1>4

FenceSet == [fenced : BOOLEAN, partial : Partials]

LEMMA ConsumeTyped ==
  ASSUME NEW fence \in FenceSet, NEW u
  PROVE  Consume(fence, u) \in FenceSet
<1>1. CASE KindOf(u) = "nl"
  <2>0. Consume(fence, u) = [fenced |-> (fence.partial = "mark") # fence.fenced, partial |-> "empty"]
    BY <1>1 DEF Consume
  <2> DEFINE b == (fence.partial = "mark") # fence.fenced
  <2>1. b \in BOOLEAN
    OBVIOUS
  <2>2. Consume(fence, u) = [fenced |-> b, partial |-> "empty"]
    BY <2>0
  <2> HIDE DEF b
  <2> QED
    BY <2>1, <2>2 DEF FenceSet, Partials
<1>2. CASE KindOf(u) # "nl" /\ fence.partial = "empty"
  <2>1. Consume(fence, u) = [fence EXCEPT !.partial = IF KindOf(u) = "mark" THEN "mark" ELSE "plain"]
    BY <1>2 DEF Consume
  <2> QED
    BY <2>1 DEF FenceSet, Partials
<1>3. CASE KindOf(u) # "nl" /\ fence.partial # "empty"
  <2>1. Consume(fence, u) = fence
    BY <1>3 DEF Consume
  <2> QED
    BY <2>1
<1> QED
  BY <1>1, <1>2, <1>3

(* How the fence is read, unit by unit *)
Run(a, fence, text) ==
  a = [n \in 0 .. Len(text) |-> IF n = 0 THEN fence ELSE Consume(a[n - 1], text[n])]

LEMMA RunExists ==
  ASSUME NEW fence, NEW text \in Seq(Int)
  PROVE  \E a : Run(a, fence, text)
<1> DEFINE Up(a, n) == a = [k \in 0 .. n |-> IF k = 0 THEN fence ELSE Consume(a[k - 1], text[k])]
           Holds == {n \in Nat : n <= Len(text) => \E a : Up(a, n)}
<1>1. 0 \in Holds
  <2> DEFINE a == [k \in 0 .. 0 |-> fence]
  <2>1. Up(a, 0)
    OBVIOUS
  <2> HIDE DEF a, Up
  <2> QED
    BY <2>1
<1>2. ASSUME NEW n \in Nat, n \in Holds PROVE n + 1 \in Holds
  <2> SUFFICES ASSUME n + 1 <= Len(text) PROVE \E b : Up(b, n + 1)
    OBVIOUS
  <2>1. PICK a : Up(a, n)
    <3> HIDE DEF Up
    <3> QED
      BY <1>2
  <2>2. a = [k \in 0 .. n |-> IF k = 0 THEN fence ELSE Consume(a[k - 1], text[k])]
    BY <2>1
  <2> DEFINE b == [k \in 0 .. n + 1 |-> IF k <= n THEN a[k] ELSE Consume(a[n], text[n + 1])]
             c == [k \in 0 .. n + 1 |-> IF k = 0 THEN fence ELSE Consume(b[k - 1], text[k])]
  <2>3. ASSUME NEW k \in 0 .. n + 1
        PROVE  b[k] = IF k = 0 THEN fence ELSE Consume(b[k - 1], text[k])
    <3>1. CASE k = 0
      BY <2>2, <3>1
    <3>2. CASE k # 0 /\ k <= n
      <4>1. k \in 0 .. n /\ k - 1 \in 0 .. n /\ k - 1 <= n /\ k - 1 \in 0 .. n + 1
        BY <3>2
      <4>2. b[k] = a[k] /\ b[k - 1] = a[k - 1]
        BY <3>2, <4>1
      <4>3. a[k] = Consume(a[k - 1], text[k])
        BY <2>2, <3>2, <4>1
      <4> QED
        BY <3>2, <4>2, <4>3
    <3>3. CASE k = n + 1
      <4>1. b[k] = Consume(a[n], text[k]) /\ b[k - 1] = a[n] /\ k # 0
        BY <3>3
      <4> QED
        BY <4>1
    <3> QED
      BY <3>1, <3>2, <3>3
  <2>4. b = c
    <3>1. \A k \in 0 .. n + 1 : b[k] = c[k]
      BY <2>3
    <3>2. DOMAIN b = 0 .. n + 1 /\ DOMAIN c = 0 .. n + 1 /\ b = [k \in 0 .. n + 1 |-> b[k]] /\ c = [k \in 0 .. n + 1 |-> c[k]]
      OBVIOUS
    <3> HIDE DEF b, c
    <3> QED
      BY <3>1, <3>2
  <2>5. Up(b, n + 1)
    BY <2>4
  <2> HIDE DEF b, Up
  <2> QED
    BY <2>5
<1>3. Holds \in SUBSET Nat
  OBVIOUS
<1> HIDE DEF Holds
<1>4. Holds = Nat
  BY <1>1, <1>2, <1>3, Induct
<1>5. Len(text) \in Holds /\ Len(text) \in Nat
  BY <1>4
<1>6. PICK a : Up(a, Len(text))
  BY <1>5 DEF Holds
<1> QED
  BY <1>6 DEF Run

LEMMA ConsumedRun ==
  ASSUME NEW fence, NEW text \in Seq(Int)
  PROVE  \E a : Run(a, fence, text) /\ Consumed(fence, text) = a[Len(text)]
<1> DEFINE a == CHOOSE x : Run(x, fence, text)
<1>1. Run(a, fence, text)
  BY RunExists
<1>2. Consumed(fence, text) = a[Len(text)]
  BY DEF Consumed, Run
<1> QED
  BY <1>1, <1>2

LEMMA ConsumedTyped ==
  ASSUME NEW fence \in FenceSet, NEW text \in Seq(Int)
  PROVE  Consumed(fence, text) \in FenceSet
<1>1. PICK a : Run(a, fence, text) /\ Consumed(fence, text) = a[Len(text)]
  BY ConsumedRun
<1>2. a = [n \in 0 .. Len(text) |-> IF n = 0 THEN fence ELSE Consume(a[n - 1], text[n])]
  BY <1>1 DEF Run
<1> DEFINE Holds == {n \in Nat : n <= Len(text) => a[n] \in FenceSet}
<1>3. 0 \in Holds
  BY <1>2
<1>4. ASSUME NEW n \in Nat, n \in Holds PROVE n + 1 \in Holds
  <2> SUFFICES ASSUME n + 1 <= Len(text) PROVE a[n + 1] \in FenceSet
    OBVIOUS
  <2>1. a[n] \in FenceSet
    BY <1>4
  <2>2. n + 1 \in 0 .. Len(text) /\ n + 1 # 0 /\ (n + 1) - 1 = n
    OBVIOUS
  <2>3. a[n + 1] = Consume(a[n], text[n + 1])
    BY <1>2, <2>2
  <2> QED
    BY <2>1, <2>3, ConsumeTyped
<1>5. Holds \in SUBSET Nat
  OBVIOUS
<1> HIDE DEF Holds
<1>6. Holds = Nat
  BY <1>3, <1>4, <1>5, Induct
<1>7. Len(text) \in Holds /\ Len(text) \in Nat
  BY <1>6
<1> QED
  BY <1>1, <1>7 DEF Holds

LEMMA CountChops ==
  ASSUME NEW w \in Worlds, NEW top, Counted(w, top), NEW d \in 0 .. Len(w.j.rest), NEW v,
         v.r.pending = w.r.pending,
         v.j.rest = SubSeq(w.j.rest, d + 1, Len(w.j.rest))
  PROVE  /\ Left(w, top) \in Nat /\ d \in Nat
         /\ Left(v, top) = Left(w, top) + d /\ Left(v, top) \in Nat /\ Counted(v, top)
<1> DEFINE p == w.j.rest
           q == v.j.rest
           l == Left(w, top)
           n == Len(p)
           m == Len(w.r.pending)
<1>1. p \in Seq(Int) /\ n \in Nat /\ m \in Nat /\ top \in Nat /\ l \in Nat /\ l + n + m = top
  BY CountParts
<1>2. \A i \in 1 .. n : p[i] = l + i
  BY CountParts
<1>3. d \in Nat /\ d <= n
  BY <1>1
<1>4. Len(q) = n - d /\ \A i \in 1 .. n - d : q[i] = p[d + i]
  <2>1. /\ SubSeq(p, 1, d) \in Seq(Int) /\ Len(SubSeq(p, 1, d)) = d
        /\ \A i \in 1 .. d : SubSeq(p, 1, d)[i] = p[i]
        /\ SubSeq(p, d + 1, Len(p)) \in Seq(Int)
        /\ Len(SubSeq(p, d + 1, Len(p))) = Len(p) - d
        /\ \A i \in 1 .. Len(p) - d : SubSeq(p, d + 1, Len(p))[i] = p[d + i]
        /\ d = Len(p) => SubSeq(p, d + 1, Len(p)) = <<>>
    <3>1. p \in Seq(Int) /\ d <= Len(p)
      BY <1>1, <1>3
    <3> HIDE DEF p
    <3> QED
      BY <1>3, <3>1, CutText
  <2>2. q = SubSeq(p, d + 1, Len(p))
    OBVIOUS
  <2> HIDE DEF p, q
  <2> QED
    BY <2>1, <2>2 DEF n
<1>5. Left(v, top) = (top - m) - Len(q)
  BY DEF Left
<1>6. Counted(v, top) <=>
        /\ top \in Nat /\ Left(v, top) \in Nat
        /\ \A i \in 1 .. Len(q) : q[i] = Left(v, top) + i
        /\ \A i \in 1 .. m : w.r.pending[i] = Left(v, top) + Len(q) + i
  BY DEF Counted
<1>7. \A i \in 1 .. m : w.r.pending[i] = l + n + i
  BY CountParts
<1> HIDE DEF p, q, l, n, m
<1>8. \A i \in 1 .. n - d : q[i] = l + d + i
  <2> TAKE i \in 1 .. n - d
  <2>1. d + i \in 1 .. n
    BY <1>1, <1>3
  <2>2. p[d + i] = l + (d + i)
    BY <1>2, <2>1
  <2> QED
    BY <1>1, <1>3, <1>4, <2>2
<1>9. Left(v, top) = l + d /\ l + d \in Nat
  BY <1>1, <1>3, <1>4, <1>5
<1>10. \A i \in 1 .. m : w.r.pending[i] = (l + d) + (n - d) + i
  BY <1>1, <1>3, <1>7
<1>11. Counted(v, top)
  BY <1>1, <1>4, <1>6, <1>8, <1>9, <1>10
<1> QED
  BY <1>1, <1>3, <1>9, <1>11 DEF l

LEMMA QuietGrows ==
  ASSUME NEW th \in Thread, NEW th2, Quiet(th, th2), NEW n \in Nat, AllUnder(th, n), NEW x
  PROVE  Grows(th, th2, n, n, x)
<1>1. Still(th, th2)
  BY QuietStill
<1>2. AllUnder(th2, n)
  BY <1>1, StillUnder
<1>3. Ordered(th) => Ordered(th2)
  BY <1>1, StillOrdered
<1>4. \A i, a \in Nat : Parted(th, i, a) => Parted(th2, i, a)
  BY <1>1, StillParted
<1>5. \A i, k : PlacedAt(th2, i, k) <=> PlacedAt(th, i, k)
  BY QuietPlaced
<1> QED
  BY <1>2, <1>3, <1>4, <1>5 DEF Grows

LEMMA GrowsMore ==
  ASSUME NEW th, NEW th2 \in Thread, NEW n \in Nat, NEW m \in Nat, NEW m2 \in Nat, m <= m2,
         NEW x, Grows(th, th2, n, m, x)
  PROVE  Grows(th, th2, n, m2, x)
<1>1. AllUnder(th2, m2)
  <2>1. m \in Int /\ m2 \in Int /\ AllUnder(th2, m)
    BY DEF Grows
  <2> QED
    BY <2>1, MoreUnder
<1> QED
  BY <1>1 DEF Grows

(* A stream takes a piece of what is left, or what is left is given up. *)
LEMMA GoodGrows ==
  ASSUME NEW h, NEW w, NEW v, NEW top, NEW tl, Good(h, w, top, tl), Fitting(h, v), h,
         NEW d \in 0 .. Len(w.j.rest), NEW x \in Nat,
         v.j.rest = SubSeq(w.j.rest, d + 1, Len(w.j.rest)), v.j.part = w.j.part,
         v.j.then = w.j.then, w.j.then # "over",
         v.r.pending = w.r.pending, v.r.mode = w.r.mode, v.r.all = w.r.all, v.r.posted = w.r.posted,
         ~w.r.placed, ~v.r.placed,
         x = w.r.at \/ x > Len(w.th), x # 0,
         v.r.at = 0 \/ v.r.at = x \/ MovesOn(w, v),
         Grows(w.th, v.th, Left(w, top), Left(w, top) + d, x),
         v.f.count = 0 => ~v.f.cut /\ Covers(v.th, Left(w, top) + d)
  PROVE  Good(h, v, top, tl)
<1>1. w \in Worlds /\ v \in Worlds /\ Counted(w, top)
  BY DEF Good, Fitting
<1>2. w.th \in Thread /\ w.r \in Fields /\ v.r \in Fields
  BY <1>1, WorldParts
<1>3. /\ Left(w, top) \in Nat /\ d \in Nat
      /\ Left(v, top) = Left(w, top) + d /\ Left(v, top) \in Nat /\ Counted(v, top)
  BY <1>1, CountChops
<1>4. w.r.mode = "streaming"
  BY DEF Good, Fitting
<1>5. w.r.all = <<>> /\ w.r.posted = <<>> /\ w.j.part = 0
  BY <1>4 DEF Good, Shaped
<1>6. Shaped(v)
  BY <1>4, <1>5, Empties DEF Shaped
<1>7. Under(v, top)
  BY <1>3, <1>5, Empties DEF Under, Grows
<1>8. Reads(h, v, top)
  BY <1>3 DEF Good, Reads, Grows
<1>9. Below(v, top, tl)
  <2> SUFFICES ASSUME NEW i \in Nat, NEW k \in Tools, PlacedAt(v.th, i, k), tl[k].at = "told"
               PROVE  /\ tl[k].after \in Nat /\ tl[k].after <= Left(v, top)
                      /\ Parted(v.th, i, tl[k].after)
                      /\ Clear(v, i, tl[k].after)
    BY DEF Below
  <2> DEFINE n == tl[k].after
  <2>1. PlacedAt(w.th, i, k)
    BY DEF Grows
  <2>2. n \in Nat /\ n <= Left(w, top) /\ Parted(w.th, i, n) /\ Clear(w, i, n)
    BY <2>1 DEF Good, Below
  <2> HIDE DEF n
  <2>3. i <= Len(w.th) /\ Len(w.th) \in Nat
    BY <1>2, <2>1 DEF PlacedAt, Thread
  <2>4. w.r.at \in Nat /\ v.r.at \in Nat
    BY <1>2 DEF Fields
  <2>5. w.r.at = 0 \/ w.r.at > i
    BY <2>2 DEF Clear
  <2>6. x > i
    BY <2>3, <2>5
  <2>7. Parted(v.th, i, n)
    BY <2>2, <2>6 DEF Grows
  <2>8. v.r.at = 0 \/ v.r.at > i
    BY <2>3, <2>4, <2>5, <2>6 DEF MovesOn
  <2>9. Clear(v, i, n)
    BY <1>5, <2>8, Empties DEF Clear
  <2>10. n <= Left(v, top)
    BY <1>3, <2>2
  <2> QED
    BY <2>2, <2>7, <2>9, <2>10 DEF n
<1> QED
  BY <1>3, <1>6, <1>7, <1>8, <1>9 DEF Good

(* A surface without streams: the text of the first message is known, or   *)
(* what is left is given up.                                               *)
LEMMA GoodTurns ==
  ASSUME NEW h, NEW w, NEW v, NEW top, NEW tl, Good(h, w, top, tl), Fitting(h, v), ~h,
         NEW d \in 0 .. Len(w.j.rest),
         v.j.rest = SubSeq(w.j.rest, d + 1, Len(w.j.rest)),
         v.j.then = w.j.then, w.j.then # "over",
         v.r.pending = w.r.pending, ~w.r.placed, ~v.r.placed, v.th = w.th,
         \/ /\ v.r.all = w.r.all /\ v.r.posted = w.r.posted /\ v.r.mode = w.r.mode
            /\ v.j.part = w.j.part
         \/ /\ v.r.posted = <<>> /\ v.r.mode = "buffered"
            /\ \A p \in DOMAIN v.r.all : /\ v.r.all[p] > Left(w, top)
                                         /\ v.r.all[p] <= Left(w, top) + d
  PROVE  Good(h, v, top, tl)
<1>1. w \in Worlds /\ v \in Worlds /\ Counted(w, top)
  BY DEF Good, Fitting
<1>2. w.th \in Thread /\ w.r \in Fields /\ v.r \in Fields /\ v.r.all \in Seq(Int)
  BY <1>1, WorldParts DEF Fields
<1>3. /\ Left(w, top) \in Nat /\ d \in Nat
      /\ Left(v, top) = Left(w, top) + d /\ Left(v, top) \in Nat /\ Counted(v, top)
  BY <1>1, CountChops
<1>4. v.r.at = 0
  BY DEF Fitting
<1>5. \A p \in DOMAIN v.r.all : v.r.all[p] \in Int
  BY <1>2
<1>6. Shaped(v)
  BY Empties DEF Good, Shaped
<1>7. Under(v, top)
  <2>1. AllUnder(w.th, Left(w, top))
    BY DEF Good, Under
  <2>2. AllUnder(v.th, Left(v, top))
    <3>1. Left(w, top) \in Int /\ Left(v, top) \in Int /\ Left(w, top) <= Left(v, top)
      BY <1>3
    <3> QED
      BY <1>2, <2>1, <3>1, MoreUnder
  <2>3. \A p \in DOMAIN v.r.all : v.r.all[p] <= Left(v, top)
    <3>1. CASE v.r.all = w.r.all
      <4>1. \A p \in DOMAIN v.r.all : v.r.all[p] <= Left(w, top)
        BY <3>1 DEF Good, Under
      <4> QED
        BY <1>3, <1>5, <4>1
    <3>2. CASE \A p \in DOMAIN v.r.all : v.r.all[p] <= Left(w, top) + d
      BY <1>3, <3>2
    <3> QED
      BY <3>1, <3>2
  <2> QED
    BY <2>2, <2>3 DEF Under
<1>8. Reads(h, v, top)
  BY DEF Reads
<1>9. Below(v, top, tl)
  <2> SUFFICES ASSUME NEW i \in Nat, NEW k \in Tools, PlacedAt(v.th, i, k), tl[k].at = "told"
               PROVE  /\ tl[k].after \in Nat /\ tl[k].after <= Left(v, top)
                      /\ Parted(v.th, i, tl[k].after)
                      /\ Clear(v, i, tl[k].after)
    BY DEF Below
  <2> DEFINE n == tl[k].after
  <2>2. n \in Nat /\ n <= Left(w, top) /\ Parted(w.th, i, n) /\ Clear(w, i, n)
    BY DEF Good, Below
  <2> HIDE DEF n
  <2>3. Clear(v, i, n)
    <3>1. CASE v.r.all = w.r.all /\ v.r.posted = w.r.posted
      BY <1>4, <2>2, <3>1 DEF Clear
    <3>2. CASE /\ v.r.posted = <<>>
               /\ \A p \in DOMAIN v.r.all : v.r.all[p] > Left(w, top)
      <4>1. \A p \in DOMAIN v.r.all : v.r.all[p] > n
        BY <1>3, <1>5, <2>2, <3>2
      <4> QED
        BY <1>4, <3>2, <4>1, Empties DEF Clear
    <3> QED
      BY <3>1, <3>2
  <2>4. n <= Left(v, top)
    BY <1>3, <2>2
  <2> QED
    BY <2>2, <2>3, <2>4 DEF n
<1> QED
  BY <1>3, <1>6, <1>7, <1>8, <1>9 DEF Good

Inked(v, cut, fence) ==
  [v EXCEPT !.r.spent = IF v.r.mode = "streaming" THEN @ + cut ELSE 0,
            !.r.fenced = fence.fenced, !.r.partial = fence.partial,
            !.j.rest = SubSeq(@, cut + 1, Len(@))]

GivenUp(v) == [v EXCEPT !.j.rest = <<>>, !.f.cut = @ \/ v.r.mode = "buffered"]

LEMMA InkedFacts ==
  ASSUME NEW w \in Worlds, NEW cut \in Nat, cut <= Len(w.j.rest), NEW fence \in FenceSet
  PROVE  LET v == Inked(w, cut, fence)
         IN  /\ v \in Worlds /\ v.th = w.th /\ v.f = w.f
             /\ v.j.rest = SubSeq(w.j.rest, cut + 1, Len(w.j.rest))
             /\ v.j.part = w.j.part /\ v.j.then = w.j.then
             /\ v.r.spent = IF w.r.mode = "streaming" THEN w.r.spent + cut ELSE 0
             /\ v.r.fenced = fence.fenced /\ v.r.partial = fence.partial
             /\ v.r.at = w.r.at /\ v.r.placed = w.r.placed /\ SameText(w.r, v.r)
<1> DEFINE n  == IF w.r.mode = "streaming" THEN w.r.spent + cut ELSE 0
           g  == [w.r EXCEPT !.spent = n, !.fenced = fence.fenced, !.partial = fence.partial]
           x1 == WithR(w, g)
           q  == SubSeq(w.j.rest, cut + 1, Len(w.j.rest))
           g2 == [x1.j EXCEPT !.rest = q]
           x2 == WithJ(x1, g2)
<1>1. w.r \in Fields /\ w.j \in Jobs /\ w.th \in Thread /\ w.f \in FaultsSet
  BY WorldParts
<1>2. Inked(w, cut, fence) = x2
  BY DEF Inked, WithR, WithJ
<1>3. n \in Nat /\ fence.fenced \in BOOLEAN /\ fence.partial \in Partials
  <2>1. w.r.spent \in Nat
    BY <1>1 DEF Fields
  <2> QED
    BY <2>1 DEF FenceSet
<1>4. w.j.rest \in Seq(Int)
  BY <1>1 DEF Jobs
<1>5. q \in Seq(Int)
  BY <1>4, CutText
<1> HIDE DEF n, q
<1>6. /\ g \in Fields /\ g.spent = n /\ g.fenced = fence.fenced /\ g.partial = fence.partial
      /\ g.mode = w.r.mode /\ g.at = w.r.at /\ g.pending = w.r.pending /\ g.flushed = w.r.flushed
      /\ g.beats = w.r.beats /\ g.drawn = w.r.drawn /\ g.open = w.r.open /\ g.placed = w.r.placed
      /\ g.all = w.r.all /\ g.posted = w.r.posted /\ g.broken = w.r.broken
  BY <1>1, <1>3 DEF Fields
<1> HIDE DEF g
<1>7. x1 \in Worlds /\ x1.th = w.th /\ x1.r = g /\ x1.j = w.j /\ x1.f = w.f
  BY <1>6, WithRFacts
<1> HIDE DEF x1
<1>8. g2 \in Jobs /\ g2.rest = q /\ g2.part = w.j.part /\ g2.then = w.j.then
  BY <1>1, <1>5, <1>7 DEF Jobs
<1> HIDE DEF g2
<1>9. x2 \in Worlds /\ x2.th = w.th /\ x2.r = g /\ x2.j = g2 /\ x2.f = w.f
  BY <1>7, <1>8, WithJFacts
<1> HIDE DEF x2
<1>10. SameText(w.r, x2.r)
  BY <1>6, <1>9 DEF SameText
<1> QED
  BY <1>2, <1>6, <1>8, <1>9, <1>10 DEF n, q

LEMMA GivenUpFacts ==
  ASSUME NEW w \in Worlds
  PROVE  LET v == GivenUp(w)
         IN  /\ v \in Worlds /\ v.th = w.th /\ v.r = w.r
             /\ v.f.count = w.f.count /\ v.f.ends = w.f.ends /\ v.f.lost = w.f.lost
             /\ v.f.cut = (w.f.cut \/ w.r.mode = "buffered")
             /\ v.j.rest = <<>> /\ v.j.part = w.j.part /\ v.j.then = w.j.then
<1> DEFINE g  == [w.j EXCEPT !.rest = <<>>]
           x1 == WithJ(w, g)
           c  == w.f.cut \/ w.r.mode = "buffered"
           g2 == [x1.f EXCEPT !.cut = c]
           x2 == WithF(x1, g2)
<1>1. w.r \in Fields /\ w.j \in Jobs /\ w.th \in Thread /\ w.f \in FaultsSet
  BY WorldParts
<1>2. GivenUp(w) = x2
  BY DEF GivenUp, WithF, WithJ
<1>3. c \in BOOLEAN
  BY <1>1
<1> HIDE DEF c
<1>4. g \in Jobs /\ g.rest = <<>> /\ g.part = w.j.part /\ g.then = w.j.then
  BY <1>1, Empties DEF Jobs
<1> HIDE DEF g
<1>5. x1 \in Worlds /\ x1.th = w.th /\ x1.r = w.r /\ x1.j = g /\ x1.f = w.f
  BY <1>4, WithJFacts
<1> HIDE DEF x1
<1>6. g2 \in FaultsSet /\ g2.cut = c /\ g2.count = w.f.count /\ g2.ends = w.f.ends /\ g2.lost = w.f.lost
  BY <1>1, <1>3, <1>5 DEF FaultsSet
<1> HIDE DEF g2
<1>7. x2 \in Worlds /\ x2.th = w.th /\ x2.r = w.r /\ x2.j = g /\ x2.f = g2
  <2>1. x2 = [x1 EXCEPT !.f = g2]
    BY DEF WithF
  <2> HIDE DEF x2
  <2> QED
    BY <1>5, <1>6, <2>1 DEF Worlds
<1> HIDE DEF x2
<1> QED
  BY <1>2, <1>4, <1>6, <1>7 DEF c

Room(w) == IF w.r.spent >= Budget THEN 0 ELSE Budget - w.r.spent

FenceOf(w) == [fenced |-> w.r.fenced, partial |-> w.r.partial]

Cut(w)     == SplitAt(w.j.rest, Room(w))
PieceOf(w) == SubSeq(w.j.rest, 1, Cut(w))

Pieces(w) ==
  { IF v.said = "ok" THEN Inked(v, Cut(w), Consumed(FenceOf(v), PieceOf(w))) ELSE GivenUp(v)
    : v \in AppendChunk(w, Words(PieceOf(w))) }

LEMMA FenceTyped ==
  ASSUME NEW w \in Worlds
  PROVE  FenceOf(w) \in FenceSet /\ FenceOf(w).fenced = w.r.fenced /\ FenceOf(w).partial = w.r.partial
<1>1. w.r \in Fields
  BY WorldParts
<1>2. w.r.fenced \in BOOLEAN /\ w.r.partial \in Partials
  BY <1>1 DEF Fields
<1> QED
  BY <1>2 DEF FenceOf, FenceSet

(* The piece of what is left that the stream has room for. *)
LEMMA PieceFacts ==
  ASSUME NEW w \in Worlds, NEW top, Counted(w, top)
  PROVE  /\ Cut(w) \in Nat /\ Cut(w) \in 0 .. Len(w.j.rest) /\ Cut(w) <= Len(w.j.rest)
         /\ Cut(w) + 2 <= MaxText
         /\ w.r.spent < Budget => w.r.spent + Cut(w) <= Budget
         /\ w.r.spent >= Budget => Cut(w) = 0
         /\ PieceOf(w) \in Seq(Int) /\ Len(PieceOf(w)) = Cut(w)
         /\ \A p \in 1 .. Len(PieceOf(w)) : PieceOf(w)[p] = Left(w, top) + p
         /\ Words(PieceOf(w)) \in Chunks /\ Words(PieceOf(w)).text = PieceOf(w)
         /\ Words(PieceOf(w)).lists = <<>>
<1> DEFINE rest == w.j.rest
           room == Room(w)
           cut  == Cut(w)
           piece == PieceOf(w)
<1>1. rest \in Seq(Int) /\ \A i \in 1 .. Len(rest) : rest[i] = Left(w, top) + i
  BY CountParts
<1>2. w.r.spent \in Nat
  <2>1. w.r \in Fields
    BY WorldParts
  <2> QED
    BY <2>1 DEF Fields
<1>3. /\ room \in Nat /\ room <= Budget
      /\ w.r.spent < Budget => w.r.spent + room = Budget
      /\ w.r.spent >= Budget => room = 0
  BY <1>2, Bounds DEF Room
<1>4. cut \in 0 .. Len(rest) /\ cut <= room
  <2>1. cut = SplitAt(rest, room)
    BY DEF Cut
  <2> HIDE DEF rest, room, cut
  <2> QED
    BY <1>1, <1>3, <2>1, SplitAtFacts
<1>0. piece = SubSeq(rest, 1, cut)
  BY DEF PieceOf
<1> HIDE DEF rest, room, cut, piece
<1>5. cut \in Nat /\ cut <= Len(rest) /\ Len(rest) \in Nat
  BY <1>1, <1>4
<1>6. /\ SubSeq(rest, 1, cut) \in Seq(Int) /\ Len(SubSeq(rest, 1, cut)) = cut
      /\ \A p \in 1 .. cut : SubSeq(rest, 1, cut)[p] = rest[p]
  BY <1>1, <1>5, CutText
<1>7. piece \in Seq(Int) /\ Len(piece) = cut /\ \A p \in 1 .. cut : piece[p] = rest[p]
  BY <1>0, <1>6
<1>8. \A p \in 1 .. cut : piece[p] = Left(w, top) + p
  <2> TAKE p \in 1 .. cut
  <2>1. p \in 1 .. Len(rest)
    BY <1>5
  <2> QED
    BY <1>1, <1>7, <2>1
<1>9. cut + 2 <= MaxText
  BY <1>3, <1>4, <1>5, Bounds
<1>10. /\ w.r.spent < Budget => w.r.spent + cut <= Budget
       /\ w.r.spent >= Budget => cut = 0
  BY <1>2, <1>3, <1>4, <1>5, Bounds
<1>11. Words(piece) \in Chunks /\ Words(piece).text = piece /\ Words(piece).lists = <<>>
  BY <1>7, WordsTyped
<1> QED
  BY <1>3, <1>4, <1>5, <1>7, <1>8, <1>9, <1>10, <1>11 DEF rest, room, cut, piece

(* A piece of what is left is written, or the rest is given up. *)
LEMMA GoodPiece ==
  ASSUME NEW w, NEW top, NEW tl, Good(hosts, w, top, tl), w.j.rest # <<>>, w.j.part = 0,
         NEW u \in Pieces(w)
  PROVE  Good(hosts, u, top, tl)
<1> DEFINE cut   == Cut(w)
           piece == PieceOf(w)
           c     == Words(piece)
           left  == Left(w, top)
           all   == Len(w.j.rest)
<1>1. w \in Worlds /\ Counted(w, top) /\ Fitting(hosts, w) /\ Shaped(w)
  BY DEF Good, Fitting
<1>2. /\ cut \in Nat /\ cut \in 0 .. all /\ cut <= all
      /\ cut + 2 <= MaxText
      /\ w.r.spent < Budget => w.r.spent + cut <= Budget
      /\ w.r.spent >= Budget => cut = 0
      /\ piece \in Seq(Int) /\ Len(piece) = cut
      /\ \A p \in 1 .. Len(piece) : piece[p] = left + p
      /\ c \in Chunks /\ c.text = piece
  <2>1. /\ Cut(w) \in Nat /\ Cut(w) \in 0 .. Len(w.j.rest) /\ Cut(w) <= Len(w.j.rest)
        /\ Cut(w) + 2 <= MaxText
        /\ w.r.spent < Budget => w.r.spent + Cut(w) <= Budget
        /\ w.r.spent >= Budget => Cut(w) = 0
        /\ PieceOf(w) \in Seq(Int) /\ Len(PieceOf(w)) = Cut(w)
        /\ \A p \in 1 .. Len(PieceOf(w)) : PieceOf(w)[p] = Left(w, top) + p
        /\ Words(PieceOf(w)) \in Chunks /\ Words(PieceOf(w)).text = PieceOf(w)
        /\ Words(PieceOf(w)).lists = <<>>
    BY <1>1, PieceFacts
  <2> QED
    BY <2>1
<1>3. PICK v \in AppendChunk(w, c) :
        u = IF v.said = "ok" THEN Inked(v, cut, Consumed(FenceOf(v), piece)) ELSE GivenUp(v)
  BY DEF Pieces
<1>4. /\ w.th \in Thread /\ w.r \in Fields /\ w.j \in Jobs /\ w.f \in FaultsSet
      /\ w.r.spent \in Nat /\ w.r.at \in Nat /\ w.f.count \in Nat
      /\ w.j.rest \in Seq(Int) /\ all \in Nat /\ left \in Nat
  <2>1. w.th \in Thread /\ w.r \in Fields /\ w.j \in Jobs /\ w.f \in FaultsSet
    BY <1>1, WorldParts
  <2>2. w.r.spent \in Nat /\ w.r.at \in Nat
    BY <2>1 DEF Fields
  <2>3. w.f.count \in Nat
    BY <2>1, Bounds DEF FaultsSet
  <2>4. w.j.rest \in Seq(Int) /\ all \in Nat /\ left \in Nat
    BY <1>1, CountParts
  <2> QED
    BY <2>1, <2>2, <2>3, <2>4
<1>5. ~w.r.placed /\ w.j.then # "over"
  BY <1>1 DEF Shaped
<1>6. AllUnder(w.th, left)
  BY DEF Good, Under
<1>7. w.f.count = 0 /\ hosts => ~w.f.cut /\ Covers(w.th, left)
  BY DEF Good, Reads
<1>8. SubSeq(w.j.rest, all + 1, all) = <<>>
  BY <1>4, CutText
<1> HIDE DEF cut, piece, c, left, all
<1>9. v \in Worlds => Consumed(FenceOf(v), piece) \in FenceSet
  BY <1>2, FenceTyped, ConsumedTyped
<1>10. CASE hosts
  <2>1. w.r.mode = "streaming" /\ StreamAt(w.th, w.r.at) /\ w.r.spent <= Budget + 2
    BY <1>1, <1>10 DEF Fitting
  <2>2. /\ v \in Worlds /\ SameWords(w.r, v.r) /\ v.j = w.j /\ Worse(w.f, v.f)
        /\ \/ v.said # "ok" /\ Quiet(w.th, v.th)
           \/ \E i \in Nat : /\ Written(w.th, v.th, c, i)
                             /\ i = w.r.at \/ i > Len(w.th)
                             /\ v.r.at = 0 \/ v.r.at = i
                             /\ v.said = "ok" => v.r.at = i
        /\ v.r.at = w.r.at \/ v.r.at = 0 \/ v.r.at > Len(w.th)
        /\ StreamAt(v.th, v.r.at)
        /\ v.r.spent \in {w.r.spent, 0, 2} /\ v.r.partial \in {w.r.partial, "empty"}
        /\ v.f.count = w.f.count /\ Len(c.text) + 2 <= MaxText =>
             v.said = "ok" /\ v.f = w.f /\ CalmAppend(w, v, c)
    BY <1>1, <1>2, <1>3, <1>10, <2>1, AppendHosted
  <2>3. v.f.count \in Nat /\ v.f.count >= w.f.count /\ v.f.cut = w.f.cut /\ v.th \in Thread
    <3>1. v.f \in FaultsSet /\ v.th \in Thread
      BY <2>2, WorldParts
    <3> QED
      BY <2>2, <3>1, Bounds DEF Worse, FaultsSet
  <2>4. /\ v.r.mode = "streaming" /\ v.r.pending = w.r.pending /\ v.r.all = w.r.all
        /\ v.r.posted = w.r.posted /\ v.r.placed = w.r.placed
    BY <2>1, <2>2 DEF SameWords
  <2>5. v.f.count = 0 => v.said = "ok" /\ w.f.count = 0
    BY <1>2, <1>4, <2>2, <2>3
  <2>6. ASSUME NEW i \in Nat, Written(w.th, v.th, c, i)
        PROVE  /\ Grows(w.th, v.th, left, left + cut, i)
               /\ Covers(w.th, left) => Covers(v.th, left + cut)
               /\ i # 0
    <3>1. /\ Grows(w.th, v.th, left, left + Len(c.text), i)
          /\ Covers(w.th, left) => Covers(v.th, left + Len(c.text))
      BY <1>2, <1>4, <1>6, <2>6, PieceKeeps
    <3>2. i # 0
      <4>1. PICK th1 \in Thread : i \in DOMAIN th1
        BY <2>6 DEF Written
      <4> QED
        BY <4>1 DEF Thread
    <3> QED
      BY <1>2, <3>1, <3>2
  <2>7. CASE v.said = "ok"
    <3>1. PICK i \in Nat : /\ Written(w.th, v.th, c, i)
                           /\ i = w.r.at \/ i > Len(w.th)
                           /\ v.r.at = i
      BY <2>2, <2>7
    <3>2. /\ Grows(w.th, v.th, left, left + cut, i)
          /\ Covers(w.th, left) => Covers(v.th, left + cut)
          /\ i # 0
      BY <2>6, <3>1
    <3>3. u = Inked(v, cut, Consumed(FenceOf(v), piece))
      BY <1>3, <2>7
    <3>4. /\ u \in Worlds /\ u.th = v.th /\ u.f = v.f
          /\ u.j.rest = SubSeq(v.j.rest, cut + 1, Len(v.j.rest))
          /\ u.j.part = v.j.part /\ u.j.then = v.j.then
          /\ u.r.spent = IF v.r.mode = "streaming" THEN v.r.spent + cut ELSE 0
          /\ u.r.at = v.r.at /\ u.r.placed = v.r.placed /\ SameText(v.r, u.r)
      <4>1. cut <= Len(v.j.rest)
        BY <1>2, <2>2 DEF all
      <4> DEFINE fence == Consumed(FenceOf(v), piece)
      <4>2. fence \in FenceSet /\ u = Inked(v, cut, fence)
        BY <1>9, <2>2, <3>3
      <4> HIDE DEF fence
      <4> DEFINE z == Inked(v, cut, fence)
      <4>3. /\ z \in Worlds /\ z.th = v.th /\ z.f = v.f
            /\ z.j.rest = SubSeq(v.j.rest, cut + 1, Len(v.j.rest))
            /\ z.j.part = v.j.part /\ z.j.then = v.j.then
            /\ z.r.spent = IF v.r.mode = "streaming" THEN v.r.spent + cut ELSE 0
            /\ z.r.fenced = fence.fenced /\ z.r.partial = fence.partial
            /\ z.r.at = v.r.at /\ z.r.placed = v.r.placed /\ SameText(v.r, z.r)
        <5>1. v \in Worlds /\ cut \in Nat
          BY <1>2, <2>2
        <5> QED
          BY <4>1, <4>2, <5>1, InkedFacts
      <4> QED
        BY <4>2, <4>3
    <3>5. /\ u.r.mode = w.r.mode /\ u.r.pending = w.r.pending /\ u.r.all = w.r.all
          /\ u.r.posted = w.r.posted /\ u.r.placed = w.r.placed
      BY <2>1, <2>4, <3>4 DEF SameText
    <3>6. u.r.spent <= Budget + 2
      <4>1. u.r.spent = v.r.spent + cut
        BY <2>4, <3>4
      <4>2. v.r.spent \in {w.r.spent, 0, 2} /\ w.r.spent \in Nat /\ cut \in Nat /\ Budget \in Nat
        BY <1>2, <1>4, <2>2, Bounds
      <4>3. /\ w.r.spent <= Budget + 2
            /\ w.r.spent < Budget => w.r.spent + cut <= Budget
            /\ w.r.spent >= Budget => cut = 0
        BY <1>2, <2>1
      <4> QED
        BY <4>1, <4>2, <4>3
    <3>7. Fitting(hosts, u)
      BY <1>10, <2>1, <2>2, <3>4, <3>5, <3>6 DEF Fitting
    <3>8. u.f.count = 0 => ~u.f.cut /\ Covers(u.th, left + cut)
      BY <1>7, <1>10, <2>3, <2>5, <3>2, <3>4
    <3>9. u.j.rest = SubSeq(w.j.rest, cut + 1, Len(w.j.rest)) /\ u.j.part = w.j.part /\ u.j.then = w.j.then
      BY <2>2, <3>4
    <3> QED
      BY <1>2, <1>5, <1>10, <3>1, <3>2, <3>4, <3>5, <3>7, <3>8, <3>9, GoodGrows DEF left, all
  <2>8. CASE v.said # "ok"
    <3>1. u = GivenUp(v)
      BY <1>3, <2>8
    <3>2. /\ u \in Worlds /\ u.th = v.th /\ u.r = v.r /\ u.f.count = v.f.count
          /\ u.j.rest = <<>> /\ u.j.part = v.j.part /\ u.j.then = v.j.then
      BY <2>2, <3>1, GivenUpFacts
    <3>3. u.r.spent <= Budget + 2
      BY <1>4, <2>1, <2>2, <3>2, Bounds
    <3>4. Fitting(hosts, u)
      BY <1>10, <2>2, <2>4, <3>2, <3>3 DEF Fitting
    <3>5. PICK x \in Nat : /\ x = w.r.at \/ x > Len(w.th)
                           /\ x # 0
                           /\ v.r.at = 0 \/ v.r.at = x \/ MovesOn(w, u)
                           /\ Grows(w.th, v.th, left, left + all, x)
      <4>1. CASE Quiet(w.th, v.th)
        <5> DEFINE x == Len(w.th) + 1
        <5>1. x \in Nat /\ x > Len(w.th) /\ x # 0
          BY <1>4 DEF Thread
        <5> HIDE DEF x
        <5>2. Grows(w.th, v.th, left, left, x)
          BY <1>4, <1>6, <4>1, QuietGrows
        <5>3. Grows(w.th, v.th, left, left + all, x)
          <6>1. left + all \in Nat /\ left <= left + all
            BY <1>4
          <6> QED
            BY <1>4, <2>3, <5>2, <6>1, GrowsMore
        <5>4. MovesOn(w, u)
          BY <2>2, <3>2 DEF MovesOn
        <5> QED
          BY <5>1, <5>3, <5>4
      <4>2. CASE ~Quiet(w.th, v.th)
        <5>1. PICK i \in Nat : /\ Written(w.th, v.th, c, i)
                               /\ i = w.r.at \/ i > Len(w.th)
                               /\ v.r.at = 0 \/ v.r.at = i
          BY <2>2, <4>2
        <5>2. Grows(w.th, v.th, left, left + cut, i) /\ i # 0
          BY <2>6, <5>1
        <5>3. Grows(w.th, v.th, left, left + all, i)
          <6>1. left + all \in Nat /\ left + cut \in Nat /\ left + cut <= left + all
            BY <1>2, <1>4
          <6> QED
            BY <1>4, <2>3, <5>2, <6>1, GrowsMore
        <5> QED
          BY <5>1, <5>2, <5>3
      <4> QED
        BY <4>1, <4>2
    <3>6. u.f.count # 0
      BY <2>5, <2>8, <3>2
    <3>7. /\ u.r.mode = w.r.mode /\ u.r.pending = w.r.pending /\ u.r.all = w.r.all
          /\ u.r.posted = w.r.posted /\ ~u.r.placed
      BY <1>5, <2>1, <2>4, <3>2
    <3>8. u.j.rest = SubSeq(w.j.rest, all + 1, Len(w.j.rest)) /\ u.j.part = w.j.part /\ u.j.then = w.j.then
      BY <1>8, <2>2, <3>2 DEF all
    <3>9. all \in 0 .. Len(w.j.rest)
      BY <1>4 DEF all
    <3>10. u.r.at = 0 \/ u.r.at = x \/ MovesOn(w, u)
      BY <3>2, <3>5
    <3>11. Grows(w.th, u.th, Left(w, top), Left(w, top) + all, x)
      BY <3>2, <3>5 DEF left
    <3> QED
      BY <1>5, <1>10, <3>4, <3>5, <3>6, <3>7, <3>8, <3>9, <3>10, <3>11, GoodGrows
  <2> QED
    BY <2>7, <2>8
<1>11. CASE ~hosts
  <2>1. w.r.at = 0 /\ w.r.spent <= Budget + 2
    BY <1>1, <1>11 DEF Fitting
  <2>2. /\ v \in Worlds /\ v.th = w.th /\ Worse(w.f, v.f)
        /\ \/ /\ w.r.mode = "streaming" /\ v.said = "ok" /\ v.f = w.f
              /\ GoesOver(w.r, v.r, c.text)
              /\ v.j.part = 1 /\ v.j.rest = w.j.rest /\ v.j.then = w.j.then
           \/ /\ v.said = "failed" /\ v.r = w.r /\ v.j = w.j
              /\ w.r.mode = "streaming" => v.f.count # w.f.count
    BY <1>1, <1>2, <1>3, <1>11, <2>1, AppendUnhosted
  <2>3. CASE v.said = "ok"
    <3>1. /\ GoesOver(w.r, v.r, piece)
          /\ v.j.part = 1 /\ v.j.rest = w.j.rest /\ v.j.then = w.j.then
      BY <1>2, <2>2, <2>3
    <3>2. u = Inked(v, cut, Consumed(FenceOf(v), piece))
      BY <1>3, <2>3
    <3>3. /\ u \in Worlds /\ u.th = v.th /\ u.f = v.f
          /\ u.j.rest = SubSeq(v.j.rest, cut + 1, Len(v.j.rest))
          /\ u.j.part = v.j.part /\ u.j.then = v.j.then
          /\ u.r.spent = IF v.r.mode = "streaming" THEN v.r.spent + cut ELSE 0
          /\ u.r.at = v.r.at /\ u.r.placed = v.r.placed /\ SameText(v.r, u.r)
      <4>1. cut <= Len(v.j.rest)
        BY <1>2, <3>1 DEF all
      <4> DEFINE fence == Consumed(FenceOf(v), piece)
      <4>2. fence \in FenceSet /\ u = Inked(v, cut, fence)
        BY <1>9, <2>2, <3>2
      <4> HIDE DEF fence
      <4> DEFINE z == Inked(v, cut, fence)
      <4>3. /\ z \in Worlds /\ z.th = v.th /\ z.f = v.f
            /\ z.j.rest = SubSeq(v.j.rest, cut + 1, Len(v.j.rest))
            /\ z.j.part = v.j.part /\ z.j.then = v.j.then
            /\ z.r.spent = IF v.r.mode = "streaming" THEN v.r.spent + cut ELSE 0
            /\ z.r.fenced = fence.fenced /\ z.r.partial = fence.partial
            /\ z.r.at = v.r.at /\ z.r.placed = v.r.placed /\ SameText(v.r, z.r)
        <5>1. v \in Worlds /\ cut \in Nat
          BY <1>2, <2>2
        <5> QED
          BY <4>1, <4>2, <5>1, InkedFacts
      <4> QED
        BY <4>2, <4>3
    <3>4. /\ u.r.mode = "buffered" /\ u.r.all = piece /\ u.r.posted = <<>>
          /\ u.r.pending = w.r.pending /\ u.r.at = 0 /\ ~u.r.placed
      BY <1>5, <2>1, <3>1, <3>3 DEF GoesOver, SameText
    <3>5. u.r.spent <= Budget + 2
      <4>1. u.r.spent = 0
        BY <3>1, <3>3 DEF GoesOver
      <4> QED
        BY <4>1, Bounds
    <3>6. Fitting(hosts, u)
      BY <1>11, <3>3, <3>4, <3>5 DEF Fitting, StreamAt
    <3>7. \A p \in DOMAIN u.r.all : u.r.all[p] > Left(w, top) /\ u.r.all[p] <= Left(w, top) + cut
      <4>1. DOMAIN piece = 1 .. cut
        BY <1>2
      <4> QED
        BY <1>2, <1>4, <3>4, <4>1 DEF left
    <3> QED
      BY <1>2, <1>5, <1>11, <2>2, <3>1, <3>3, <3>4, <3>6, <3>7, GoodTurns DEF all
  <2>4. CASE v.said # "ok"
    <3>1. u = GivenUp(v) /\ v.r = w.r /\ v.j = w.j
      BY <1>3, <2>2, <2>4
    <3>2. /\ u \in Worlds /\ u.th = w.th /\ u.r = w.r
          /\ u.j.rest = <<>> /\ u.j.part = w.j.part /\ u.j.then = w.j.then
      BY <2>2, <3>1, GivenUpFacts
    <3>3. Fitting(hosts, u)
      BY <1>1, <3>2 DEF Fitting
    <3>4. u.j.rest = SubSeq(w.j.rest, all + 1, Len(w.j.rest))
      BY <1>8, <3>2 DEF all
    <3>5. all \in 0 .. Len(w.j.rest)
      BY <1>4 DEF all
    <3> QED
      BY <1>5, <1>11, <3>2, <3>3, <3>4, <3>5, GoodTurns
  <2> QED
    BY <2>3, <2>4
<1> QED
  BY <1>10, <1>11

(* What is done next, and the lists, are left as they were. *)
Keeps(w, v) ==
  /\ v.j.then = w.j.then /\ v.r.pending = w.r.pending
  /\ v.r.beats = w.r.beats /\ v.r.open = w.r.open

LEMMA PieceStays ==
  ASSUME NEW w, NEW top, NEW tl, Good(hosts, w, top, tl), NEW u \in Pieces(w)
  PROVE  Keeps(w, u) /\ u.j.part \in {w.j.part, 1}
<1> DEFINE cut   == Cut(w)
           piece == PieceOf(w)
           c     == Words(piece)
<1>1. w \in Worlds
  BY DEF Good, Fitting
<1>2. Counted(w, top) /\ Fitting(hosts, w)
  BY DEF Good
<1>3. /\ Cut(w) \in Nat /\ Cut(w) <= Len(w.j.rest)
      /\ PieceOf(w) \in Seq(Int) /\ Words(PieceOf(w)) \in Chunks
      /\ Words(PieceOf(w)).text = PieceOf(w)
  BY <1>1, <1>2, PieceFacts
<1>4. PICK v \in AppendChunk(w, c) :
        u = IF v.said = "ok" THEN Inked(v, cut, Consumed(FenceOf(v), piece)) ELSE GivenUp(v)
  BY DEF Pieces
<1> HIDE DEF cut, piece, c
<1>5. c \in Chunks /\ cut \in Nat /\ cut <= Len(w.j.rest) /\ piece \in Seq(Int) /\ c.text = piece
  BY <1>3 DEF c, cut, piece
<1>6. /\ v \in Worlds /\ v.j.then = w.j.then /\ v.j.rest = w.j.rest /\ v.j.part \in {w.j.part, 1}
      /\ v.r.pending = w.r.pending /\ v.r.beats = w.r.beats /\ v.r.open = w.r.open
  <2>1. CASE hosts
    <3>1. w.r.mode = "streaming" /\ StreamAt(w.th, w.r.at)
      BY <1>2, <2>1 DEF Fitting
    <3>2. v \in Worlds /\ SameWords(w.r, v.r) /\ v.j = w.j
      BY <1>1, <1>4, <1>5, <2>1, <3>1, AppendHosted
    <3> QED
      BY <3>2 DEF SameWords
  <2>2. CASE ~hosts
    <3>1. w.r.at = 0
      BY <1>2, <2>2 DEF Fitting
    <3>2. /\ v \in Worlds
          /\ \/ /\ GoesOver(w.r, v.r, c.text)
                /\ v.j.part = 1 /\ v.j.rest = w.j.rest /\ v.j.then = w.j.then
             \/ v.r = w.r /\ v.j = w.j
      BY <1>1, <1>4, <1>5, <2>2, <3>1, AppendUnhosted
    <3> QED
      BY <3>2 DEF GoesOver
  <2> QED
    BY <2>1, <2>2
<1>7. CASE v.said = "ok"
  <2> DEFINE fence == Consumed(FenceOf(v), piece)
             z == Inked(v, cut, fence)
  <2>1. fence \in FenceSet /\ u = Inked(v, cut, fence) /\ cut <= Len(v.j.rest)
    BY <1>4, <1>5, <1>6, <1>7, FenceTyped, ConsumedTyped
  <2> HIDE DEF fence
  <2>2. /\ z \in Worlds /\ z.th = v.th /\ z.f = v.f
        /\ z.j.rest = SubSeq(v.j.rest, cut + 1, Len(v.j.rest))
        /\ z.j.part = v.j.part /\ z.j.then = v.j.then
        /\ z.r.spent = IF v.r.mode = "streaming" THEN v.r.spent + cut ELSE 0
        /\ z.r.fenced = fence.fenced /\ z.r.partial = fence.partial
        /\ z.r.at = v.r.at /\ z.r.placed = v.r.placed /\ SameText(v.r, z.r)
    BY <1>5, <1>6, <2>1, InkedFacts
  <2> QED
    BY <1>6, <2>1, <2>2 DEF SameText, Keeps
<1>8. CASE v.said # "ok"
  BY <1>4, <1>6, <1>8, GivenUpFacts DEF Keeps
<1> QED
  BY <1>7, <1>8

LEMMA EmitStays ==
  ASSUME NEW w, Fitting(hosts, w), NEW cut \in 0 .. Len(w.r.pending), NEW v \in Emit(w, cut)
  PROVE  /\ v.r.beats = w.r.beats /\ v.r.open \in {w.r.open, 0}
         /\ cut = Len(w.r.pending) => v.r.pending = <<>>
         /\ (v.j.part = w.j.part /\ v.r.all = w.r.all) \/ v.j.part = 1
<1>1. w.r.pending \in Seq(Int) /\ w.r.mode \in {"streaming", "buffered"}
  <2>1. w \in Worlds
    BY DEF Fitting
  <2>2. w.r \in Fields
    BY <2>1, WorldParts
  <2> QED
    BY <2>2 DEF Fields
<1>2. CASE cut = 0
  <2>1. v = w
    BY <1>2 DEF Emit
  <2>2. 0 = Len(w.r.pending) => w.r.pending = <<>>
    BY <1>1
  <2> QED
    BY <1>2, <2>1, <2>2
<1>3. CASE cut # 0
  <2>1. cut \in 1 .. Len(w.r.pending)
    BY <1>1, <1>3
  <2> DEFINE text == SubSeq(w.r.pending, 1, cut)
  <2>2. /\ v.r.open = 0 /\ v.r.beats = w.r.beats
        /\ v.r.pending = SubSeq(w.r.pending, cut + 1, Len(w.r.pending))
        /\ w.r.mode = "streaming" =>
                  /\ v.j.rest = text /\ v.j.part = w.j.part
                  /\ v.r.all = w.r.all /\ v.r.posted = w.r.posted
        /\ w.r.mode # "streaming" => v.j.part = 1
    BY <2>1, EmitFacts
  <2>3. cut = Len(w.r.pending) => v.r.pending = <<>>
    <3>1. cut \in Nat /\ cut <= Len(w.r.pending)
      BY <1>1, <2>1
    <3>2. cut = Len(w.r.pending) => SubSeq(w.r.pending, cut + 1, Len(w.r.pending)) = <<>>
      BY <1>1, <3>1, CutText
    <3> QED
      BY <2>2, <3>2
  <2> QED
    BY <1>1, <2>2, <2>3
<1> QED
  BY <1>2, <1>3

(* Only the answer differs. *)
LEMMA GoodSame ==
  ASSUME NEW h, NEW w, NEW v, NEW top, NEW tl, Good(h, w, top, tl), v \in Worlds,
         v.th = w.th, v.r = w.r, v.j = w.j, v.f = w.f
  PROVE  Good(h, v, top, tl)
<1>1. Fitting(h, v)
  BY DEF Good, Fitting
<1>2. w.th \in Thread /\ w.f \in FaultsSet
  <2>1. w \in Worlds
    BY DEF Good, Fitting
  <2> QED
    BY <2>1, WorldParts
<1>3. Quiet(w.th, v.th)
  BY <1>2, QuietSame
<1>4. v.f.count >= w.f.count
  BY <1>2, Bounds DEF FaultsSet
<1>5. w.j.then = "over" => w.j.rest = <<>> /\ w.j.part = 0
  BY DEF Good, Shaped
<1>6. Moves(h, w, v)
  BY <1>1, <1>3, <1>4, <1>5 DEF Moves, MovesOn
<1> QED
  BY <1>6, GoodMoves

(* No tool is told more than it was. *)
LEMMA GoodTools ==
  ASSUME NEW h, NEW w, NEW top, NEW tl, NEW tl2, Good(h, w, top, tl),
         \A k \in Tools : tl2[k].at = "told" => tl2[k] = tl[k]
  PROVE  Good(h, w, top, tl2)
<1>1. Below(w, top, tl2)
  BY DEF Good, Below
<1> QED
  BY <1>1 DEF Good

(* The agent says more. *)
LEMMA GoodMore ==
  ASSUME NEW h, NEW w, NEW top, NEW tl, Good(h, w, top, tl), NEW n \in Nat,
         w.j.rest = <<>>, w.j.then = "read"
  PROVE  /\ w.r.pending \o [i \in 1 .. n |-> top + i] \in Seq(Int)
         /\ Good(h, Waiting(w, w.r.pending \o [i \in 1 .. n |-> top + i]), top + n, tl)
<1> DEFINE more == [i \in 1 .. n |-> top + i]
           p    == w.r.pending
           q    == p \o more
           v    == Waiting(w, q)
           l    == Left(w, top)
<1>1. w \in Worlds /\ Counted(w, top)
  BY DEF Good, Fitting
<1>2. /\ top \in Nat /\ l \in Nat /\ Len(p) \in Nat /\ p \in Seq(Int)
      /\ l + Len(p) = top
      /\ \A i \in 1 .. Len(p) : p[i] = l + i
  BY <1>1, CountParts
<1>3. more \in Seq(Int) /\ Len(more) = n /\ \A i \in 1 .. n : more[i] = top + i
  BY <1>2
<1> HIDE DEF more, p, l
<1>4. q \in Seq(Int) /\ Len(q) = Len(p) + n
  <2>1. Len(p \o more) = Len(p) + Len(more)
    BY <1>2, <1>3, LenConcat
  <2>2. p \o more \in Seq(Int)
    BY <1>2, <1>3
  <2> QED
    BY <1>3, <2>1, <2>2
<1>5. \A i \in 1 .. Len(q) : q[i] = l + i
  <2> TAKE i \in 1 .. Len(q)
  <2>1. CASE i <= Len(p)
    <3>1. q[i] = p[i] /\ i \in 1 .. Len(p)
      BY <1>2, <1>3, <1>4, <2>1
    <3> QED
      BY <1>2, <3>1
  <2>2. CASE i > Len(p)
    <3> DEFINE b == i - Len(p)
    <3>1. b \in 1 .. n /\ i = Len(p) + b
      BY <1>2, <1>4, <2>2
    <3>2. (p \o more)[i] = more[b]
      BY <1>2, <1>3, <1>4, <2>2
    <3> HIDE DEF b
    <3>3. more[b] = top + b /\ b \in Int
      BY <1>3, <3>1
    <3>4. q[i] = top + b
      BY <3>2, <3>3
    <3>5. top + b = l + i
      BY <1>2, <3>1, <3>3
    <3> QED
      BY <3>4, <3>5
  <2> QED
    BY <1>2, <1>4, <2>1, <2>2
<1> HIDE DEF q
<1>6. /\ v \in Worlds /\ v.th = w.th /\ v.j = w.j /\ v.f = w.f /\ v.r.pending = q
      /\ v.r.mode = w.r.mode /\ v.r.at = w.r.at /\ v.r.spent = w.r.spent
      /\ v.r.placed = w.r.placed /\ v.r.all = w.r.all /\ v.r.posted = w.r.posted
  BY <1>1, <1>4, WaitingFacts
<1> HIDE DEF v
<1>7. Left(v, top + n) = l
  <2>1. Left(v, top + n) = (top + n) - Len(q) - Len(<<>>)
    BY <1>6 DEF Left
  <2> QED
    BY <1>2, <1>4, <2>1, Empties
<1>8. Fitting(h, v)
  BY <1>6 DEF Good, Fitting
<1>9. Shaped(v)
  BY <1>6 DEF Good, Shaped
<1>10. Counted(v, top + n)
  <2>1. top + n \in Nat
    BY <1>2
  <2>2. \A i \in 1 .. Len(v.j.rest) : v.j.rest[i] = l + i
    BY <1>6, Empties
  <2>3. \A i \in 1 .. Len(q) : q[i] = l + Len(v.j.rest) + i
    <3>1. Len(v.j.rest) = 0
      BY <1>6, Empties
    <3>2. \A i \in 1 .. Len(q) : l + 0 + i = l + i
      BY <1>2, <1>4
    <3> QED
      BY <1>5, <3>1, <3>2
  <2> QED
    BY <1>2, <1>6, <1>7, <2>1, <2>2, <2>3 DEF Counted
<1>11. Under(v, top + n)
  BY <1>6, <1>7 DEF Good, Under, l
<1>12. Below(v, top + n, tl)
  BY <1>6, <1>7 DEF Good, Below, Clear, l
<1>13. Reads(h, v, top + n)
  BY <1>6, <1>7 DEF Good, Reads, l
<1>14. Good(h, v, top + n, tl)
  BY <1>8, <1>9, <1>10, <1>11, <1>12, <1>13 DEF Good
<1> QED
  BY <1>4, <1>14 DEF v, q, p, more

(* Nothing in the part that is not in the text *)
Within(part, text) ==
  part \in Seq(Int) /\ \A p \in DOMAIN part : \E q \in DOMAIN text : part[p] = text[q]

LEMMA WithinCut ==
  ASSUME NEW text \in Seq(Int), NEW i \in Nat \ {0}, NEW j \in 0 .. Len(text)
  PROVE  Within(SubSeq(text, i, j), text)
<1>1. SubSeq(text, i, j) \in Seq(Int) /\ DOMAIN SubSeq(text, i, j) = 1 .. Len(SubSeq(text, i, j))
  OBVIOUS
<1>2. CASE j < i
  <2>1. SubSeq(text, i, j) = <<>>
    BY <1>2
  <2> QED
    BY <2>1, Empties DEF Within
<1>3. CASE i <= j
  <2>1. Len(SubSeq(text, i, j)) = j - i + 1
    BY <1>3
  <2>2. \A p \in 1 .. j - i + 1 : SubSeq(text, i, j)[p] = text[i + p - 1] /\ i + p - 1 \in DOMAIN text
    BY <1>3
  <2> QED
    BY <1>1, <2>1, <2>2 DEF Within
<1> QED
  BY <1>2, <1>3

LEMMA WithinTwice ==
  ASSUME NEW a, NEW b, NEW c, Within(a, b), Within(b, c)
  PROVE  Within(a, c)
BY DEF Within

LEMMA PartEndFacts ==
  ASSUME NEW text \in Seq(Int)
  PROVE  PartEnd(text) \in 0 .. Len(text) /\ (text # <<>> => PartEnd(text) # 0)
<1>1. MessageLimit \in Nat /\ MessageLimit >= 1 /\ Len(text) \in Nat
  BY Bounds
<1>2. CASE Len(text) <= MessageLimit
  <2>1. PartEnd(text) = Len(text)
    BY <1>2 DEF PartEnd
  <2> QED
    BY <1>1, <2>1
<1>3. CASE ~(Len(text) <= MessageLimit)
  <2> DEFINE head == SubSeq(text, 2, MessageLimit)
             nl   == LastIndexOf(head, "nl")
  <2>1. head \in Seq(Int) /\ Len(head) <= MessageLimit - 1
    BY <1>1, <1>3
  <2>2. PartEnd(text) = IF KindOf(text[MessageLimit + 1]) = "nl" \/ nl = 0 THEN MessageLimit ELSE nl
    BY <1>3 DEF PartEnd
  <2> HIDE DEF head
  <2>3. nl \in 0 .. Len(head) /\ Len(head) \in Nat
    BY <2>1, LastIndexFacts
  <2> HIDE DEF nl
  <2> QED
    BY <1>1, <1>3, <2>1, <2>2, <2>3
<1> QED
  BY <1>2, <1>3

LEMMA NextPartFacts ==
  ASSUME NEW text \in Seq(Int), NEW end \in 0 .. Len(text)
  PROVE  Within(NextPart(text, end), text)
<1> DEFINE words == {i \in end + 1 .. Len(text) : KindOf(text[i]) # "nl"}
           x     == CHOOSE i \in words : \A j \in words : i <= j
<1>1. NextPart(text, end) = IF words = {} THEN <<>> ELSE SubSeq(text, x, Len(text))
  BY DEF NextPart
<1>2. words \in SUBSET Nat /\ words \subseteq end + 1 .. Len(text)
  OBVIOUS
<1> HIDE DEF words
<1>3. CASE words = {}
  BY <1>1, <1>3, Empties DEF Within
<1>4. CASE words # {}
  <2>1. x \in words
    BY <1>2, <1>4, Least
  <2> HIDE DEF x
  <2>3. x \in end + 1 .. Len(text) /\ end \in Nat /\ Len(text) \in Nat
    BY <1>2, <2>1
  <2>2. x \in Nat \ {0} /\ Len(text) \in 0 .. Len(text)
    BY <2>3
  <2> QED
    BY <1>1, <1>4, <2>2, WithinCut
<1> QED
  BY <1>3, <1>4

(* One part, and what is left *)
TearOff(rest) ==
  [part |-> SubSeq(rest, 1, PartEnd(rest)),
   rest |-> IF PartEnd(rest) = Len(rest) THEN <<>> ELSE NextPart(rest, PartEnd(rest))]

Tears(a, text) ==
  a = [k \in 0 .. Len(text) |->
        LET rest == IF k = 0 THEN text ELSE a[k - 1].rest
            end  == PartEnd(rest)
        IN  [part |-> SubSeq(rest, 1, end),
             rest |-> IF end = Len(rest) THEN <<>> ELSE NextPart(rest, end)]]

LEMMA TearsOne ==
  ASSUME NEW a, NEW text
  PROVE  Tears(a, text) <=>
           a = [k \in 0 .. Len(text) |-> IF k = 0 THEN TearOff(text) ELSE TearOff(a[k - 1].rest)]
<1> DEFINE f == [k \in 0 .. Len(text) |->
                  LET rest == IF k = 0 THEN text ELSE a[k - 1].rest
                      end  == PartEnd(rest)
                  IN  [part |-> SubSeq(rest, 1, end),
                       rest |-> IF end = Len(rest) THEN <<>> ELSE NextPart(rest, end)]]
           g == [k \in 0 .. Len(text) |-> IF k = 0 THEN TearOff(text) ELSE TearOff(a[k - 1].rest)]
<1>1. \A k \in 0 .. Len(text) : f[k] = g[k]
  BY DEF TearOff
<1>2. f = [k \in 0 .. Len(text) |-> f[k]] /\ g = [k \in 0 .. Len(text) |-> g[k]]
  OBVIOUS
<1>3. Tears(a, text) <=> a = f
  BY DEF Tears
<1> HIDE DEF f
<1> QED
  BY <1>1, <1>2, <1>3

LEMMA TearsExists ==
  ASSUME NEW text \in Seq(Int)
  PROVE  \E a : Tears(a, text)
<1> DEFINE Up(a, n) == a = [k \in 0 .. n |-> IF k = 0 THEN TearOff(text) ELSE TearOff(a[k - 1].rest)]
           Holds == {n \in Nat : n <= Len(text) => \E a : Up(a, n)}
<1>1. 0 \in Holds
  <2> DEFINE a == [k \in 0 .. 0 |-> TearOff(text)]
  <2>1. Up(a, 0)
    OBVIOUS
  <2> HIDE DEF a, Up
  <2> QED
    BY <2>1
<1>2. ASSUME NEW n \in Nat, n \in Holds PROVE n + 1 \in Holds
  <2> HIDE DEF Up
  <2> SUFFICES ASSUME n + 1 <= Len(text) PROVE \E b : Up(b, n + 1)
    OBVIOUS
  <2> USE DEF Up
  <2>1. PICK a : Up(a, n)
    <3> HIDE DEF Up
    <3> QED
      BY <1>2
  <2>2. a = [k \in 0 .. n |-> IF k = 0 THEN TearOff(text) ELSE TearOff(a[k - 1].rest)]
    BY <2>1
  <2> DEFINE b == [k \in 0 .. n + 1 |-> IF k <= n THEN a[k] ELSE TearOff(a[n].rest)]
             c == [k \in 0 .. n + 1 |-> IF k = 0 THEN TearOff(text) ELSE TearOff(b[k - 1].rest)]
  <2>3. ASSUME NEW k \in 0 .. n + 1
        PROVE  b[k] = IF k = 0 THEN TearOff(text) ELSE TearOff(b[k - 1].rest)
    <3>1. CASE k = 0
      BY <2>2, <3>1
    <3>2. CASE k # 0 /\ k <= n
      <4>1. k \in 0 .. n /\ k - 1 \in 0 .. n /\ k - 1 <= n /\ k - 1 \in 0 .. n + 1
        BY <3>2
      <4>2. b[k] = a[k] /\ b[k - 1] = a[k - 1]
        BY <3>2, <4>1
      <4>3. a[k] = TearOff(a[k - 1].rest)
        BY <2>2, <3>2, <4>1
      <4> QED
        BY <3>2, <4>2, <4>3
    <3>3. CASE k = n + 1
      <4>1. b[k] = TearOff(a[n].rest) /\ b[k - 1] = a[n] /\ k # 0
        BY <3>3
      <4> QED
        BY <4>1
    <3> QED
      BY <3>1, <3>2, <3>3
  <2>4. b = c
    <3>1. \A k \in 0 .. n + 1 : b[k] = c[k]
      BY <2>3
    <3>2. DOMAIN b = 0 .. n + 1 /\ DOMAIN c = 0 .. n + 1 /\ b = [k \in 0 .. n + 1 |-> b[k]] /\ c = [k \in 0 .. n + 1 |-> c[k]]
      OBVIOUS
    <3> HIDE DEF b, c
    <3> QED
      BY <3>1, <3>2
  <2>5. Up(b, n + 1)
    BY <2>4
  <2> HIDE DEF b, Up
  <2> QED
    BY <2>5
<1>3. Holds \in SUBSET Nat
  OBVIOUS
<1> HIDE DEF Holds
<1>4. Holds = Nat
  BY <1>1, <1>2, <1>3, Induct
<1>5. Len(text) \in Holds /\ Len(text) \in Nat
  BY <1>4
<1>6. PICK a : Up(a, Len(text))
  BY <1>5 DEF Holds
<1> QED
  BY <1>6, TearsOne

LEMMA PartsTears ==
  ASSUME NEW text \in Seq(Int)
  PROVE  \E a : LET count == IF a[0].rest = <<>> THEN 1
                             ELSE 1 + Cardinality({k \in 1 .. Len(text) : a[k].part # <<>>})
                IN  Tears(a, text) /\ Parts(text) = [k \in 1 .. count |-> a[k - 1].part]
<1> DEFINE a == CHOOSE x : Tears(x, text)
<1>1. Tears(a, text)
  BY TearsExists
<1> DEFINE count == IF a[0].rest = <<>> THEN 1
                    ELSE 1 + Cardinality({k \in 1 .. Len(text) : a[k].part # <<>>})
<1>3. Parts(text) = [k \in 1 .. count |-> a[k - 1].part]
  BY DEF Parts, Tears
<1> HIDE DEF a
<1> QED
  BY <1>1, <1>3

LEMMA TearsWithin ==
  ASSUME NEW text \in Seq(Int), NEW a, Tears(a, text)
  PROVE  \A k \in 0 .. Len(text) : Within(a[k].part, text) /\ Within(a[k].rest, text)
<1>1. a = [k \in 0 .. Len(text) |-> IF k = 0 THEN TearOff(text) ELSE TearOff(a[k - 1].rest)]
  BY TearsOne
<1>2. ASSUME NEW rest, Within(rest, text)
      PROVE  Within(TearOff(rest).part, text) /\ Within(TearOff(rest).rest, text)
  <2>1. rest \in Seq(Int)
    BY <1>2 DEF Within
  <2>2. PartEnd(rest) \in 0 .. Len(rest)
    BY <2>1, PartEndFacts
  <2>3. Within(SubSeq(rest, 1, PartEnd(rest)), rest)
    BY <2>1, <2>2, WithinCut
  <2>4. Within(NextPart(rest, PartEnd(rest)), rest)
    BY <2>1, <2>2, NextPartFacts
  <2>5. Within(<<>>, text)
    BY Empties DEF Within
  <2>6. TearOff(rest).part = SubSeq(rest, 1, PartEnd(rest))
        /\ TearOff(rest).rest \in {<<>>, NextPart(rest, PartEnd(rest))}
    BY DEF TearOff
  <2> QED
    BY <1>2, <2>3, <2>4, <2>5, <2>6, WithinTwice
<1> DEFINE Holds == {n \in Nat : n <= Len(text) => Within(a[n].part, text) /\ Within(a[n].rest, text)}
<1>3. 0 \in Holds
  <2>1. Within(text, text)
    BY DEF Within
  <2>2. a[0] = TearOff(text)
    BY <1>1
  <2> QED
    BY <1>2, <2>1, <2>2
<1>4. ASSUME NEW n \in Nat, n \in Holds PROVE n + 1 \in Holds
  <2> SUFFICES ASSUME n + 1 <= Len(text)
               PROVE  Within(a[n + 1].part, text) /\ Within(a[n + 1].rest, text)
    OBVIOUS
  <2>1. Within(a[n].rest, text)
    BY <1>4
  <2>2. n + 1 \in 0 .. Len(text) /\ n + 1 # 0 /\ (n + 1) - 1 = n
    OBVIOUS
  <2>3. a[n + 1] = TearOff(a[n].rest)
    BY <1>1, <2>2
  <2> QED
    BY <1>2, <2>1, <2>3
<1>5. Holds \in SUBSET Nat
  OBVIOUS
<1> HIDE DEF Holds
<1>6. Holds = Nat
  BY <1>3, <1>4, <1>5, Induct
<1> QED
  BY <1>6 DEF Holds

LEMMA PartsFacts ==
  ASSUME NEW text \in Seq(Int)
  PROVE  /\ Len(Parts(text)) \in Nat /\ Len(Parts(text)) >= 1
         /\ \A i \in 1 .. Len(Parts(text)) : Within(Parts(text)[i], text)
<1>1. PICK a : LET count == IF a[0].rest = <<>> THEN 1
                            ELSE 1 + Cardinality({k \in 1 .. Len(text) : a[k].part # <<>>})
               IN  Tears(a, text) /\ Parts(text) = [k \in 1 .. count |-> a[k - 1].part]
  BY PartsTears
<1> DEFINE some  == {k \in 1 .. Len(text) : a[k].part # <<>>}
           count == IF a[0].rest = <<>> THEN 1 ELSE 1 + Cardinality(some)
<1>2. Tears(a, text) /\ Parts(text) = [k \in 1 .. count |-> a[k - 1].part]
  BY <1>1
<1>3. count \in Nat /\ count >= 1 /\ count <= Len(text) + 1
  <2>1. IsFiniteSet(1 .. Len(text)) /\ Cardinality(1 .. Len(text)) = Len(text)
    <3> DEFINE l == Len(text)
    <3>1. l \in Nat /\ l \in Int /\ 1 \in Int
      OBVIOUS
    <3> HIDE DEF l
    <3>2. IsFiniteSet(1 .. l) /\ Cardinality(1 .. l) = IF 1 > l THEN 0 ELSE l - 1 + 1
      BY <3>1, FS_Interval
    <3>3. IsFiniteSet(1 .. l) /\ Cardinality(1 .. l) = l
      BY <3>1, <3>2
    <3> QED
      BY <3>3 DEF l
  <2>2. IsFiniteSet(some) /\ Cardinality(some) <= Cardinality(1 .. Len(text))
    <3>1. some \in SUBSET (1 .. Len(text))
      OBVIOUS
    <3> QED
      BY <2>1, <3>1, FS_Subset
  <2>3. Cardinality(some) \in Nat
    BY <2>2, FS_CardinalityType
  <2> HIDE DEF some
  <2>4. Len(text) \in Nat
    OBVIOUS
  <2> QED
    BY <2>1, <2>2, <2>3, <2>4
<1> HIDE DEF count
<1>4. Len(Parts(text)) = count
  BY <1>2, <1>3
<1>5. \A i \in 1 .. count : Parts(text)[i] = a[i - 1].part /\ i - 1 \in 0 .. Len(text)
  BY <1>2, <1>3
<1> QED
  BY <1>2, <1>3, <1>4, <1>5, TearsWithin

(* The lists, what waits, and the part being posted *)
Steady(w) ==
  /\ w.r.open \in 0 .. Len(w.r.beats)
  /\ w.j.then # "read" => w.r.pending = <<>>
  /\ w.j.part # 0 => w.j.part <= Len(Parts(w.r.all))

ToolRecs == [at : {"idle", "asked", "direct", "told", "refused"}, after : Nat]

Typed ==
  /\ script \in Scripts /\ hosts \in BOOLEAN /\ said \in 0 .. Len(script)
  /\ beatOf \in [Tasks -> Reported]
  /\ tool \in [Tools -> ToolRecs]
  /\ asked \in Seq(Tools)

IInv == Typed /\ Good(hosts, World, said, tool) /\ Steady(World)

LEMMA BecomesWorld ==
  ASSUME NEW w \in Worlds, Becomes(w)
  PROVE  World' \in Worlds /\ World'.th = w.th /\ World'.r = w.r /\ World'.j = w.j /\ World'.f = w.f
<1>1. World' = [th |-> w.th, r |-> w.r, j |-> w.j, f |-> w.f, said |-> "ok"]
  BY DEF Becomes, World
<1>2. w.th \in Thread /\ w.r \in Fields /\ w.j \in Jobs /\ w.f \in FaultsSet
  BY WorldParts
<1> QED
  BY <1>1, <1>2 DEF Worlds, Sayings

LEMMA BecomesSound ==
  ASSUME NEW w, Good(hosts', w, said', tool'), Steady(w), Becomes(w), script' = script
  PROVE  Good(hosts, World, said, tool)' /\ Steady(World)'
<1>1. w \in Worlds
  BY DEF Good, Fitting
<1>2. World' \in Worlds /\ World'.th = w.th /\ World'.r = w.r /\ World'.j = w.j /\ World'.f = w.f
  BY <1>1, BecomesWorld
<1>3. Good(hosts', World', said', tool')
  BY <1>2, GoodSame
<1>4. Good(hosts, World, said, tool)'
  BY <1>3
<1>5. reply' = w.r /\ job' = w.j
  BY DEF Becomes
<1>6. Parts(reply.all)' = Parts(w.r.all)
  BY <1>5 DEF Parts, PartEnd, NextPart, LastIndexOf, KindOf
<1>7. Steady(World)' <=>
        /\ reply'.open \in 0 .. Len(reply'.beats)
        /\ job'.then # "read" => reply'.pending = <<>>
        /\ job'.part # 0 => job'.part <= Len(Parts(reply.all)')
  BY DEF Steady, World
<1>8. Steady(World)'
  BY <1>5, <1>6, <1>7 DEF Steady
<1> QED
  BY <1>4, <1>8

LEMMA WorldIs ==
  /\ World.th = thread /\ World.r = reply /\ World.j = job /\ World.f = faults
BY DEF World

LEMMA InvFacts ==
  ASSUME IInv
  PROVE  /\ World \in Worlds /\ thread \in Thread /\ reply \in Fields /\ job \in Jobs
         /\ faults \in FaultsSet
         /\ Fitting(hosts, World) /\ Counted(World, said) /\ Shaped(World)
<1>1. World \in Worlds /\ Fitting(hosts, World) /\ Counted(World, said) /\ Shaped(World)
  BY DEF IInv, Good, Fitting
<1>2. World.th \in Thread /\ World.r \in Fields /\ World.j \in Jobs /\ World.f \in FaultsSet
  BY <1>1, WorldParts
<1> QED
  BY <1>1, <1>2, WorldIs

(* What the task that owns the reply goes on to *)
GoingOn(w, then) == WithJ(w, [w.j EXCEPT !.then = then])

LEMMA GoingOnFacts ==
  ASSUME NEW w \in Worlds, NEW then \in Stages \cup Tasks \cup Tools
  PROVE  LET v == GoingOn(w, then)
         IN  /\ v \in Worlds /\ v.th = w.th /\ v.r = w.r /\ v.f = w.f
             /\ v.j.rest = w.j.rest /\ v.j.part = w.j.part /\ v.j.then = then
<1> DEFINE g == [w.j EXCEPT !.then = then]
<1>1. w.j \in Jobs
  BY WorldParts
<1>2. g \in Jobs /\ g.rest = w.j.rest /\ g.part = w.j.part /\ g.then = then
  BY <1>1 DEF Jobs
<1> HIDE DEF g
<1>3. /\ WithJ(w, g) \in Worlds /\ WithJ(w, g).th = w.th /\ WithJ(w, g).j = g
      /\ WithJ(w, g).r = w.r /\ WithJ(w, g).f = w.f
  BY <1>2, WithJFacts
<1>4. GoingOn(w, then) = WithJ(w, g)
  BY DEF GoingOn, g
<1> QED
  BY <1>2, <1>3, <1>4

LEMMA GoodGoesOn ==
  ASSUME NEW h, NEW w, NEW top, NEW tl, Good(h, w, top, tl),
         NEW then \in Stages \cup Tasks \cup Tools, w.j.then # "over",
         then = "over" => w.j.rest = <<>> /\ w.j.part = 0
  PROVE  Good(h, GoingOn(w, then), top, tl)
<1> DEFINE v == GoingOn(w, then)
<1>1. w \in Worlds
  BY DEF Good, Fitting
<1>2. /\ v \in Worlds /\ v.th = w.th /\ v.r = w.r /\ v.f = w.f
      /\ v.j.rest = w.j.rest /\ v.j.part = w.j.part /\ v.j.then = then
  BY <1>1, GoingOnFacts
<1> HIDE DEF v
<1>3. Fitting(h, v)
  BY <1>2 DEF Good, Fitting
<1>4. w.th \in Thread /\ w.f \in FaultsSet
  BY <1>1, WorldParts
<1>5. Quiet(w.th, v.th) /\ v.f.count >= w.f.count
  BY <1>2, <1>4, QuietSame, Bounds DEF FaultsSet
<1>6. Moves(h, w, v)
  BY <1>2, <1>3, <1>5 DEF Moves, MovesOn
<1>7. Good(h, v, top, tl)
  BY <1>6, GoodMoves
<1> QED
  BY <1>7 DEF v

(* What waits is written, in part, and the task goes on. *)
LEMMA WritesSound ==
  ASSUME NEW r \in Fields, World \in Worlds, NEW tl, NEW top,
         NEW then \in Stages \cup Tasks \cup Tools, then # "over",
         Good(hosts, WithR(World, r), top, tl),
         At("read"), r.open \in 0 .. Len(r.beats),
         NEW cut \in 0 .. Len(r.pending), then # "read" => cut = Len(r.pending),
         NEW w \in Emit([World EXCEPT !.r = r, !.j.then = then], cut)
  PROVE  Good(hosts, w, top, tl) /\ Steady(w)
<1> DEFINE x == WithR(World, r)
           y == GoingOn(x, then)
<1>1. /\ x \in Worlds /\ x.th = thread /\ x.r = r /\ x.j = job /\ x.f = faults
  BY WithRFacts, WorldIs
<1>2. job.then = "read" /\ job.rest = <<>> /\ job.part = 0
  BY DEF At
<1>3. y = [World EXCEPT !.r = r, !.j.then = then]
  BY DEF GoingOn, WithR, WithJ, World
<1> HIDE DEF x
<1>4. Good(hosts, x, top, tl)
  BY DEF x
<1>5. /\ y \in Worlds /\ y.th = thread /\ y.r = r /\ y.f = faults
      /\ y.j.rest = <<>> /\ y.j.part = 0 /\ y.j.then = then
  BY <1>1, <1>2, GoingOnFacts
<1>6. Good(hosts, y, top, tl)
  BY <1>1, <1>2, <1>4, GoodGoesOn
<1>7. w \in Emit(y, cut)
  BY <1>3
<1> HIDE DEF y
<1>8. cut \in 0 .. Len(y.r.pending) /\ Fitting(hosts, y)
  BY <1>5, <1>6 DEF Good
<1>9. Good(hosts, w, top, tl) /\ w.j.then = y.j.then
  BY <1>5, <1>6, <1>7, <1>8, GoodEmit
<1>10. /\ w.r.beats = y.r.beats /\ w.r.open \in {y.r.open, 0}
       /\ cut = Len(y.r.pending) => w.r.pending = <<>>
       /\ (w.j.part = y.j.part /\ w.r.all = y.r.all) \/ w.j.part = 1
  BY <1>7, <1>8, EmitStays
<1>11. w.j.part # 0 => w.j.part <= Len(Parts(w.r.all))
  <2>1. w.j.part = 0 \/ w.j.part = 1
    BY <1>5, <1>10
  <2>2. w \in Worlds
    BY <1>9 DEF Good, Fitting
  <2>3. w.r \in Fields
    BY <2>2, WorldParts
  <2>4. w.r.all \in Seq(Int)
    BY <2>3 DEF Fields
  <2>5. Len(Parts(w.r.all)) \in Nat /\ Len(Parts(w.r.all)) >= 1
    BY <2>4, PartsFacts
  <2> QED
    BY <2>1, <2>5
<1>12. w.r.open \in 0 .. Len(w.r.beats)
  <2>1. r.open \in 0 .. Len(r.beats) /\ r.beats \in Seq(Beats)
    BY DEF Fields
  <2> QED
    BY <1>5, <1>10, <2>1
<1>13. w.j.then # "read" => w.r.pending = <<>>
  BY <1>5, <1>9, <1>10
<1> QED
  BY <1>9, <1>11, <1>12, <1>13 DEF Steady

LEMMA WordCutsFacts ==
  ASSUME NEW text \in Seq(Int)
  PROVE  WordCuts(text) \subseteq 0 .. Len(text)
<1>1. Len(text) \in Nat
  OBVIOUS
<1> QED
  BY <1>1 DEF WordCuts

LEMMA CutsFacts ==
  ASSUME NEW r \in Fields
  PROVE  Cuts(r) \subseteq 0 .. Len(r.pending)
<1> DEFINE p  == r.pending
           nl == LastIndexOf(p, "nl")
<1>1. p \in Seq(Int)
  BY DEF Fields
<1> HIDE DEF p
<1>2. nl \in 0 .. Len(p) /\ WordCuts(p) \subseteq 0 .. Len(p) /\ Len(p) \in Nat
  BY <1>1, LastIndexFacts, WordCutsFacts
<1> HIDE DEF nl
<1>3. Cuts(r) \subseteq {Len(p), nl, 0} \cup WordCuts(p)
  BY DEF Cuts, p, nl
<1>4. {Len(p), nl, 0} \cup WordCuts(p) \subseteq 0 .. Len(p)
  BY <1>2
<1> QED
  BY <1>3, <1>4 DEF p

LEMMA InvReads ==
  ASSUME IInv, At("read")
  PROVE  /\ World \in Worlds /\ reply \in Fields /\ reply.open \in 0 .. Len(reply.beats)
         /\ WithR(World, reply) = World /\ Good(hosts, WithR(World, reply), said, tool)
         /\ reply.pending \in Seq(Int) /\ Len(reply.pending) \in 0 .. Len(reply.pending)
<1>1. World \in Worlds /\ reply \in Fields
  BY InvFacts
<1>2. reply.open \in 0 .. Len(reply.beats)
  BY WorldIs DEF IInv, Steady
<1>3. WithR(World, reply) = World
  BY DEF WithR, World
<1>4. reply.pending \in Seq(Int)
  BY <1>1 DEF Fields
<1>5. Len(reply.pending) \in 0 .. Len(reply.pending)
  BY <1>4
<1> QED
  BY <1>1, <1>2, <1>3, <1>4, <1>5 DEF IInv

LEMMA SaysSound ==
  ASSUME IInv, NEW n \in 1 .. Len(script), Says(n)
  PROVE  IInv'
<1> DEFINE q == reply.pending \o [i \in 1 .. n |-> said + i]
           r == [reply EXCEPT !.pending = q]
<1>1. At("read") /\ said' = said + n /\ said + n <= Len(script)
      /\ script' = script /\ hosts' = hosts /\ beatOf' = beatOf /\ tool' = tool /\ asked' = asked
  BY DEF Says, Idle
<1>2. PICK cut \in Cuts(r) : \E w \in Emit([World EXCEPT !.r = r, !.j.then = "read"], cut) : Becomes(w)
  BY DEF Says, Writes
<1>3. PICK w \in Emit([World EXCEPT !.r = r, !.j.then = "read"], cut) : Becomes(w)
  BY <1>2
<1>4. /\ World \in Worlds /\ reply \in Fields /\ reply.open \in 0 .. Len(reply.beats)
      /\ Good(hosts, World, said, tool)
  BY <1>1, InvReads DEF IInv
<1>5. n \in Nat /\ said \in Nat /\ job.rest = <<>> /\ job.then = "read"
  BY <1>1 DEF IInv, Typed, At
<1>6. q \in Seq(Int) /\ Good(hosts, Waiting(World, q), said + n, tool)
  <2>1. World.j.rest = <<>> /\ World.j.then = "read" /\ World.r.pending = reply.pending
    BY <1>5, WorldIs
  <2>2. /\ World.r.pending \o [i \in 1 .. n |-> said + i] \in Seq(Int)
        /\ Good(hosts, Waiting(World, World.r.pending \o [i \in 1 .. n |-> said + i]), said + n, tool)
    BY <1>4, <1>5, <2>1, GoodMore
  <2> QED
    BY <2>1, <2>2
<1>7. r \in Fields /\ r.open = reply.open /\ r.beats = reply.beats
  BY <1>4, <1>6 DEF Fields
<1>8. Waiting(World, q) = WithR(World, r)
  BY WorldIs DEF Waiting
<1> HIDE DEF q, r
<1>9. cut \in 0 .. Len(r.pending)
  BY <1>2, <1>7, CutsFacts
<1>10. Good(hosts, WithR(World, r), said + n, tool) /\ r.open \in 0 .. Len(r.beats)
  BY <1>4, <1>6, <1>7, <1>8
<1>11. "read" \in Stages \cup Tasks \cup Tools
  BY DEF Stages
<1>12. Good(hosts, w, said + n, tool) /\ Steady(w)
  BY <1>1, <1>3, <1>4, <1>7, <1>9, <1>10, <1>11, WritesSound
<1>13. Good(hosts, World, said, tool)' /\ Steady(World)'
  BY <1>1, <1>3, <1>12, BecomesSound
<1>14. Typed'
  <2>1. said + n \in 0 .. Len(script)
    BY <1>1, <1>5
  <2> QED
    BY <1>1, <2>1 DEF IInv, Typed
<1> QED
  BY <1>13, <1>14 DEF IInv

(* Any other step that writes what waits *)
LEMMA WritingSound ==
  ASSUME IInv, At("read"), NEW then \in Stages \cup Tasks \cup Tools, then # "over",
         NEW cut \in 0 .. Len(reply.pending), then # "read" => cut = Len(reply.pending),
         Writes(reply, cut, then),
         script' = script, hosts' = hosts, said' = said, tool' = tool, Typed'
  PROVE  IInv'
<1>1. PICK w \in Emit([World EXCEPT !.r = reply, !.j.then = then], cut) : Becomes(w)
  BY DEF Writes
<1>2. /\ World \in Worlds /\ reply \in Fields /\ reply.open \in 0 .. Len(reply.beats)
      /\ Good(hosts, WithR(World, reply), said, tool)
  BY InvReads
<1>3. Good(hosts, w, said, tool) /\ Steady(w)
  BY <1>1, <1>2, WritesSound
<1>4. Good(hosts, World, said, tool)' /\ Steady(World)'
  BY <1>1, <1>3, BecomesSound
<1> QED
  BY <1>4 DEF IInv

LEMMA FlushSound ==
  ASSUME IInv, FlushDue
  PROVE  IInv'
<1>1. PICK cut \in WordCuts(reply.pending) : Writes(reply, cut, "read")
  BY DEF FlushDue
<1>2. At("read") /\ script' = script /\ hosts' = hosts /\ said' = said /\ tool' = tool
      /\ beatOf' = beatOf /\ asked' = asked
  BY DEF FlushDue, Idle
<1>3. cut \in 0 .. Len(reply.pending)
  <2>1. reply.pending \in Seq(Int)
    BY <1>2, InvReads
  <2> QED
    BY <1>1, <2>1, WordCutsFacts
<1>4. Typed'
  BY <1>2 DEF IInv, Typed
<1>5. "read" \in Stages \cup Tasks \cup Tools
  BY DEF Stages
<1> QED
  BY <1>1, <1>2, <1>3, <1>4, <1>5, WritingSound

LEMMA ReportsSound ==
  ASSUME IInv, NEW t \in Tasks, NEW status \in Statuses, Reports(t, status)
  PROVE  IInv'
<1> DEFINE then == IF reply.mode = "streaming" THEN t ELSE "break"
           cut  == Len(reply.pending)
<1>1. /\ At("read") /\ Writes(reply, cut, then) /\ beatOf' = [beatOf EXCEPT ![t] = status]
      /\ script' = script /\ hosts' = hosts /\ said' = said /\ tool' = tool /\ asked' = asked
  BY DEF Reports, Idle
<1>2. then \in Stages \cup Tasks \cup Tools /\ then # "over" /\ then # "read"
  BY NamesAssumption DEF Stages
<1>3. cut \in 0 .. Len(reply.pending)
  BY <1>1, InvReads
<1>4. Typed'
  BY <1>1 DEF IInv, Typed, Reported
<1> HIDE DEF then
<1>5. then # "read" => cut = Len(reply.pending)
  OBVIOUS
<1> HIDE DEF cut
<1> QED
  BY <1>1, <1>2, <1>3, <1>4, <1>5, WritingSound

LEMMA TakesSound ==
  ASSUME IInv, Takes
  PROVE  IInv'
<1> DEFINE then == Head(asked)
           cut  == Len(reply.pending)
<1>1. /\ At("read") /\ Writes(reply, cut, then) /\ asked # <<>> /\ asked' = Tail(asked)
      /\ script' = script /\ hosts' = hosts /\ said' = said /\ tool' = tool /\ beatOf' = beatOf
  BY DEF Takes, Idle
<1>2. asked \in Seq(Tools)
  BY DEF IInv, Typed
<1>3. then \in Tools /\ Tail(asked) \in Seq(Tools)
  BY <1>1, <1>2
<1>4. then \in Stages \cup Tasks \cup Tools /\ then # "over" /\ then # "read"
  BY <1>3, NamesAssumption DEF Stages
<1>5. cut \in 0 .. Len(reply.pending)
  BY <1>1, InvReads
<1>6. Typed'
  BY <1>1, <1>3 DEF IInv, Typed
<1> HIDE DEF then
<1>7. then # "read" => cut = Len(reply.pending)
  OBVIOUS
<1> HIDE DEF cut
<1> QED
  BY <1>1, <1>4, <1>5, <1>6, <1>7, WritingSound

LEMMA EndsSound ==
  ASSUME IInv, StreamEnds
  PROVE  IInv'
<1> DEFINE cut  == Len(reply.pending)
<1>1. /\ At("read") /\ Writes(reply, cut, "finish")
      /\ script' = script /\ hosts' = hosts /\ said' = said /\ tool' = tool /\ beatOf' = beatOf
      /\ asked' = asked
  BY DEF StreamEnds, Idle
<1>2. "finish" \in Stages \cup Tasks \cup Tools
  BY DEF Stages
<1>3. cut \in 0 .. Len(reply.pending)
  BY <1>1, InvReads
<1>4. Typed'
  BY <1>1 DEF IInv, Typed
<1>5. "finish" # "read" => cut = Len(reply.pending)
  OBVIOUS
<1> HIDE DEF cut
<1> QED
  BY <1>1, <1>2, <1>3, <1>4, <1>5, WritingSound

(* Steps that write nothing *)
LEMMA MovesSound ==
  ASSUME IInv, NEW w, Moves(hosts, World, w), Steady(w), Becomes(w),
         script' = script, hosts' = hosts, said' = said, Typed',
         \A k \in Tools : tool'[k].at = "told" => tool'[k] = tool[k]
  PROVE  IInv'
<1>1. Good(hosts, w, said, tool)
  BY GoodMoves DEF IInv
<1>2. Good(hosts, w, said, tool')
  BY <1>1, GoodTools
<1>3. Good(hosts, World, said, tool)' /\ Steady(World)'
  BY <1>2, BecomesSound
<1> QED
  BY <1>3 DEF IInv

LEMMA AsksSound ==
  ASSUME IInv, NEW k \in Tools, Asks(k)
  PROVE  IInv'
<1>1. /\ script' = script /\ hosts' = hosts /\ said' = said /\ thread' = thread /\ reply' = reply
      /\ job' = job /\ beatOf' = beatOf /\ faults' = faults
  BY DEF Asks
<1>2. tool \in [Tools -> ToolRecs] /\ asked \in Seq(Tools)
  BY DEF IInv, Typed
<1>3. \/ tool' = [tool EXCEPT ![k].at = "direct"] /\ asked' = asked
      \/ tool' = [tool EXCEPT ![k].at = "asked"] /\ asked' = Append(asked, k)
  BY DEF Asks
<1>4. tool' \in [Tools -> ToolRecs] /\ asked' \in Seq(Tools)
  <2>1. tool[k] \in ToolRecs
    BY <1>2
  <2>2. [tool[k] EXCEPT !.at = "direct"] \in ToolRecs /\ [tool[k] EXCEPT !.at = "asked"] \in ToolRecs
    BY <2>1 DEF ToolRecs
  <2>3. \/ tool' = [tool EXCEPT ![k] = [tool[k] EXCEPT !.at = "direct"]]
        \/ tool' = [tool EXCEPT ![k] = [tool[k] EXCEPT !.at = "asked"]]
    BY <1>3
  <2>4. tool' \in [Tools -> ToolRecs]
    BY <1>2, <2>2, <2>3
  <2>5. asked' \in Seq(Tools)
    BY <1>2, <1>3
  <2> QED
    BY <2>4, <2>5
<1>5. \A j \in Tools : tool'[j].at = "told" => tool'[j] = tool[j]
  BY <1>2, <1>3 DEF ToolRecs
<1>6. Typed'
  BY <1>1, <1>4 DEF IInv, Typed
<1>7. Good(hosts, World, said, tool')
  BY <1>5, GoodTools DEF IInv
<1>8. Becomes(World)
  BY <1>1, WorldIs DEF Becomes
<1>9. Good(hosts, World, said, tool)' /\ Steady(World)'
  BY <1>1, <1>7, <1>8, BecomesSound DEF IInv
<1> QED
  BY <1>6, <1>9 DEF IInv

LEMMA ReadingTyped ==
  Reading \in Jobs /\ Reading.rest = <<>> /\ Reading.part = 0 /\ Reading.then = "read"
BY Empties DEF Reading, Jobs, Stages

(* Nothing but the thread's quiet messages, or what is done next, differs. *)
LEMMA PlainMoves ==
  ASSUME NEW h, NEW w, Fitting(h, w), Shaped(w), NEW v \in Worlds,
         Quiet(w.th, v.th), v.f.count \in Nat, v.f.count >= w.f.count, v.f.cut = w.f.cut,
         v.j.rest = w.j.rest, v.j.part = w.j.part,
         w.j.then = "over" => v.j.then = "over",
         v.j.then = "over" => w.j.rest = <<>> /\ w.j.part = 0,
         v.r.mode = w.r.mode, v.r.pending = w.r.pending, v.r.all = w.r.all, v.r.posted = w.r.posted,
         v.r.placed = w.r.placed, v.r.at = w.r.at, v.r.spent = w.r.spent
  PROVE  Moves(h, w, v)
<1>1. w \in Worlds
  BY DEF Fitting
<1>2. w.th \in Thread /\ v.th \in Thread /\ w.r \in Fields
  BY <1>1, WorldParts
<1>3. StreamAt(v.th, v.r.at)
  <2>1. StreamAt(w.th, w.r.at) /\ w.r.at \in Nat
    BY <1>2 DEF Fitting, Fields
  <2> QED
    BY <1>2, <2>1, QuietStream
<1>4. Fitting(h, v)
  BY <1>3 DEF Fitting
<1> QED
  BY <1>4 DEF Moves, MovesOn

LEMMA WorldNow ==
  ASSUME IInv
  PROVE  /\ World \in Worlds /\ thread \in Thread /\ reply \in Fields /\ job \in Jobs
         /\ faults \in FaultsSet /\ faults.count \in Nat
         /\ Fitting(hosts, World) /\ Shaped(World) /\ Steady(World)
         /\ World.th = thread /\ World.r = reply /\ World.j = job /\ World.f = faults
         /\ Quiet(thread, thread) /\ Good(hosts, World, said, tool)
         /\ World.said = "ok"
<1>1. /\ World \in Worlds /\ thread \in Thread /\ reply \in Fields /\ job \in Jobs
      /\ faults \in FaultsSet /\ Fitting(hosts, World) /\ Shaped(World)
  BY InvFacts
<1>2. faults.count \in Nat
  BY <1>1, Bounds DEF FaultsSet
<1>3. Quiet(thread, thread)
  BY <1>1, QuietSame
<1>4. World.said = "ok"
  BY DEF World
<1> QED
  BY <1>1, <1>2, <1>3, <1>4, WorldIs DEF IInv

LEMMA BreaksSound ==
  ASSUME IInv, Breaks
  PROVE  IInv'
<1> DEFINE g == [reply EXCEPT !.broken = TRUE]
           x == WithR(World, g)
           w == WithJ(x, Reading)
<1>1. /\ job.then = "break" /\ job.rest = <<>> /\ job.part = 0
      /\ reply' = g /\ job' = Reading /\ thread' = thread /\ faults' = faults
      /\ script' = script /\ hosts' = hosts /\ said' = said /\ tool' = tool /\ beatOf' = beatOf
      /\ asked' = asked
  BY DEF Breaks, At
<1>2. /\ World \in Worlds /\ thread \in Thread /\ reply \in Fields /\ job \in Jobs
      /\ faults \in FaultsSet /\ faults.count \in Nat
      /\ Fitting(hosts, World) /\ Shaped(World) /\ Steady(World)
      /\ World.th = thread /\ World.r = reply /\ World.j = job /\ World.f = faults
      /\ Quiet(thread, thread)
  BY WorldNow
<1>3. /\ g \in Fields /\ g.mode = reply.mode /\ g.pending = reply.pending /\ g.all = reply.all
      /\ g.posted = reply.posted /\ g.placed = reply.placed /\ g.at = reply.at
      /\ g.spent = reply.spent /\ g.open = reply.open /\ g.beats = reply.beats
  BY <1>2 DEF Fields
<1> HIDE DEF g
<1>4. x \in Worlds /\ x.th = thread /\ x.r = g /\ x.f = faults
  BY <1>2, <1>3, WithRFacts
<1> HIDE DEF x
<1>5. w \in Worlds /\ w.th = thread /\ w.r = g /\ w.f = faults /\ w.j = Reading
  BY <1>4, WithJFacts, ReadingTyped
<1> HIDE DEF w
<1>6. Moves(hosts, World, w)
  <2>1. w.f.count >= World.f.count
    BY <1>2, <1>5
  <2> QED
    BY <1>1, <1>2, <1>3, <1>5, <2>1, PlainMoves, ReadingTyped
<1>7. Steady(w)
  BY <1>2, <1>3, <1>5, ReadingTyped DEF Steady
<1>8. Becomes(w)
  BY <1>1, <1>5 DEF Becomes
<1>9. Typed'
  BY <1>1 DEF IInv, Typed
<1>10. \A k \in Tools : tool'[k].at = "told" => tool'[k] = tool[k]
  BY <1>1
<1> QED
  BY <1>1, <1>6, <1>7, <1>8, <1>9, <1>10, MovesSound

LEMMA FinalizesSound ==
  ASSUME IInv, NEW i \in DOMAIN thread, Finalizes(i)
  PROVE  IInv'
<1> DEFINE m == [thread[i] EXCEPT !.state = "finalized"]
           g == [faults EXCEPT !.ends = @ + 1]
           w == [th |-> [thread EXCEPT ![i] = m], r |-> reply, j |-> job, f |-> g, said |-> "ok"]
<1>1. /\ thread' = [thread EXCEPT ![i] = m] /\ faults' = g /\ faults.ends < MaxEnds
      /\ reply' = reply /\ job' = job
      /\ script' = script /\ hosts' = hosts /\ said' = said /\ tool' = tool /\ beatOf' = beatOf
      /\ asked' = asked
  BY DEF Finalizes, Finalized
<1>2. /\ World \in Worlds /\ thread \in Thread /\ reply \in Fields /\ job \in Jobs
      /\ faults \in FaultsSet /\ faults.count \in Nat
      /\ Fitting(hosts, World) /\ Shaped(World) /\ Steady(World)
      /\ World.th = thread /\ World.r = reply /\ World.j = job /\ World.f = faults
      /\ Quiet(thread, thread)
  BY WorldNow
<1>3. thread[i] \in Message
  BY <1>2 DEF Thread
<1>4. m \in Message /\ m.kind = thread[i].kind /\ m.text = thread[i].text
  BY <1>3 DEF Message, States
<1>5. SaidIn(m) = SaidIn(thread[i])
  BY <1>4 DEF SaidIn
<1>6. g \in FaultsSet /\ g.count = faults.count /\ g.cut = faults.cut
  BY <1>1, <1>2, Bounds DEF FaultsSet
<1> HIDE DEF m, g
<1>7. Quiet(thread, [thread EXCEPT ![i] = m])
  BY <1>2, <1>4, <1>5, QuietExcept
<1>8. [thread EXCEPT ![i] = m] \in Thread
  BY <1>2, <1>4 DEF Thread
<1>9. w \in Worlds /\ w.th = [thread EXCEPT ![i] = m] /\ w.r = reply /\ w.j = job /\ w.f = g
  BY <1>2, <1>6, <1>8 DEF Worlds, Sayings
<1> HIDE DEF w
<1>10. Moves(hosts, World, w)
  <2>1. w.f.count \in Nat /\ w.f.count >= World.f.count
    BY <1>2, <1>6, <1>9
  <2>2. job.then = "over" => job.rest = <<>> /\ job.part = 0
    BY <1>2 DEF Shaped
  <2> QED
    BY <1>1, <1>2, <1>6, <1>7, <1>9, <2>1, <2>2, PlainMoves
<1>11. Steady(w)
  BY <1>2, <1>9 DEF Steady
<1>12. Becomes(w)
  BY <1>1, <1>9 DEF Becomes
<1>13. Typed'
  BY <1>1 DEF IInv, Typed
<1>14. \A k \in Tools : tool'[k].at = "told" => tool'[k] = tool[k]
  BY <1>1
<1> QED
  BY <1>1, <1>10, <1>11, <1>12, <1>13, <1>14, MovesSound

LEMMA FinishesSound ==
  ASSUME IInv, Finishes
  PROVE  IInv'
<1> DEFINE over == GoingOn(World, "over")
<1>1. /\ job.then = "finish" /\ job.rest = <<>> /\ job.part = 0
      /\ script' = script /\ hosts' = hosts /\ said' = said /\ beatOf' = beatOf /\ asked' = <<>>
      /\ tool' = [k \in Tools |-> IF tool[k].at = "asked" THEN [tool[k] EXCEPT !.at = "direct"]
                                  ELSE tool[k]]
  BY DEF Finishes, At
<1>2. /\ World \in Worlds /\ thread \in Thread /\ reply \in Fields /\ job \in Jobs
      /\ faults \in FaultsSet /\ faults.count \in Nat
      /\ Fitting(hosts, World) /\ Shaped(World) /\ Steady(World)
      /\ World.th = thread /\ World.r = reply /\ World.j = job /\ World.f = faults
      /\ Quiet(thread, thread)
  BY WorldNow
<1>3. over = [World EXCEPT !.j.then = "over"]
  BY DEF GoingOn, WithJ
<1>4. PICK v \in (IF reply.mode = "streaming" /\ reply.at # 0
                  THEN Called(over, StopStream(thread, reply.at)) ELSE {over}) : Becomes(v)
  BY <1>3 DEF Finishes
<1>5. /\ over \in Worlds /\ over.th = thread /\ over.r = reply /\ over.f = faults
      /\ over.j.rest = <<>> /\ over.j.part = 0 /\ over.j.then = "over"
  <2>1. "over" \in Stages \cup Tasks \cup Tools
    BY DEF Stages
  <2> QED
    BY <1>1, <1>2, <2>1, GoingOnFacts
<1> HIDE DEF over
<1>6. v \in Worlds /\ v.r = reply /\ v.j = over.j /\ Worse(faults, v.f) /\ Quiet(thread, v.th)
  <2>1. CASE reply.mode = "streaming" /\ reply.at # 0
    <3>1. v \in Called(over, StopStream(over.th, reply.at))
      BY <1>4, <1>5, <2>1
    <3>2. reply.at \in DOMAIN over.th
      BY <1>2, <1>5, <2>1 DEF Fitting, StreamAt
    <3>3. /\ v \in Worlds /\ v.r = over.r /\ v.j = over.j /\ Worse(over.f, v.f)
          /\ v.th = over.th \/ v.th = [over.th EXCEPT ![reply.at] = Stopped(over.th[reply.at])]
      BY <1>5, <3>1, <3>2, StopHosted
    <3>4. Quiet(thread, v.th)
      BY <1>2, <1>5, <3>2, <3>3, QuietStop
    <3> QED
      BY <1>5, <3>3, <3>4
  <2>2. CASE ~(reply.mode = "streaming" /\ reply.at # 0)
    BY <1>2, <1>4, <1>5, <2>2, WorseFacts
  <2> QED
    BY <2>1, <2>2
<1>7. v.f.count \in Nat /\ v.f.count >= faults.count /\ v.f.cut = faults.cut
  <2>1. v.f \in FaultsSet
    BY <1>6, WorldParts
  <2> QED
    BY <1>6, <2>1, Bounds DEF Worse, FaultsSet
<1>8. Moves(hosts, World, v)
  BY <1>1, <1>2, <1>5, <1>6, <1>7, PlainMoves
<1>9. Steady(v)
  BY <1>1, <1>2, <1>5, <1>6 DEF Steady
<1>10. /\ tool \in [Tools -> ToolRecs]
       /\ tool' \in [Tools -> ToolRecs]
       /\ \A k \in Tools : tool'[k].at = "told" => tool'[k] = tool[k]
  <2>1. tool \in [Tools -> ToolRecs]
    BY DEF IInv, Typed
  <2>2. ASSUME NEW k \in Tools
        PROVE  tool'[k] \in ToolRecs /\ (tool'[k].at = "told" => tool'[k] = tool[k])
    <3>1. tool[k] \in ToolRecs
      BY <2>1
    <3>2. [tool[k] EXCEPT !.at = "direct"] \in ToolRecs /\ [tool[k] EXCEPT !.at = "direct"].at = "direct"
      BY <3>1 DEF ToolRecs
    <3>3. tool'[k] = [tool[k] EXCEPT !.at = "direct"] \/ tool'[k] = tool[k]
      BY <1>1
    <3> QED
      BY <3>1, <3>2, <3>3
  <2>3. tool' = [k \in Tools |-> tool'[k]]
    BY <1>1
  <2> QED
    BY <2>1, <2>2, <2>3
<1>11. Typed'
  BY <1>1, <1>10 DEF IInv, Typed
<1> QED
  BY <1>1, <1>4, <1>8, <1>9, <1>10, <1>11, MovesSound

LEMMA RolledGood ==
  ASSUME NEW w, NEW top, NEW tl, Good(hosts, w, top, tl), NEW v \in Rollover(w)
  PROVE  Good(hosts, v, top, tl) /\ Keeps(w, v) /\ v.j = w.j /\ v.r.all = w.r.all
<1>1. CASE w.r.mode # "streaming"
  <2>1. v = w
    BY <1>1 DEF Rollover
  <2> QED
    BY <2>1 DEF Keeps
<1>2. CASE w.r.mode = "streaming"
  <2>1. Fitting(hosts, w) /\ Shaped(w)
    BY DEF Good
  <2>2. /\ Fitting(hosts, v) /\ SameWords(w.r, v.r) /\ v.j = w.j /\ Worse(w.f, v.f)
        /\ Quiet(w.th, v.th)
        /\ v.r.at = 0 \/ v.r.at > Len(w.th)
        /\ w.r.at = 0 => v = w
    BY <1>2, <2>1, RolloverFits
  <2>3. w.j.then = "over" => w.j.rest = <<>> /\ w.j.part = 0
    BY <2>1 DEF Shaped
  <2>4. Moves(hosts, w, v)
    BY <2>2, <2>3 DEF Moves, MovesOn, SameWords, Worse
  <2>5. Good(hosts, v, top, tl)
    BY <2>4, GoodMoves
  <2> QED
    BY <2>2, <2>5 DEF Keeps, SameWords
<1> QED
  BY <1>1, <1>2

LEMMA FirstPart ==
  ASSUME NEW w \in Worlds, w.j.part \in {0, 1}
  PROVE  w.j.part # 0 => w.j.part <= Len(Parts(w.r.all))
<1>1. w.r \in Fields
  BY WorldParts
<1>2. w.r.all \in Seq(Int)
  BY <1>1 DEF Fields
<1>3. Len(Parts(w.r.all)) \in Nat /\ Len(Parts(w.r.all)) >= 1
  BY <1>2, PartsFacts
<1> QED
  BY <1>3

Full(w) == w.r.spent > 0 /\ Budget - w.r.spent < MinRoom

(* A turn of the loop: a new stream, or a piece in the one there is. *)
LEMMA PaintIs ==
  ASSUME IInv, Paint
  PROVE  \E u \in (IF Full(World) THEN Rollover(World) ELSE {World}) :
           /\ Good(hosts, u, said, tool) /\ Keeps(World, u) /\ u.j = job
           /\ \E w \in (IF Room(u) = 0 THEN Rollover(u) ELSE Pieces(u)) : Becomes(w)
<1> DEFINE full == Full(World)
           Drew(u) ==
             { IF v.said = "ok"
               THEN LET fence == Consumed([fenced |-> v.r.fenced, partial |-> v.r.partial],
                                          SubSeq(job.rest, 1, SplitAt(job.rest, Room(u))))
                    IN  [v EXCEPT !.r.spent = IF v.r.mode = "streaming"
                                              THEN @ + SplitAt(job.rest, Room(u)) ELSE 0,
                                  !.r.fenced = fence.fenced, !.r.partial = fence.partial,
                                  !.j.rest = SubSeq(@, SplitAt(job.rest, Room(u)) + 1, Len(@))]
               ELSE [v EXCEPT !.j.rest = <<>>, !.f.cut = @ \/ v.r.mode = "buffered"]
               : v \in AppendChunk(u, Words(SubSeq(job.rest, 1, SplitAt(job.rest, Room(u))))) }
<1>1. /\ job.rest # <<>> /\ job.part = 0
      /\ script' = script /\ hosts' = hosts /\ said' = said /\ tool' = tool /\ beatOf' = beatOf
      /\ asked' = asked
  BY DEF Paint
<1>2. PICK u \in (IF full THEN Rollover(World) ELSE {World}) :
        \E w \in (IF Room(u) = 0 THEN Rollover(u) ELSE Drew(u)) : Becomes(w)
  BY WorldIs DEF Paint, Room, Full
<1>3. PICK w \in (IF Room(u) = 0 THEN Rollover(u) ELSE Drew(u)) : Becomes(w)
  BY <1>2
<1>4. Good(hosts, World, said, tool) /\ Steady(World) /\ World.r = reply /\ World.j = job
  BY WorldNow
<1>5. Good(hosts, u, said, tool) /\ Keeps(World, u) /\ u.j = job
  <2>1. CASE u \in Rollover(World)
    BY <1>4, <2>1, RolledGood
  <2>2. CASE u = World
    BY <1>4, <2>2 DEF Keeps
  <2> QED
    BY <1>2, <2>1, <2>2
<1>6. Drew(u) = Pieces(u)
  <2>1. SplitAt(job.rest, Room(u)) = Cut(u) /\ SubSeq(job.rest, 1, SplitAt(job.rest, Room(u))) = PieceOf(u)
    BY <1>5 DEF Cut, PieceOf
  <2> DEFINE c == SplitAt(job.rest, Room(u))
             p == SubSeq(job.rest, 1, SplitAt(job.rest, Room(u)))
             Ink(v) ==
               LET fence == Consumed([fenced |-> v.r.fenced, partial |-> v.r.partial], p)
               IN  [v EXCEPT !.r.spent = IF v.r.mode = "streaming" THEN @ + c ELSE 0,
                             !.r.fenced = fence.fenced, !.r.partial = fence.partial,
                             !.j.rest = SubSeq(@, c + 1, Len(@))]
  <2>2. Drew(u) = {IF v.said = "ok" THEN Ink(v) ELSE GivenUp(v) : v \in AppendChunk(u, Words(p))}
    BY DEF GivenUp
  <2>3. \A v : Ink(v) = Inked(v, c, Consumed(FenceOf(v), p))
    BY DEF Inked, FenceOf
  <2>4. c = Cut(u) /\ p = PieceOf(u)
    BY <2>1
  <2> HIDE DEF c, p, Ink, Drew
  <2>5. Drew(u) = {IF v.said = "ok" THEN Inked(v, c, Consumed(FenceOf(v), p)) ELSE GivenUp(v)
                   : v \in AppendChunk(u, Words(p))}
    BY <2>2, <2>3
  <2> QED
    BY <2>4, <2>5 DEF Pieces
<1> HIDE DEF Drew
<1> QED
  BY <1>3, <1>5, <1>6

LEMMA PaintSound ==
  ASSUME IInv, Paint
  PROVE  IInv'
<1>1. /\ job.rest # <<>> /\ job.part = 0
      /\ script' = script /\ hosts' = hosts /\ said' = said /\ tool' = tool /\ beatOf' = beatOf
      /\ asked' = asked
  BY DEF Paint
<1>2. PICK u : /\ Good(hosts, u, said, tool) /\ Keeps(World, u) /\ u.j = job
               /\ \E w \in (IF Room(u) = 0 THEN Rollover(u) ELSE Pieces(u)) : Becomes(w)
  BY PaintIs
<1>3. PICK w \in (IF Room(u) = 0 THEN Rollover(u) ELSE Pieces(u)) : Becomes(w)
  BY <1>2
<1>4. Good(hosts, World, said, tool) /\ Steady(World) /\ World.r = reply /\ World.j = job
  BY WorldNow
<1>7. Good(hosts, w, said, tool) /\ Keeps(u, w) /\ w.j.part \in {0, 1}
  <2>1. CASE Room(u) = 0
    <3>1. Good(hosts, w, said, tool) /\ Keeps(u, w) /\ w.j = u.j
      BY <1>3, <1>2, <2>1, RolledGood
    <3> QED
      BY <1>1, <1>2, <3>1
  <2>2. CASE Room(u) # 0
    <3>1. w \in Pieces(u)
      BY <1>3, <2>2
    <3>2. u.j.rest # <<>> /\ u.j.part = 0
      BY <1>1, <1>2
    <3>3. Good(hosts, w, said, tool)
      BY <1>2, <3>1, <3>2, GoodPiece
    <3>4. Keeps(u, w) /\ w.j.part \in {u.j.part, 1}
      BY <1>2, <3>1, PieceStays
    <3> QED
      BY <3>2, <3>3, <3>4
  <2> QED
    BY <2>1, <2>2
<1>8. Steady(w)
  <2>1. w \in Worlds
    BY <1>7 DEF Good, Fitting
  <2>2. w.j.part # 0 => w.j.part <= Len(Parts(w.r.all))
    BY <1>7, <2>1, FirstPart
  <2> QED
    BY <1>4, <1>2, <1>7, <2>2 DEF Steady, Keeps
<1>9. Good(hosts, World, said, tool)' /\ Steady(World)'
  BY <1>1, <1>3, <1>7, <1>8, BecomesSound
<1>10. Typed'
  BY <1>1 DEF IInv, Typed
<1> QED
  BY <1>9, <1>10 DEF IInv

(* A reply that turned to whole messages while it drew a list: nothing of  *)
(* its text is known.                                                      *)
LEMMA GoodEmptied ==
  ASSUME NEW h, NEW w, NEW v, NEW top, NEW tl, Good(h, w, top, tl), Fitting(h, v), ~h,
         w.j.rest = <<>>, w.j.then # "over", v.j.rest = <<>>, v.j.part = 0, v.j.then # "over",
         v.th = w.th, v.r.pending = w.r.pending, v.r.placed = w.r.placed,
         v.r.all = <<>>, v.r.posted = <<>>
  PROVE  Good(h, v, top, tl)
<1>1. Left(v, top) = Left(w, top)
  BY DEF Left
<1>2. Counted(v, top)
  BY <1>1 DEF Good, Counted
<1>3. Shaped(v)
  BY Empties DEF Shaped
<1>4. Under(v, top)
  BY <1>1, Empties DEF Good, Under
<1>5. v.r.at = 0
  BY DEF Fitting
<1>6. \A i, n : Clear(w, i, n) => Clear(v, i, n)
  BY <1>5, Empties DEF Clear
<1>7. Below(v, top, tl)
  BY <1>1, <1>6 DEF Good, Below
<1>8. Reads(h, v, top)
  BY DEF Reads
<1> QED
  BY <1>2, <1>3, <1>4, <1>7, <1>8 DEF Good

LEMMA LeaveMoves ==
  ASSUME NEW w, NEW top, NEW tl, Good(hosts, w, top, tl), w.j.then # "over", NEW v \in LeavePlaced(w)
  PROVE  /\ Good(hosts, v, top, tl) /\ v.j = w.j /\ ~v.r.placed
         /\ v.r.beats = w.r.beats /\ v.r.open = w.r.open
<1>1. Fitting(hosts, w) /\ Shaped(w)
  BY DEF Good
<1>2. /\ Fitting(hosts, v) /\ v.j = w.j /\ Worse(w.f, v.f) /\ Quiet(w.th, v.th)
      /\ ~v.r.placed
      /\ ~w.r.placed => v = w
      /\ w.r.placed /\ w.r.mode = "streaming" =>
           SameText(w.r, v.r) /\ (v.r.at = 0 \/ v.r.at > Len(w.th))
      /\ w.r.placed /\ w.r.mode # "streaming" =>
           /\ v.th = w.th /\ v.f = w.f /\ v.r.all = <<>> /\ v.r.posted = <<>> /\ v.r.broken = FALSE
           /\ v.r.mode = w.r.mode /\ v.r.at = w.r.at /\ v.r.pending = w.r.pending
           /\ v.r.flushed = w.r.flushed /\ v.r.beats = w.r.beats /\ v.r.drawn = w.r.drawn
           /\ v.r.open = w.r.open
  BY <1>1, LeavePlacedFacts
<1>3. CASE ~w.r.placed
  BY <1>2, <1>3
<1>4. CASE w.r.placed
  <2>1. v.r.placed = FALSE
    <3>1. v \in Worlds
      BY <1>2 DEF Fitting
    <3>2. v.r \in Fields
      BY <3>1, WorldParts
    <3>3. v.r.placed \in BOOLEAN
      BY <3>2 DEF Fields
    <3> QED
      BY <1>2, <3>3
  <2>2. /\ v.r.mode = w.r.mode /\ v.r.pending = w.r.pending
        /\ v.r.all = <<>> /\ v.r.posted = <<>> /\ v.r.beats = w.r.beats /\ v.r.open = w.r.open
        /\ v.r.at = 0 \/ v.r.at > Len(w.th)
    <3>1. CASE w.r.mode = "streaming"
      BY <1>1, <1>2, <1>4, <3>1 DEF SameText, Shaped
    <3>2. CASE w.r.mode # "streaming"
      <4>1. w.r.at = 0
        BY <1>1, <3>2 DEF Fitting
      <4> QED
        BY <1>2, <1>4, <3>2, <4>1
    <3> QED
      BY <3>1, <3>2
  <2>3. Moves(hosts, w, v)
    BY <1>2, <2>1, <2>2 DEF Moves, Worse
  <2>4. Good(hosts, v, top, tl)
    BY <2>3, GoodMoves
  <2> QED
    BY <1>2, <2>2, <2>4
<1> QED
  BY <1>3, <1>4

(* The lists, as they are kept and as they are drawn *)
Listing(w, open, beats) == [w EXCEPT !.r.open = open, !.r.beats = beats]
Drawing(w, b)           == [w EXCEPT !.r.drawn = @ \cup {b}]
Resting(w)              == [w EXCEPT !.j = Reading]

LEMMA ListingFacts ==
  ASSUME NEW w \in Worlds, NEW open \in Nat, NEW beats \in Seq(Beats)
  PROVE  LET v == Listing(w, open, beats)
         IN  /\ v \in Worlds /\ v.th = w.th /\ v.j = w.j /\ v.f = w.f
             /\ v.r.open = open /\ v.r.beats = beats /\ v.r.mode = w.r.mode
             /\ v.r.pending = w.r.pending /\ v.r.all = w.r.all /\ v.r.posted = w.r.posted
             /\ v.r.placed = w.r.placed /\ v.r.at = w.r.at /\ v.r.spent = w.r.spent
             /\ v.r.fenced = w.r.fenced /\ v.r.partial = w.r.partial
<1> DEFINE g == [w.r EXCEPT !.open = open, !.beats = beats]
<1>1. w.r \in Fields
  BY WorldParts
<1>2. /\ g \in Fields /\ g.open = open /\ g.beats = beats /\ g.mode = w.r.mode
      /\ g.pending = w.r.pending /\ g.all = w.r.all /\ g.posted = w.r.posted
      /\ g.placed = w.r.placed /\ g.at = w.r.at /\ g.spent = w.r.spent
      /\ g.fenced = w.r.fenced /\ g.partial = w.r.partial
  BY <1>1 DEF Fields
<1>3. Listing(w, open, beats) = WithR(w, g)
  BY DEF Listing, WithR
<1> HIDE DEF g
<1>4. /\ WithR(w, g) \in Worlds /\ WithR(w, g).th = w.th /\ WithR(w, g).r = g
      /\ WithR(w, g).j = w.j /\ WithR(w, g).f = w.f
  BY <1>2, WithRFacts
<1> QED
  BY <1>2, <1>3, <1>4

LEMMA DrawingFacts ==
  ASSUME NEW w \in Worlds, NEW b \in Nat
  PROVE  LET v == Drawing(w, b)
         IN  /\ v \in Worlds /\ v.th = w.th /\ v.j = w.j /\ v.f = w.f
             /\ v.r.open = w.r.open /\ v.r.beats = w.r.beats /\ v.r.mode = w.r.mode
             /\ v.r.pending = w.r.pending /\ v.r.all = w.r.all /\ v.r.posted = w.r.posted
             /\ v.r.placed = w.r.placed /\ v.r.at = w.r.at /\ v.r.spent = w.r.spent
             /\ v.r.fenced = w.r.fenced /\ v.r.partial = w.r.partial
<1> DEFINE d == w.r.drawn \cup {b}
           g == [w.r EXCEPT !.drawn = d]
<1>1. w.r \in Fields
  BY WorldParts
<1>2. d \in SUBSET Nat
  <2>1. w.r.drawn \in SUBSET Nat
    BY <1>1 DEF Fields
  <2> QED
    BY <2>1
<1>3. Drawing(w, b) = WithR(w, g)
  BY DEF Drawing, WithR
<1> HIDE DEF d
<1>4. /\ g \in Fields /\ g.open = w.r.open /\ g.beats = w.r.beats /\ g.mode = w.r.mode
      /\ g.pending = w.r.pending /\ g.all = w.r.all /\ g.posted = w.r.posted
      /\ g.placed = w.r.placed /\ g.at = w.r.at /\ g.spent = w.r.spent
      /\ g.fenced = w.r.fenced /\ g.partial = w.r.partial
  BY <1>1, <1>2 DEF Fields
<1> HIDE DEF g
<1>5. /\ WithR(w, g) \in Worlds /\ WithR(w, g).th = w.th /\ WithR(w, g).r = g
      /\ WithR(w, g).j = w.j /\ WithR(w, g).f = w.f
  BY <1>4, WithRFacts
<1> QED
  BY <1>3, <1>4, <1>5

LEMMA RestingFacts ==
  ASSUME NEW w \in Worlds
  PROVE  LET v == Resting(w)
         IN  /\ v \in Worlds /\ v.th = w.th /\ v.r = w.r /\ v.f = w.f /\ v.j = Reading
             /\ v.j.rest = <<>> /\ v.j.part = 0 /\ v.j.then = "read"
<1>1. Resting(w) = WithJ(w, Reading)
  BY DEF Resting, WithJ
<1> QED
  BY <1>1, WithJFacts, ReadingTyped

LEMMA GoodPlain ==
  ASSUME NEW h, NEW w, NEW top, NEW tl, Good(h, w, top, tl), NEW v \in Worlds,
         v.th = w.th, v.f = w.f,
         v.j.rest = w.j.rest, v.j.part = w.j.part,
         w.j.then = "over" => v.j.then = "over",
         v.j.then = "over" => w.j.rest = <<>> /\ w.j.part = 0,
         v.r.mode = w.r.mode, v.r.pending = w.r.pending, v.r.all = w.r.all, v.r.posted = w.r.posted,
         v.r.placed = w.r.placed, v.r.at = w.r.at, v.r.spent = w.r.spent
  PROVE  Good(h, v, top, tl)
<1>1. Fitting(h, w) /\ Shaped(w) /\ w \in Worlds
  BY DEF Good, Fitting
<1>2. w.th \in Thread /\ w.f \in FaultsSet
  BY <1>1, WorldParts
<1>3. Quiet(w.th, v.th) /\ v.f.count \in Nat /\ v.f.count >= w.f.count /\ v.f.cut = w.f.cut
  BY <1>2, QuietSame, Bounds DEF FaultsSet
<1>4. Moves(h, w, v)
  BY <1>1, <1>3, PlainMoves
<1> QED
  BY <1>4, GoodMoves

(* A list is drawn, and the task goes back to reading. *)
LEMMA GoodDrawn ==
  ASSUME NEW w, NEW top, NEW tl, Good(hosts, w, top, tl), w.j.rest = <<>>, w.j.part = 0,
         w.j.then # "over", NEW c \in Chunks, c.text = <<>>, NEW v \in AppendChunk(w, c)
  PROVE  /\ Good(hosts, Resting(v), top, tl) /\ Resting(v) \in Worlds
         /\ v.r.beats = w.r.beats /\ v.r.open = w.r.open
<1> DEFINE x == Resting(v)
<1>1. Fitting(hosts, w) /\ Shaped(w) /\ w \in Worlds
  BY DEF Good, Fitting
<1>2. Wordless(c)
  BY Empties DEF Wordless
<1>3. w.th \in Thread /\ w.r \in Fields /\ w.r.spent \in Nat
  <2>1. w.th \in Thread /\ w.r \in Fields
    BY <1>1, WorldParts
  <2> QED
    BY <2>1 DEF Fields
<1>4. CASE hosts
  <2>1. w.r.mode = "streaming" /\ StreamAt(w.th, w.r.at) /\ w.r.spent <= Budget + 2
    BY <1>1, <1>4 DEF Fitting
  <2>2. /\ v \in Worlds /\ SameWords(w.r, v.r) /\ v.j = w.j /\ Worse(w.f, v.f)
        /\ \/ v.said # "ok" /\ Quiet(w.th, v.th)
           \/ \E i \in Nat : /\ Written(w.th, v.th, c, i)
                             /\ i = w.r.at \/ i > Len(w.th)
                             /\ v.r.at = 0 \/ v.r.at = i
                             /\ v.said = "ok" => v.r.at = i
        /\ v.r.at = w.r.at \/ v.r.at = 0 \/ v.r.at > Len(w.th)
        /\ StreamAt(v.th, v.r.at)
        /\ v.r.spent \in {w.r.spent, 0, 2} /\ v.r.partial \in {w.r.partial, "empty"}
        /\ v.f.count = w.f.count /\ Len(c.text) + 2 <= MaxText =>
             v.said = "ok" /\ v.f = w.f /\ CalmAppend(w, v, c)
    BY <1>1, <1>4, <2>1, AppendHosted
  <2>3. Quiet(w.th, v.th)
    BY <1>2, <1>3, <2>2, WrittenQuiet
  <2>4. /\ x \in Worlds /\ x.th = v.th /\ x.r = v.r /\ x.f = v.f
        /\ x.j.rest = <<>> /\ x.j.part = 0 /\ x.j.then = "read"
    BY <2>2, RestingFacts
  <2> HIDE DEF x
  <2>5. x.r.spent <= Budget + 2
    BY <1>3, <2>1, <2>2, <2>4, Bounds
  <2>6. Fitting(hosts, x)
    BY <1>4, <2>1, <2>2, <2>4, <2>5 DEF Fitting, SameWords
  <2>7. Moves(hosts, w, x)
    BY <2>2, <2>3, <2>4, <2>6 DEF Moves, SameWords, Worse, MovesOn
  <2>8. Good(hosts, x, top, tl)
    BY <2>7, GoodMoves
  <2> QED
    BY <2>2, <2>4, <2>8 DEF x, SameWords
<1>5. CASE ~hosts
  <2>1. w.r.at = 0 /\ w.r.spent <= Budget + 2
    BY <1>1, <1>5 DEF Fitting
  <2>2. /\ v \in Worlds /\ v.th = w.th /\ Worse(w.f, v.f)
        /\ \/ /\ w.r.mode = "streaming" /\ v.said = "ok" /\ v.f = w.f
              /\ GoesOver(w.r, v.r, c.text)
              /\ v.j.part = 1 /\ v.j.rest = w.j.rest /\ v.j.then = w.j.then
           \/ /\ v.said = "failed" /\ v.r = w.r /\ v.j = w.j
              /\ w.r.mode = "streaming" => v.f.count # w.f.count
    BY <1>1, <1>5, <2>1, AppendUnhosted
  <2>3. /\ x \in Worlds /\ x.th = v.th /\ x.r = v.r /\ x.f = v.f
        /\ x.j.rest = <<>> /\ x.j.part = 0 /\ x.j.then = "read"
    BY <2>2, RestingFacts
  <2> HIDE DEF x
  <2>4. CASE v.r = w.r
    <3>1. Fitting(hosts, x)
      BY <1>1, <2>2, <2>3, <2>4 DEF Fitting
    <3>2. Quiet(w.th, x.th)
      BY <1>3, <2>2, <2>3, QuietSame
    <3>3. Moves(hosts, w, x)
      BY <2>2, <2>3, <2>4, <3>1, <3>2 DEF Moves, Worse, MovesOn
    <3>4. Good(hosts, x, top, tl)
      BY <3>3, GoodMoves
    <3> QED
      BY <2>3, <2>4, <3>4 DEF x
  <2>5. CASE GoesOver(w.r, v.r, c.text)
    <3>1. Fitting(hosts, x)
      BY <1>5, <2>1, <2>3, <2>5 DEF Fitting, StreamAt, GoesOver
    <3>2. Good(hosts, x, top, tl)
      BY <1>5, <2>2, <2>3, <2>5, <3>1, GoodEmptied DEF GoesOver
    <3> QED
      BY <2>3, <2>5, <3>2 DEF x, GoesOver
  <2> QED
    BY <2>2, <2>4, <2>5
<1> QED
  BY <1>4, <1>5

OneBeat(t) == [y \in {t} |-> beatOf[t]]
BeatOwn(t) == BeatWith(t) = {} /\ reply.open = 0
BeatNo(t)  == IF BeatWith(t) # {} THEN CHOOSE k \in BeatWith(t) : TRUE
              ELSE IF BeatOwn(t) THEN Len(reply.beats) + 1 ELSE reply.open
NewOpen(t) == IF BeatOwn(t) THEN BeatNo(t) ELSE reply.open
NewBeats(t) ==
  IF BeatOwn(t) THEN Append(reply.beats, OneBeat(t))
  ELSE [reply.beats EXCEPT ![BeatNo(t)] = Redrawn(OneBeat(t), reply.beats[BeatNo(t)])]

LEMMA BeatFacts ==
  ASSUME IInv, NEW t \in Tasks
  PROVE  /\ BeatNo(t) \in Nat /\ NewOpen(t) \in Nat
         /\ BeatOwn(t) \in BOOLEAN
         /\ NewBeats(t) \in Seq(Beats) /\ NewOpen(t) \in 0 .. Len(NewBeats(t))
         /\ BeatNo(t) \in DOMAIN NewBeats(t) /\ NewBeats(t)[BeatNo(t)] \in Beats
<1> DEFINE b  == BeatNo(t)
           bs == reply.beats
           x  == OneBeat(t)
           nb == NewBeats(t)
<1>1. reply \in Fields /\ beatOf \in [Tasks -> Reported]
  BY WorldNow DEF IInv, Typed
<1>2. bs \in Seq(Beats) /\ reply.open \in 0 .. Len(bs) /\ Len(bs) \in Nat
  <2>1. bs \in Seq(Beats)
    BY <1>1 DEF Fields
  <2>2. reply.open \in 0 .. Len(bs)
    BY WorldNow DEF Steady
  <2> QED
    BY <2>1, <2>2
<1>3. x \in Beats
  <2>1. x \in [{t} -> Reported]
    BY <1>1 DEF OneBeat
  <2>2. {t} \in SUBSET Tasks
    OBVIOUS
  <2> QED
    BY <2>1, <2>2 DEF Beats
<1>4. BeatWith(t) \subseteq DOMAIN bs
  BY DEF BeatWith
<1>0. BeatOwn(t) \in BOOLEAN
  BY DEF BeatOwn
<1>5. CASE BeatOwn(t)
  <2>1. b = Len(bs) + 1 /\ NewOpen(t) = b /\ nb = Append(bs, x)
    BY <1>5 DEF BeatOwn, BeatNo, NewOpen, NewBeats
  <2> HIDE DEF b, bs, x, nb
  <2>2. nb \in Seq(Beats) /\ Len(nb) = Len(bs) + 1 /\ nb[Len(bs) + 1] = x
    BY <1>2, <1>3, <2>1
  <2>3. DOMAIN nb = 1 .. Len(nb)
    BY <2>2
  <2>4. /\ b \in Nat /\ NewOpen(t) \in Nat
        /\ nb \in Seq(Beats) /\ NewOpen(t) \in 0 .. Len(nb)
        /\ b \in DOMAIN nb /\ nb[b] \in Beats
    BY <1>2, <1>3, <2>1, <2>2, <2>3
  <2> QED
    BY <1>0, <2>4 DEF b, nb
<1>6. CASE ~BeatOwn(t)
  <2>1. b \in DOMAIN bs
    <3>1. CASE BeatWith(t) # {}
      <4>1. b \in BeatWith(t)
        BY <3>1 DEF BeatNo
      <4> QED
        BY <1>4, <4>1
    <3>2. CASE BeatWith(t) = {}
      <4>1. b = reply.open /\ reply.open # 0
        BY <1>6, <3>2 DEF BeatNo, BeatOwn
      <4> QED
        BY <1>2, <4>1
    <3> QED
      BY <3>1, <3>2
  <2>2. nb = [bs EXCEPT ![b] = Redrawn(x, bs[b])] /\ NewOpen(t) = reply.open
    BY <1>6 DEF NewBeats, NewOpen
  <2> HIDE DEF b, bs, x, nb
  <2>3. bs[b] \in Beats
    BY <1>2, <2>1
  <2>4. Redrawn(x, bs[b]) \in Beats
    BY <1>3, <2>3, RedrawnBeat
  <2>5. nb \in Seq(Beats) /\ Len(nb) = Len(bs) /\ DOMAIN nb = DOMAIN bs /\ nb[b] \in Beats
    BY <1>2, <2>1, <2>2, <2>4
  <2>6. /\ b \in Nat /\ NewOpen(t) \in Nat
        /\ nb \in Seq(Beats) /\ NewOpen(t) \in 0 .. Len(nb)
        /\ b \in DOMAIN nb /\ nb[b] \in Beats
    BY <1>2, <2>1, <2>2, <2>5
  <2> QED
    BY <1>0, <2>6 DEF b, nb
<1> QED
  BY <1>5, <1>6

DrawnFrom(u, t) ==
  LET w == Listing(u, NewOpen(t), NewBeats(t))
      b == BeatNo(t)
  IN  {Resting(z) : z \in AppendChunk(Drawing(w, b), List(b, w.r.beats[b]))} \cup {Resting(w)}

Drawings(u, t) ==
  LET w == Listing(u, NewOpen(t), NewBeats(t))
      b == BeatNo(t)
  IN  {Resting(z) : z \in AppendChunk(Drawing(w, b), List(b, w.r.beats[b]))}

(* The tool joins its list, and the list is drawn, or is kept for later    *)
(* while the tool runs.                                                    *)
LEMMA DrawsIs ==
  ASSUME IInv, NEW t \in Tasks, Draws(t)
  PROVE  \E u \in LeavePlaced(World) \cup {World} :
           /\ Good(hosts, u, said, tool) /\ u.j = job
           /\ u.r.beats = reply.beats /\ u.r.open = reply.open
           /\ \E v \in DrawnFrom(u, t) :
                Becomes(v) /\ (Settled(beatOf[t]) => v \in Drawings(u, t))
<1> DEFINE b    == BeatNo(t)
           Listed(w) ==
             [w EXCEPT !.r.open  = IF BeatOwn(t) THEN b ELSE @,
                       !.r.beats = IF BeatOwn(t) THEN Append(@, [y \in {t} |-> beatOf[t]])
                                   ELSE [w.r.beats EXCEPT ![b] = Redrawn([y \in {t} |-> beatOf[t]], w.r.beats[b])]]
           Held(w)  == [w EXCEPT !.j = Reading]
           Drawn(w) == {Held(v) : v \in AppendChunk([w EXCEPT !.r.drawn = @ \cup {b}],
                                                    List(b, w.r.beats[b]))}
<1>1. /\ job.then = t /\ job.rest = <<>> /\ job.part = 0
      /\ script' = script /\ hosts' = hosts /\ said' = said /\ tool' = tool /\ beatOf' = beatOf
      /\ asked' = asked
  BY DEF Draws, At
<1>2. PICK u \in (IF BeatOwn(t) THEN LeavePlaced(World) ELSE {World}) :
        \E v \in Drawn(Listed(u)) \cup (IF ~Settled(beatOf[t]) /\ b \in reply.drawn
                                        THEN {Held(Listed(u))} ELSE {}) : Becomes(v)
  BY DEF Draws, BeatOwn, BeatNo
<1>3. PICK v \in Drawn(Listed(u)) \cup {Held(Listed(u))} :
        Becomes(v) /\ (Settled(beatOf[t]) => v \in Drawn(Listed(u)))
  BY <1>2
<1>4. Good(hosts, World, said, tool) /\ World.r = reply /\ World.j = job /\ World.th = thread
  BY WorldNow
<1>5. t # "over"
  BY NamesAssumption DEF Stages
<1>6. Good(hosts, u, said, tool) /\ u.j = job /\ u.r.beats = reply.beats /\ u.r.open = reply.open
  <2>1. CASE u \in LeavePlaced(World)
    BY <1>1, <1>4, <1>5, <2>1, LeaveMoves
  <2>2. CASE u = World
    BY <1>4, <2>2
  <2> QED
    BY <1>2, <2>1, <2>2
<1> DEFINE w == Listing(u, NewOpen(t), NewBeats(t))
           x == Drawing(w, b)
           c == List(b, w.r.beats[b])
<1>8. Listed(u) = w
  <2>1. CASE BeatOwn(t)
    <3>1. NewOpen(t) = b /\ NewBeats(t) = Append(reply.beats, [y \in {t} |-> beatOf[t]])
      BY <2>1 DEF NewOpen, NewBeats, OneBeat
    <3>2. Listed(u) = [u EXCEPT !.r.open = b,
                                !.r.beats = Append(u.r.beats, [y \in {t} |-> beatOf[t]])]
      BY <2>1
    <3> HIDE DEF b, Listed
    <3> QED
      BY <1>6, <3>1, <3>2 DEF Listing
  <2>2. CASE ~BeatOwn(t)
    <3> DEFINE bs == [u.r.beats EXCEPT ![b] = Redrawn([y \in {t} |-> beatOf[t]], u.r.beats[b])]
    <3>1. NewOpen(t) = u.r.open /\ NewBeats(t) = bs
      BY <1>6, <2>2 DEF NewOpen, NewBeats, OneBeat
    <3>2. Listed(u) = [u EXCEPT !.r.open = u.r.open, !.r.beats = bs]
      BY <2>2
    <3> HIDE DEF b, Listed, bs
    <3> QED
      BY <3>1, <3>2 DEF Listing
  <2> QED
    BY <2>1, <2>2
<1>9. Drawn(w) = {Resting(z) : z \in AppendChunk(x, c)} /\ Held(w) = Resting(w)
  BY DEF Resting, Drawing
<1> HIDE DEF Listed, Drawn, Held
<1>10. /\ v \in {Resting(z) : z \in AppendChunk(x, c)} \cup {Resting(w)}
       /\ Settled(beatOf[t]) => v \in {Resting(z) : z \in AppendChunk(x, c)}
  BY <1>3, <1>8, <1>9
<1>11. v \in DrawnFrom(u, t) /\ (Settled(beatOf[t]) => v \in Drawings(u, t))
  BY <1>10 DEF DrawnFrom, Drawings
<1> QED
  BY <1>2, <1>3, <1>6, <1>11

LEMMA DrawsSound ==
  ASSUME IInv, NEW t \in Tasks, Draws(t)
  PROVE  IInv'
<1> DEFINE b == BeatNo(t)
<1>1. /\ job.then = t /\ job.rest = <<>> /\ job.part = 0
      /\ script' = script /\ hosts' = hosts /\ said' = said /\ tool' = tool /\ beatOf' = beatOf
      /\ asked' = asked
  BY DEF Draws, At
<1>6. PICK u : /\ Good(hosts, u, said, tool) /\ u.j = job
               /\ u.r.beats = reply.beats /\ u.r.open = reply.open
               /\ \E v \in DrawnFrom(u, t) : Becomes(v)
  BY DrawsIs
<1>3. PICK v \in DrawnFrom(u, t) : Becomes(v)
  BY <1>6
<1>5. t # "over"
  BY NamesAssumption DEF Stages
<1>7. /\ BeatNo(t) \in Nat /\ NewOpen(t) \in Nat
      /\ BeatOwn(t) \in BOOLEAN
      /\ NewBeats(t) \in Seq(Beats) /\ NewOpen(t) \in 0 .. Len(NewBeats(t))
      /\ BeatNo(t) \in DOMAIN NewBeats(t) /\ NewBeats(t)[BeatNo(t)] \in Beats
  BY BeatFacts
<1> DEFINE w == Listing(u, NewOpen(t), NewBeats(t))
           x == Drawing(w, b)
           c == List(b, w.r.beats[b])
<1>10. v \in {Resting(z) : z \in AppendChunk(x, c)} \cup {Resting(w)}
  BY <1>3 DEF DrawnFrom
<1>11. u \in Worlds
  BY <1>6 DEF Good, Fitting
<1>12. /\ w \in Worlds /\ w.th = u.th /\ w.j = u.j /\ w.f = u.f
       /\ w.r.open = NewOpen(t) /\ w.r.beats = NewBeats(t) /\ w.r.mode = u.r.mode
       /\ w.r.pending = u.r.pending /\ w.r.all = u.r.all /\ w.r.posted = u.r.posted
       /\ w.r.placed = u.r.placed /\ w.r.at = u.r.at /\ w.r.spent = u.r.spent
  BY <1>7, <1>11, ListingFacts
<1> HIDE DEF w
<1>13. Good(hosts, w, said, tool)
  BY <1>1, <1>5, <1>6, <1>12, GoodPlain
<1>14. /\ x \in Worlds /\ x.th = w.th /\ x.j = w.j /\ x.f = w.f
       /\ x.r.open = w.r.open /\ x.r.beats = w.r.beats /\ x.r.mode = w.r.mode
       /\ x.r.pending = w.r.pending /\ x.r.all = w.r.all /\ x.r.posted = w.r.posted
       /\ x.r.placed = w.r.placed /\ x.r.at = w.r.at /\ x.r.spent = w.r.spent
  BY <1>7, <1>12, DrawingFacts
<1>15. c \in Chunks /\ c.text = <<>>
  BY <1>7, <1>12, ListTyped
<1> HIDE DEF x, c
<1>16. Good(hosts, x, said, tool)
  BY <1>1, <1>5, <1>6, <1>12, <1>13, <1>14, GoodPlain
<1>17. x.j.rest = <<>> /\ x.j.part = 0 /\ x.j.then # "over"
  BY <1>1, <1>5, <1>6, <1>12, <1>14
<1>18. /\ Good(hosts, v, said, tool) /\ v \in Worlds
       /\ v.r.beats = NewBeats(t) /\ v.r.open = NewOpen(t) /\ v.j = Reading
  <2>1. CASE v = Resting(w)
    <3>1. /\ v \in Worlds /\ v.th = w.th /\ v.r = w.r /\ v.f = w.f /\ v.j = Reading
          /\ v.j.rest = <<>> /\ v.j.part = 0 /\ v.j.then = "read"
      BY <1>12, <2>1, RestingFacts
    <3>2. w.j.rest = <<>> /\ w.j.part = 0 /\ w.j.then # "over"
      BY <1>1, <1>5, <1>6, <1>12
    <3>3. Good(hosts, v, said, tool)
      BY <1>13, <3>1, <3>2, GoodPlain
    <3> QED
      BY <1>12, <3>1, <3>3
  <2>2. CASE v \in {Resting(z) : z \in AppendChunk(x, c)}
    <3>1. PICK z \in AppendChunk(x, c) : v = Resting(z)
      BY <2>2
    <3>2. /\ Good(hosts, Resting(z), said, tool) /\ Resting(z) \in Worlds
          /\ z.r.beats = x.r.beats /\ z.r.open = x.r.open
      BY <1>15, <1>16, <1>17, <3>1, GoodDrawn
    <3>3. v.r = z.r /\ v.j = Reading
      <4>1. v = [z EXCEPT !.j = Reading]
        BY <3>1 DEF Resting
      <4>2. v \in Worlds
        BY <3>1, <3>2
      <4>3. z \in Worlds
        <5>1. CASE hosts
          <6>1. x.r.mode = "streaming" /\ StreamAt(x.th, x.r.at)
            BY <1>16, <5>1 DEF Good, Fitting
          <6> QED
            BY <1>14, <1>15, <3>1, <5>1, <6>1, AppendHosted
        <5>2. CASE ~hosts
          <6>1. x.r.at = 0
            BY <1>16, <5>2 DEF Good, Fitting
          <6> QED
            BY <1>14, <1>15, <3>1, <5>2, <6>1, AppendUnhosted
        <5> QED
          BY <5>1, <5>2
      <4> QED
        BY <3>1, <4>3, RestingFacts
    <3> QED
      BY <1>12, <1>14, <3>1, <3>2, <3>3
  <2> QED
    BY <1>10, <2>1, <2>2
<1>19. Steady(v)
  BY <1>7, <1>18, ReadingTyped DEF Steady
<1>20. Good(hosts, World, said, tool)' /\ Steady(World)'
  BY <1>1, <1>3, <1>18, <1>19, BecomesSound
<1>21. Typed'
  BY <1>1 DEF IInv, Typed
<1> QED
  BY <1>20, <1>21 DEF IInv

Placing(k) == NewMessage("placed", <<k>>)

(* The message of k is the newest, and is the first of k. *)
Lands(th, th2, k) == th2 = Append(th, Placing(k)) /\ \A i \in Nat : ~PlacedAt(th, i, k)
OthersAs(tl, tl2, k) == \A x \in Tools : x # k => tl2[x] = tl[x]

LEMMA PlacingFacts ==
  ASSUME NEW th \in Thread, NEW k \in Tools
  PROVE  /\ Append(th, Placing(k)) \in Thread /\ Still(th, Append(th, Placing(k)))
         /\ Len(th) \in Nat /\ DOMAIN Append(th, Placing(k)) = 1 .. Len(th) + 1
         /\ DOMAIN th = 1 .. Len(th)
         /\ \A j \in DOMAIN th : Append(th, Placing(k))[j] = th[j]
         /\ Append(th, Placing(k))[Len(th) + 1] = Placing(k)
         /\ SaidIn(Placing(k)) = {} /\ Placing(k).kind = "placed" /\ Placing(k).text = <<k>>
         /\ PostMessage(th, "placed", <<k>>) = Answer(Append(th, Placing(k)), "ok")
<1> DEFINE m == Placing(k)
           th2 == Append(th, m)
<1>1. m \in Message /\ m.kind = "placed" /\ m.text = <<k>>
  <2>1. /\ NewMessage("placed", <<k>>) \in Message
        /\ NewMessage("placed", <<k>>) =
             [kind |-> "placed", text |-> <<k>>, lists |-> <<>>, state |-> "whole"]
    BY NewMessageTyped
  <2>2. NewMessage("placed", <<k>>).kind = "placed" /\ NewMessage("placed", <<k>>).text = <<k>>
    BY <2>1
  <2> QED
    BY <2>1, <2>2 DEF Placing
<1>2. PostMessage(th, "placed", <<k>>) = Answer(th2, "ok")
  BY DEF PostMessage, Placing
<1> HIDE DEF m
<1>4. SaidIn(m) = {}
  BY <1>1 DEF SaidIn
<1>5. /\ th2 \in Thread /\ Len(th) \in Nat /\ DOMAIN th2 = 1 .. Len(th) + 1 /\ DOMAIN th = 1 .. Len(th)
      /\ \A j \in DOMAIN th : th2[j] = th[j]
      /\ th2[Len(th) + 1] = m
  BY <1>1 DEF Thread
<1> HIDE DEF th2
<1>6. Still(th, th2)
  BY <1>4, <1>5 DEF Still
<1> QED
  BY <1>1, <1>2, <1>4, <1>5, <1>6 DEF m, th2

(* A tool's message stands under all that was said. *)
LEMMA GoodPlaced ==
  ASSUME NEW h, NEW w, NEW v \in Worlds, NEW top, NEW tl, NEW tl2, NEW k \in Tools,
         Good(h, w, top, tl), w.j.rest = <<>>, w.j.part = 0,
         Lands(w.th, v.th, k), v.j = w.j,
         v.f.count \in Nat, v.f.count >= w.f.count, v.f.cut = w.f.cut,
         v.r.mode = w.r.mode, v.r.pending = w.r.pending, v.r.all = w.r.all,
         v.r.posted = w.r.posted, v.r.at = w.r.at, v.r.spent = w.r.spent,
         w.r.placed => v.r.placed,
         tl2[k].at = "told" => tl2[k].after = top /\ w.r.pending = <<>>
                                /\ (v.r.placed \/ v.j.then = "over"),
         OthersAs(tl, tl2, k)
  PROVE  Good(h, v, top, tl2)
<1>1. w \in Worlds /\ w.th \in Thread /\ w.f.count \in Nat
  <2>1. w \in Worlds
    BY DEF Good, Fitting
  <2>2. w.f \in FaultsSet /\ w.th \in Thread
    BY <2>1, WorldParts
  <2> QED
    BY <2>1, <2>2, Bounds DEF FaultsSet
<1> DEFINE n == Len(w.th) + 1
<1>2. /\ v.th \in Thread /\ Still(w.th, v.th)
      /\ n \in Nat /\ DOMAIN v.th = 1 .. n /\ DOMAIN w.th = 1 .. n - 1
      /\ \A j \in DOMAIN w.th : v.th[j] = w.th[j]
      /\ SaidIn(v.th[n]) = {} /\ v.th[n].kind = "placed" /\ v.th[n].text = <<k>>
  <2> DEFINE x == Append(w.th, Placing(k))
  <2>1. /\ x \in Thread /\ Still(w.th, x)
        /\ Len(w.th) \in Nat /\ DOMAIN x = 1 .. Len(w.th) + 1 /\ DOMAIN w.th = 1 .. Len(w.th)
        /\ \A j \in DOMAIN w.th : x[j] = w.th[j]
        /\ x[Len(w.th) + 1] = Placing(k)
        /\ SaidIn(Placing(k)) = {} /\ Placing(k).kind = "placed" /\ Placing(k).text = <<k>>
    BY <1>1, PlacingFacts
  <2> HIDE DEF x
  <2>2. v.th = x
    BY DEF x, Lands
  <2> QED
    BY <2>1, <2>2
<1> HIDE DEF n
<1>3. Left(v, top) = Left(w, top)
  BY DEF Left
<1>4. Fitting(h, v)
  <2>1. StreamAt(w.th, w.r.at)
    BY DEF Good, Fitting
  <2>2. ASSUME w.r.at # 0
        PROVE  /\ w.r.at \in DOMAIN v.th /\ v.th[w.r.at].kind = "stream"
               /\ \A j \in DOMAIN v.th : j > w.r.at => SaidIn(v.th[j]) = {}
    <3>1. /\ w.r.at \in DOMAIN w.th /\ w.th[w.r.at].kind = "stream"
          /\ \A j \in DOMAIN w.th : j > w.r.at => SaidIn(w.th[j]) = {}
      BY <2>1, <2>2 DEF StreamAt
    <3>2. ASSUME NEW j \in DOMAIN v.th, j > w.r.at PROVE SaidIn(v.th[j]) = {}
      <4>1. CASE j = n
        BY <1>2, <4>1
      <4>2. CASE j # n
        <5>1. j \in DOMAIN w.th
          BY <1>2, <3>2, <4>2
        <5>2. v.th[j] = w.th[j] /\ SaidIn(w.th[j]) = {}
          BY <1>2, <3>1, <3>2, <5>1
        <5> QED
          BY <5>2
      <4> QED
        BY <4>1, <4>2
    <3>3. v.th[w.r.at] = w.th[w.r.at] /\ w.r.at \in DOMAIN v.th
      BY <1>2, <3>1
    <3> QED
      BY <3>1, <3>2, <3>3
  <2>3. StreamAt(v.th, w.r.at)
    BY <2>2 DEF StreamAt
  <2> QED
    BY <2>3 DEF Good, Fitting
<1>5. Shaped(v)
  <2>1. \A m \in DOMAIN v.r.posted : /\ v.r.posted[m].at \in DOMAIN v.th
                                     /\ v.th[v.r.posted[m].at].kind = "post"
    BY <1>2 DEF Good, Shaped
  <2> QED
    BY <2>1 DEF Good, Shaped
<1>6. Counted(v, top)
  BY <1>3 DEF Good, Counted
<1>7. Under(v, top)
  BY <1>2, <1>3, StillUnder DEF Good, Under
<1>8. Reads(h, v, top)
  <2> SUFFICES ASSUME h
               PROVE  /\ Ordered(v.th)
                      /\ v.f.count = 0 => ~v.f.cut /\ Covers(v.th, Left(v, top))
    BY DEF Reads
  <2>1. Ordered(v.th)
    BY <1>2, StillOrdered DEF Good, Reads
  <2>2. ASSUME v.f.count = 0 PROVE ~v.f.cut /\ Covers(v.th, Left(v, top))
    <3>1. w.f.count = 0
      BY <1>1, <2>2
    <3> QED
      BY <1>2, <1>3, <3>1, StillCovers DEF Good, Reads
  <2> QED
    BY <2>1, <2>2
<1>9. Below(v, top, tl2)
  <2> SUFFICES ASSUME NEW i \in Nat, NEW x \in Tools, PlacedAt(v.th, i, x), tl2[x].at = "told"
               PROVE  /\ tl2[x].after \in Nat /\ tl2[x].after <= Left(v, top)
                      /\ Parted(v.th, i, tl2[x].after)
                      /\ Clear(v, i, tl2[x].after)
    BY DEF Below
  <2>1. CASE i = n
    <3>1. x = k
      <4>1. <<x>> = <<k>>
        BY <1>2, <2>1 DEF PlacedAt
      <4>2. <<x>>[1] = x /\ <<k>>[1] = k
        OBVIOUS
      <4> QED
        BY <4>1, <4>2
    <3>2. tl2[x].after = top /\ w.r.pending = <<>> /\ (v.r.placed \/ v.j.then = "over")
      BY <3>1
    <3>3. Left(w, top) = top /\ top \in Nat
      <4>1. /\ Left(w, top) + Len(w.r.pending) = top /\ top \in Nat /\ Left(w, top) \in Nat
        BY <1>1, CountParts DEF Good
      <4>2. Len(w.r.pending) = 0
        BY <3>2
      <4> QED
        BY <4>1, <4>2
    <3>4. Parted(v.th, i, top)
      <4>1. AllUnder(w.th, top)
        BY <3>3 DEF Good, Under
      <4>2. ASSUME NEW j \in DOMAIN v.th, NEW p \in SaidIn(v.th[j])
            PROVE  IF v.th[j].text[p] <= top THEN j < i ELSE j > i
        <5>1. j # n
          BY <1>2
        <5>2. j \in DOMAIN w.th /\ j < n
          BY <1>2, <5>1
        <5> QED
          BY <1>2, <2>1, <4>1, <5>2 DEF AllUnder
      <4> QED
        BY <4>2 DEF Parted
    <3> QED
      BY <1>3, <3>2, <3>3, <3>4 DEF Clear
  <2>2. CASE i # n
    <3>1. i \in DOMAIN w.th /\ PlacedAt(w.th, i, x)
      BY <1>2, <2>2 DEF PlacedAt
    <3>2. x # k /\ tl2[x] = tl[x]
      BY <3>1 DEF Lands, OthersAs
    <3>3. /\ tl[x].after \in Nat /\ tl[x].after <= Left(w, top)
          /\ Parted(w.th, i, tl[x].after)
          /\ Clear(w, i, tl[x].after)
      BY <3>1, <3>2 DEF Good, Below
    <3>4. Parted(v.th, i, tl[x].after)
      BY <1>2, <3>3, StillParted
    <3>5. Clear(v, i, tl[x].after)
      BY <3>3 DEF Clear
    <3> QED
      BY <1>3, <3>2, <3>3, <3>4, <3>5
  <2> QED
    BY <2>1, <2>2
<1> QED
  BY <1>4, <1>5, <1>6, <1>7, <1>8, <1>9 DEF Good

(* How often the message of a tool is posted, and what the tool is told    *)
PlacedTruly(th, lost, tl) ==
  \A i \in Nat, k \in Tools : PlacedAt(th, i, k) =>
    /\ tl[k].at \in {"told", "refused"}
    /\ tl[k].at = "refused" => lost
    /\ \A j \in Nat : PlacedAt(th, j, k) => i = j
ToldTruly(th, tl) ==
  \A k \in Tools : tl[k].at = "told" => \E i \in Nat : PlacedAt(th, i, k)
AskedOnce(then, tl, queue) ==
  /\ \A i \in DOMAIN queue : /\ tl[queue[i]].at = "asked"
                             /\ \A j \in DOMAIN queue : queue[i] = queue[j] => i = j
  /\ then \in Tools => /\ tl[then].at = "asked"
                       /\ \A i \in DOMAIN queue : queue[i] # then
DirectLast(then, tl) == \A k \in Tools : tl[k].at = "direct" => then = "over"

Once(th, then, lost, tl, queue) ==
  /\ PlacedTruly(th, lost, tl) /\ ToldTruly(th, tl)
  /\ AskedOnce(then, tl, queue) /\ DirectLast(then, tl)

OnceNow == Once(thread, job.then, faults.lost, tool, asked)

Landed(w) == [w EXCEPT !.r.open = 0, !.r.placed = TRUE]

LEMMA LandedFacts ==
  ASSUME NEW w \in Worlds
  PROVE  LET v == Landed(w)
         IN  /\ v \in Worlds /\ v.th = w.th /\ v.j = w.j /\ v.f = w.f
             /\ v.r.open = 0 /\ v.r.placed /\ v.r.mode = w.r.mode
             /\ v.r.pending = w.r.pending /\ v.r.all = w.r.all /\ v.r.posted = w.r.posted
             /\ v.r.at = w.r.at /\ v.r.spent = w.r.spent /\ v.r.beats = w.r.beats
<1> DEFINE g == [w.r EXCEPT !.open = 0, !.placed = TRUE]
<1>1. w.r \in Fields
  BY WorldParts
<1>2. /\ g \in Fields /\ g.open = 0 /\ g.placed /\ g.mode = w.r.mode
      /\ g.pending = w.r.pending /\ g.all = w.r.all /\ g.posted = w.r.posted
      /\ g.at = w.r.at /\ g.spent = w.r.spent /\ g.beats = w.r.beats
  BY <1>1 DEF Fields
<1>3. Landed(w) = WithR(w, g)
  BY DEF Landed, WithR
<1> HIDE DEF g
<1> QED
  BY <1>2, <1>3, WithRFacts

LEMMA PlacedCall ==
  ASSUME NEW x \in Worlds, NEW k \in Tools,
         NEW v \in Called(x, PostMessage(x.th, "placed", <<k>>))
  PROVE  /\ v \in Worlds /\ v.r = x.r /\ v.j = x.j /\ Worse(x.f, v.f) /\ v.f.count \in Nat
         /\ v.said = "ok" => v.th = Append(x.th, Placing(k)) /\ v.f = x.f
         /\ v.said # "ok" /\ v.th # x.th => v.th = Append(x.th, Placing(k)) /\ v.f.lost
<1> DEFINE th2 == Append(x.th, Placing(k))
           a == Answer(th2, "ok")
<1>1. x.th \in Thread
  BY WorldParts
<1>2. th2 \in Thread /\ PostMessage(x.th, "placed", <<k>>) = a
  BY <1>1, PlacingFacts
<1> HIDE DEF th2
<1>3. a \in Answers /\ a.th = th2 /\ a.said = "ok"
  BY <1>2, AnswerFacts DEF Sayings
<1> HIDE DEF a
<1>4. v \in Called(x, a)
  BY <1>2
<1>5. /\ v \in Worlds
      /\ v.r = x.r /\ v.j = x.j
      /\ v.f.cut = x.f.cut /\ v.f.ends = x.f.ends
      /\ v.f.count >= x.f.count
      /\ x.f.lost => v.f.lost
      /\ \/ v.th = a.th /\ v.said = a.said /\ v.f = x.f
         \/ v.f.count > x.f.count /\ v.f.count # x.f.count /\ v.said = "failed"
      /\ v.th = x.th \/ v.th = a.th
      /\ v.said = "failed" => a.said = "failed" \/ v.th = x.th \/ (a.said = "ok" /\ v.f.lost)
  BY <1>3, <1>4, CalledFacts
<1>6. v.f.count \in Nat
  <2>1. v.f \in FaultsSet
    BY <1>5, WorldParts
  <2> QED
    BY <2>1, Bounds DEF FaultsSet
<1> QED
  BY <1>3, <1>5, <1>6 DEF Worse, th2

(* The thread stands as after a call that places the message of k. *)
LEMMA GoodCall ==
  ASSUME NEW x, NEW k \in Tools, NEW tl2,
         Good(hosts, x, said, tool), x.j.rest = <<>>, x.j.part = 0,
         \A i \in Nat : ~PlacedAt(x.th, i, k),
         NEW v \in Called(x, PostMessage(x.th, "placed", <<k>>)),
         NEW u \in Worlds, u.th = v.th, u.j = v.j, u.f = v.f,
         u.r.mode = v.r.mode, u.r.pending = v.r.pending, u.r.all = v.r.all,
         u.r.posted = v.r.posted, u.r.at = v.r.at, u.r.spent = v.r.spent,
         v.said = "ok" => u.r.placed \/ u.j.then = "over",
         u.r.placed = x.r.placed \/ (u.r.placed /\ v.said = "ok"),
         x.r.pending = <<>>,
         tl2[k].at = "told" => v.said = "ok" /\ tl2[k].after = said,
         \A y \in Tools : y # k => tl2[y] = tool[y]
  PROVE  Good(hosts, u, said, tl2)
<1>1. x \in Worlds /\ Fitting(hosts, x) /\ Shaped(x) /\ x.th \in Thread
  <2>1. x \in Worlds /\ Fitting(hosts, x) /\ Shaped(x)
    BY DEF Good, Fitting
  <2> QED
    BY <2>1, WorldParts
<1>2. /\ v \in Worlds /\ v.r = x.r /\ v.j = x.j /\ Worse(x.f, v.f) /\ v.f.count \in Nat
      /\ v.said = "ok" => v.th = Append(x.th, Placing(k)) /\ v.f = x.f
      /\ v.said # "ok" /\ v.th # x.th => v.th = Append(x.th, Placing(k)) /\ v.f.lost
  BY <1>1, PlacedCall
<1>3. v.f.count >= x.f.count /\ v.f.cut = x.f.cut
  BY <1>2 DEF Worse
<1>4. CASE v.th = Append(x.th, Placing(k))
  <2>1. x.r.placed => u.r.placed
    OBVIOUS
  <2>2. tl2[k].at = "told" => tl2[k].after = said /\ x.r.pending = <<>>
                               /\ (u.r.placed \/ u.j.then = "over")
    OBVIOUS
  <2>3. /\ u.th = Append(x.th, Placing(k)) /\ u.j = x.j
        /\ u.f.count \in Nat /\ u.f.count >= x.f.count /\ u.f.cut = x.f.cut
        /\ u.r.mode = x.r.mode /\ u.r.pending = x.r.pending /\ u.r.all = x.r.all
        /\ u.r.posted = x.r.posted /\ u.r.at = x.r.at /\ u.r.spent = x.r.spent
    BY <1>2, <1>3, <1>4
  <2>4. OthersAs(tool, tl2, k)
    BY DEF OthersAs
  <2>5. Lands(x.th, u.th, k)
    BY <2>3 DEF Lands
  <2> QED
    BY <2>1, <2>2, <2>3, <2>4, <2>5, GoodPlaced
<1>5. CASE v.th # Append(x.th, Placing(k))
  <2>1. v.said # "ok" /\ v.th = x.th /\ u.r.placed = x.r.placed
    BY <1>2, <1>5
  <2>2. Quiet(x.th, u.th)
    BY <1>1, <2>1, QuietSame
  <2>3. u.j.rest = x.j.rest /\ u.j.part = x.j.part /\ u.j.then = x.j.then
    BY <1>2
  <2>4. Moves(hosts, x, u)
    BY <1>1, <1>2, <1>3, <2>1, <2>2, <2>3, PlainMoves
  <2>5. Good(hosts, u, said, tool)
    BY <2>4, GoodMoves
  <2>6. \A y \in Tools : tl2[y].at = "told" => tl2[y] = tool[y]
    BY <2>1
  <2> QED
    BY <2>5, <2>6, GoodTools
<1> QED
  BY <1>4, <1>5

LEMMA ToldFacts ==
  ASSUME tool \in [Tools -> ToolRecs], NEW k \in Tools, NEW v, Told(k, v), said \in Nat
  PROVE  /\ tool' \in [Tools -> ToolRecs]
         /\ tool'[k].at = IF v.said = "ok" THEN "told" ELSE "refused"
         /\ tool'[k].after = said
         /\ \A y \in Tools : y # k => tool'[y] = tool[y]
<1> DEFINE g == [at |-> IF v.said = "ok" THEN "told" ELSE "refused", after |-> said]
<1>1. g \in ToolRecs /\ g.at = (IF v.said = "ok" THEN "told" ELSE "refused") /\ g.after = said
  BY DEF ToolRecs
<1>2. tool' = [tool EXCEPT ![k] = g]
  BY DEF Told
<1> HIDE DEF g
<1>3. tool' \in [Tools -> ToolRecs] /\ tool'[k] = g /\ \A y \in Tools : y # k => tool'[y] = tool[y]
  BY <1>1, <1>2
<1> QED
  BY <1>1, <1>3

LEMMA SaidNat == ASSUME IInv PROVE said \in Nat
<1>1. Counted(World, said)
  BY InvFacts
<1> QED
  BY <1>1 DEF Counted

LEMMA PlacesSound ==
  ASSUME IInv, OnceNow, NEW k \in Tools, Places(k)
  PROVE  IInv'
<1> DEFINE x == Resting(World)
<1>1. /\ job.then = k /\ job.rest = <<>> /\ job.part = 0
      /\ script' = script /\ hosts' = hosts /\ said' = said /\ beatOf' = beatOf /\ asked' = asked
  BY DEF Places, At
<1>2. PICK v \in Called(x, PostMessage(thread, "placed", <<k>>)) :
        Becomes(IF v.said = "ok" THEN Landed(v) ELSE v) /\ Told(k, v)
  BY DEF Places, Resting, Landed
<1>3. /\ World \in Worlds /\ reply \in Fields /\ Steady(World)
      /\ World.th = thread /\ World.r = reply /\ World.j = job /\ World.f = faults
      /\ Good(hosts, World, said, tool)
  BY WorldNow
<1>4. k # "over" /\ k # "read"
  BY NamesAssumption DEF Stages
<1>5. /\ x \in Worlds /\ x.th = thread /\ x.r = reply /\ x.f = faults /\ x.j = Reading
      /\ x.j.rest = <<>> /\ x.j.part = 0 /\ x.j.then = "read"
  BY <1>3, RestingFacts
<1> HIDE DEF x
<1>6. Good(hosts, x, said, tool)
  BY <1>1, <1>3, <1>4, <1>5, GoodPlain
<1>7. reply.pending = <<>> /\ reply.open \in 0 .. Len(reply.beats)
  BY <1>1, <1>3, <1>4 DEF Steady
<1>8. \A i \in Nat : ~PlacedAt(thread, i, k)
  BY <1>1 DEF OnceNow, Once, PlacedTruly, AskedOnce
<1>9. tool \in [Tools -> ToolRecs] /\ said \in Nat
  BY SaidNat DEF IInv, Typed
<1>10. /\ tool' \in [Tools -> ToolRecs]
       /\ tool'[k].at = IF v.said = "ok" THEN "told" ELSE "refused"
       /\ tool'[k].after = said
       /\ \A y \in Tools : y # k => tool'[y] = tool[y]
  BY <1>2, <1>9, ToldFacts
<1>11. v \in Called(x, PostMessage(x.th, "placed", <<k>>))
  BY <1>2, <1>5
<1>12. v \in Worlds /\ v.r = reply /\ v.j = Reading
  BY <1>5, <1>11, PlacedCall
<1> DEFINE u == IF v.said = "ok" THEN Landed(v) ELSE v
<1>13. /\ u \in Worlds /\ u.th = v.th /\ u.j = v.j /\ u.f = v.f
       /\ u.r.mode = v.r.mode /\ u.r.pending = v.r.pending /\ u.r.all = v.r.all
       /\ u.r.posted = v.r.posted /\ u.r.at = v.r.at /\ u.r.spent = v.r.spent
       /\ u.r.beats = v.r.beats
       /\ v.said = "ok" => u.r.placed /\ u.r.open = 0
       /\ v.said # "ok" => u = v
  BY <1>12, LandedFacts
<1> HIDE DEF u
<1>14. Good(hosts, u, said, tool')
  <2>1. u.r.placed = x.r.placed \/ (u.r.placed /\ v.said = "ok")
    BY <1>5, <1>12, <1>13
  <2>2. tool'[k].at = "told" => v.said = "ok" /\ tool'[k].after = said
    BY <1>10
  <2> QED
    BY <1>5, <1>6, <1>7, <1>8, <1>10, <1>11, <1>13, <2>1, <2>2, GoodCall
<1>15. Steady(u)
  <2>1. u.r.open \in 0 .. Len(u.r.beats)
    <3>1. Len(reply.beats) \in Nat
      BY <1>3 DEF Fields
    <3> QED
      BY <1>7, <1>12, <1>13, <3>1
  <2> QED
    BY <1>12, <1>13, <2>1, ReadingTyped DEF Steady
<1>16. Good(hosts, World, said, tool)' /\ Steady(World)'
  <2>1. Good(hosts', u, said', tool') /\ Becomes(u)
    BY <1>1, <1>2, <1>14 DEF u
  <2> QED
    BY <1>1, <1>15, <2>1, BecomesSound
<1>17. Typed'
  BY <1>1, <1>10 DEF IInv, Typed
<1> QED
  BY <1>16, <1>17 DEF IInv

LEMMA DirectSound ==
  ASSUME IInv, OnceNow, NEW k \in Tools, PostsDirectly(k)
  PROVE  IInv'
<1>1. /\ tool[k].at = "direct"
      /\ script' = script /\ hosts' = hosts /\ said' = said /\ beatOf' = beatOf /\ asked' = asked
  BY DEF PostsDirectly
<1>2. PICK v \in Called(World, PostMessage(thread, "placed", <<k>>)) : Becomes(v) /\ Told(k, v)
  BY DEF PostsDirectly
<1>3. /\ World \in Worlds /\ reply \in Fields /\ Steady(World) /\ Shaped(World)
      /\ World.th = thread /\ World.r = reply /\ World.j = job /\ World.f = faults
      /\ Good(hosts, World, said, tool)
  BY WorldNow
<1>4. job.then = "over" /\ \A i \in Nat : ~PlacedAt(thread, i, k)
  BY <1>1 DEF OnceNow, Once, PlacedTruly, DirectLast
<1>5. reply.pending = <<>> /\ job.rest = <<>> /\ job.part = 0
  BY <1>3, <1>4 DEF Steady, Shaped
<1>9. tool \in [Tools -> ToolRecs] /\ said \in Nat
  BY SaidNat DEF IInv, Typed
<1>10. /\ tool' \in [Tools -> ToolRecs]
       /\ tool'[k].at = IF v.said = "ok" THEN "told" ELSE "refused"
       /\ tool'[k].after = said
       /\ \A y \in Tools : y # k => tool'[y] = tool[y]
  BY <1>2, <1>9, ToldFacts
<1>11. v \in Called(World, PostMessage(World.th, "placed", <<k>>))
  BY <1>2, <1>3
<1>12. v \in Worlds /\ v.r = reply /\ v.j = job
  BY <1>3, <1>11, PlacedCall
<1>14. Good(hosts, v, said, tool')
  <2>2. tool'[k].at = "told" => v.said = "ok" /\ tool'[k].after = said
    BY <1>10
  <2> QED
    BY <1>3, <1>4, <1>5, <1>10, <1>11, <1>12, <2>2, GoodCall
<1>15. Steady(v)
  BY <1>3, <1>12 DEF Steady
<1>16. Good(hosts, World, said, tool)' /\ Steady(World)'
  <2>1. Good(hosts', v, said', tool')
    BY <1>1, <1>14
  <2> QED
    BY <1>1, <1>2, <1>15, <2>1, BecomesSound
<1>17. Typed'
  BY <1>1, <1>10 DEF IInv, Typed
<1> QED
  BY <1>16, <1>17 DEF IInv

(* The part of a whole message is posted at a, or is there instead. *)
Shows(w, v, part, a) ==
  /\ a \in Nat /\ a \in DOMAIN v.th /\ v.th[a].kind = "post" /\ v.th[a].text = part
  /\ DOMAIN w.th \subseteq DOMAIN v.th
  /\ \A j \in DOMAIN v.th \ {a} : j \in DOMAIN w.th /\ v.th[j] = w.th[j]
  /\ a > Len(w.th) \/ \E m \in DOMAIN w.r.posted : w.r.posted[m].at = a
  /\ \A m \in DOMAIN v.r.posted :
       v.r.posted[m].at = a \/ (m \in DOMAIN w.r.posted /\ v.r.posted[m].at = w.r.posted[m].at)

ShowsNothing(w, v) ==
  /\ v.th = w.th
  /\ \A m \in DOMAIN v.r.posted : m \in DOMAIN w.r.posted /\ v.r.posted[m].at = w.r.posted[m].at

LEMMA GoodShows ==
  ASSUME NEW h, NEW w, NEW v \in Worlds, NEW top, NEW tl, Good(h, w, top, tl), ~h,
         w.j.then # "over", ~w.r.placed, w.r.mode # "streaming",
         v.j.rest = w.j.rest, v.j.then = w.j.then,
         v.r.mode = w.r.mode, v.r.pending = w.r.pending, v.r.all = w.r.all,
         v.r.at = w.r.at, v.r.spent = w.r.spent, ~v.r.placed,
         NEW part, Within(part, w.r.all), NEW a,
         Shows(w, v, part, a) \/ ShowsNothing(w, v)
  PROVE  Good(h, v, top, tl)
<1>1. /\ w \in Worlds /\ w.th \in Thread /\ v.th \in Thread /\ w.r.at = 0 /\ w.r.spent <= Budget + 2
      /\ w.r.all \in Seq(Int)
  <2>1. w \in Worlds /\ w.r.at = 0 /\ w.r.spent <= Budget + 2
    BY DEF Good, Fitting
  <2>2. w.r \in Fields
    BY <2>1, WorldParts
  <2> QED
    BY <2>1, <2>2, WorldParts DEF Fields
<1>2. Left(v, top) = Left(w, top) /\ Left(w, top) \in Nat
  BY DEF Left, Good, Counted
<1>3. Fitting(h, v)
  BY <1>1 DEF Fitting, StreamAt
<1>4. Counted(v, top)
  BY <1>2 DEF Good, Counted
<1>5. part \in Seq(Int) /\ \A p \in DOMAIN part : \E q \in DOMAIN w.r.all : part[p] = w.r.all[q]
  BY DEF Within
<1>6. \A p \in DOMAIN w.r.all : w.r.all[p] <= Left(w, top)
  BY DEF Good, Under
<1>7. AllUnder(w.th, Left(w, top))
  BY DEF Good, Under
<1>8. \A m \in DOMAIN w.r.posted : /\ w.r.posted[m].at \in DOMAIN w.th
                                   /\ w.th[w.r.posted[m].at].kind = "post"
  BY DEF Good, Shaped
<1>9. Reads(h, v, top)
  BY DEF Reads
<1>10. CASE ShowsNothing(w, v)
  <2>1. v.th = w.th
    BY <1>10 DEF ShowsNothing
  <2>2. Shaped(v)
    <3>1. \A m \in DOMAIN v.r.posted : /\ v.r.posted[m].at \in DOMAIN v.th
                                       /\ v.th[v.r.posted[m].at].kind = "post"
      BY <1>8, <1>10 DEF ShowsNothing
    <3> QED
      BY <3>1 DEF Shaped
  <2>3. Under(v, top)
    BY <1>2, <1>6, <1>7, <2>1 DEF Under
  <2>4. Below(v, top, tl)
    <3> SUFFICES ASSUME NEW i \in Nat, NEW k \in Tools, PlacedAt(v.th, i, k), tl[k].at = "told"
                 PROVE  /\ tl[k].after \in Nat /\ tl[k].after <= Left(v, top)
                        /\ Parted(v.th, i, tl[k].after)
                        /\ Clear(v, i, tl[k].after)
      BY DEF Below
    <3>1. /\ tl[k].after \in Nat /\ tl[k].after <= Left(w, top)
          /\ Parted(w.th, i, tl[k].after)
          /\ Clear(w, i, tl[k].after)
      BY <2>1 DEF Good, Below
    <3>2. \A m \in DOMAIN v.r.posted : v.r.posted[m].at > i
      BY <1>10, <3>1 DEF Clear, ShowsNothing
    <3>3. Clear(v, i, tl[k].after)
      BY <1>1, <3>1, <3>2 DEF Clear
    <3> QED
      BY <1>2, <2>1, <3>1, <3>3
  <2> QED
    BY <1>3, <1>4, <1>9, <2>2, <2>3, <2>4 DEF Good
<1>11. CASE Shows(w, v, part, a)
  <2>1. /\ a \in Nat /\ a \in DOMAIN v.th /\ v.th[a].kind = "post" /\ v.th[a].text = part
        /\ DOMAIN w.th \subseteq DOMAIN v.th
        /\ \A j \in DOMAIN v.th \ {a} : j \in DOMAIN w.th /\ v.th[j] = w.th[j]
        /\ a > Len(w.th) \/ \E m \in DOMAIN w.r.posted : w.r.posted[m].at = a
        /\ \A m \in DOMAIN v.r.posted :
             v.r.posted[m].at = a \/ (m \in DOMAIN w.r.posted /\ v.r.posted[m].at = w.r.posted[m].at)
    BY <1>11 DEF Shows
  <2>2. Shaped(v)
    <3>1. ASSUME NEW m \in DOMAIN v.r.posted
          PROVE  v.r.posted[m].at \in DOMAIN v.th /\ v.th[v.r.posted[m].at].kind = "post"
      <4>1. CASE v.r.posted[m].at = a
        BY <2>1, <4>1
      <4>2. CASE v.r.posted[m].at # a
        <5>1. m \in DOMAIN w.r.posted /\ v.r.posted[m].at = w.r.posted[m].at
          BY <2>1, <3>1, <4>2
        <5>2. v.r.posted[m].at \in DOMAIN w.th /\ w.th[v.r.posted[m].at].kind = "post"
          BY <1>8, <5>1
        <5>3. v.r.posted[m].at \in DOMAIN v.th \ {a}
          BY <2>1, <4>2, <5>2
        <5> QED
          BY <2>1, <5>2, <5>3
      <4> QED
        BY <4>1, <4>2
    <3> QED
      BY <3>1 DEF Shaped
  <2>3. SaidIn(v.th[a]) = {p \in DOMAIN part : part[p] > 0}
    BY <2>1 DEF SaidIn
  <2>4. Under(v, top)
    <3>1. ASSUME NEW j \in DOMAIN v.th, NEW p \in SaidIn(v.th[j])
          PROVE  v.th[j].text[p] <= Left(w, top)
      <4>1. CASE j = a
        <5>1. p \in DOMAIN part /\ v.th[j].text[p] = part[p]
          BY <2>1, <2>3, <3>1, <4>1
        <5> QED
          BY <1>5, <1>6, <5>1
      <4>2. CASE j # a
        <5>1. j \in DOMAIN w.th /\ v.th[j] = w.th[j]
          BY <2>1, <3>1, <4>2
        <5> QED
          BY <1>7, <3>1, <5>1 DEF AllUnder
      <4> QED
        BY <4>1, <4>2
    <3>2. AllUnder(v.th, Left(v, top))
      BY <1>2, <3>1 DEF AllUnder
    <3> QED
      BY <1>2, <1>6, <3>2 DEF Under
  <2>5. Below(v, top, tl)
    <3> SUFFICES ASSUME NEW i \in Nat, NEW k \in Tools, PlacedAt(v.th, i, k), tl[k].at = "told"
                 PROVE  /\ tl[k].after \in Nat /\ tl[k].after <= Left(v, top)
                        /\ Parted(v.th, i, tl[k].after)
                        /\ Clear(v, i, tl[k].after)
      BY DEF Below
    <3>1. i # a /\ i \in DOMAIN w.th /\ PlacedAt(w.th, i, k)
      BY <2>1 DEF PlacedAt
    <3>2. /\ tl[k].after \in Nat /\ tl[k].after <= Left(w, top)
          /\ Parted(w.th, i, tl[k].after)
          /\ Clear(w, i, tl[k].after)
      BY <3>1 DEF Good, Below
    <3>3. /\ \A m \in DOMAIN w.r.posted : w.r.posted[m].at > i
          /\ \A p \in DOMAIN w.r.all : w.r.all[p] > 0 => w.r.all[p] > tl[k].after
      BY <3>2 DEF Clear
    <3>4. a > i
      <4>1. i <= Len(w.th) /\ Len(w.th) \in Nat
        BY <1>1, <3>1 DEF Thread
      <4> QED
        BY <2>1, <3>3, <4>1
    <3>5. \A m \in DOMAIN v.r.posted : v.r.posted[m].at > i
      BY <2>1, <3>3, <3>4
    <3>6. Clear(v, i, tl[k].after)
      BY <1>1, <3>3, <3>5 DEF Clear
    <3>7. ASSUME NEW j \in DOMAIN v.th, NEW p \in SaidIn(v.th[j])
          PROVE  IF v.th[j].text[p] <= tl[k].after THEN j < i ELSE j > i
      <4>1. CASE j = a
        <5>1. p \in DOMAIN part /\ v.th[j].text[p] = part[p] /\ part[p] > 0
          BY <2>1, <2>3, <3>7, <4>1
        <5>2. PICK q \in DOMAIN w.r.all : part[p] = w.r.all[q]
          BY <1>5, <5>1
        <5>3. w.r.all[q] \in Int /\ w.r.all[q] > tl[k].after
          BY <1>1, <3>3, <5>1, <5>2
        <5>4. ~(v.th[j].text[p] <= tl[k].after)
          BY <3>2, <5>1, <5>2, <5>3
        <5> QED
          BY <3>4, <4>1, <5>4
      <4>2. CASE j # a
        <5>1. j \in DOMAIN w.th /\ v.th[j] = w.th[j]
          BY <2>1, <3>7, <4>2
        <5> QED
          BY <3>2, <3>7, <5>1 DEF Parted
      <4> QED
        BY <4>1, <4>2
    <3>8. Parted(v.th, i, tl[k].after)
      BY <3>7 DEF Parted
    <3> QED
      BY <1>2, <3>2, <3>6, <3>8
  <2> QED
    BY <1>3, <1>4, <1>9, <2>2, <2>4, <2>5 DEF Good
<1> QED
  BY <1>10, <1>11

TurnTo(w, n)       == WithJ(w, [w.j EXCEPT !.part = n])
Reshown(w, i, part) == [w EXCEPT !.r.posted[i].shown = part]
ShownToo(w, part)  ==
  [w EXCEPT !.r.posted = Append(@, [at |-> Len(w.th), shown |-> part])]

LEMMA TurnToFacts ==
  ASSUME NEW w \in Worlds, NEW n \in Nat
  PROVE  LET v == TurnTo(w, n)
         IN  /\ v \in Worlds /\ v.th = w.th /\ v.r = w.r /\ v.f = w.f
             /\ v.j.rest = w.j.rest /\ v.j.part = n /\ v.j.then = w.j.then
<1> DEFINE g == [w.j EXCEPT !.part = n]
<1>1. w.j \in Jobs
  BY WorldParts
<1>2. g \in Jobs /\ g.rest = w.j.rest /\ g.part = n /\ g.then = w.j.then
  BY <1>1 DEF Jobs
<1>3. TurnTo(w, n) = WithJ(w, g)
  BY DEF TurnTo
<1> HIDE DEF g
<1> QED
  BY <1>2, <1>3, WithJFacts

(* The parts posted so far, of which the world has new ones *)
PostedAs(w, v, posted) ==
  /\ v \in Worlds /\ v.th = w.th /\ v.j = w.j /\ v.f = w.f
  /\ v.r.posted = posted /\ v.r.mode = w.r.mode /\ v.r.at = w.r.at /\ v.r.spent = w.r.spent
  /\ v.r.pending = w.r.pending /\ v.r.placed = w.r.placed /\ v.r.all = w.r.all
  /\ v.r.beats = w.r.beats /\ v.r.open = w.r.open

LEMMA PostedFacts ==
  ASSUME NEW w \in Worlds, NEW posted \in Seq(Post)
  PROVE  PostedAs(w, WithR(w, [w.r EXCEPT !.posted = posted]), posted)
<1> DEFINE g == [w.r EXCEPT !.posted = posted]
<1>1. w.r \in Fields
  BY WorldParts
<1>2. /\ g \in Fields /\ g.posted = posted /\ g.mode = w.r.mode /\ g.at = w.r.at
      /\ g.spent = w.r.spent /\ g.pending = w.r.pending /\ g.placed = w.r.placed
      /\ g.all = w.r.all /\ g.beats = w.r.beats /\ g.open = w.r.open
  BY <1>1 DEF Fields
<1> HIDE DEF g
<1>3. /\ WithR(w, g) \in Worlds /\ WithR(w, g).th = w.th /\ WithR(w, g).r = g
      /\ WithR(w, g).j = w.j /\ WithR(w, g).f = w.f
  BY <1>2, WithRFacts
<1>4. PostedAs(w, WithR(w, g), posted)
  BY <1>2, <1>3 DEF PostedAs
<1> QED
  BY <1>4 DEF g

LEMMA ReshownFacts ==
  ASSUME NEW w \in Worlds, NEW i \in DOMAIN w.r.posted, NEW part \in Seq(Int)
  PROVE  \E posted \in Seq(Post) :
           /\ PostedAs(w, Reshown(w, i, part), posted)
           /\ DOMAIN posted = DOMAIN w.r.posted
           /\ \A m \in DOMAIN posted : posted[m].at = w.r.posted[m].at
<1> DEFINE old  == w.r.posted
           one  == [old[i] EXCEPT !.shown = part]
           new  == [old EXCEPT ![i] = one]
<1>1. old \in Seq(Post)
  <2>1. w.r \in Fields
    BY WorldParts
  <2> QED
    BY <2>1 DEF Fields
<1>2. old[i] \in Post
  BY <1>1
<1>3. one \in Post /\ one.at = old[i].at
  BY <1>2 DEF Post
<1>4. Reshown(w, i, part) = [w EXCEPT !.r = [w.r EXCEPT !.posted = new]]
  BY DEF Reshown
<1>5. Reshown(w, i, part) = WithR(w, [w.r EXCEPT !.posted = new])
  BY <1>4 DEF WithR
<1> HIDE DEF one, old
<1>6. /\ new \in Seq(Post) /\ DOMAIN new = DOMAIN old
      /\ \A m \in DOMAIN new : new[m].at = old[m].at
  BY <1>1, <1>3 DEF old
<1> HIDE DEF new
<1>7. PostedAs(w, Reshown(w, i, part), new)
  BY <1>5, <1>6, PostedFacts
<1> QED
  BY <1>6, <1>7 DEF old

LEMMA ShownTooFacts ==
  ASSUME NEW w \in Worlds, NEW part \in Seq(Int)
  PROVE  \E posted \in Seq(Post) :
           /\ PostedAs(w, ShownToo(w, part), posted)
           /\ \A m \in DOMAIN posted :
                posted[m].at = Len(w.th) \/ (m \in DOMAIN w.r.posted /\ posted[m].at = w.r.posted[m].at)
<1> DEFINE old  == w.r.posted
           one  == [at |-> Len(w.th), shown |-> part]
           new  == Append(old, one)
<1>1. old \in Seq(Post) /\ w.th \in Thread
  <2>1. w.r \in Fields
    BY WorldParts
  <2> QED
    BY <2>1, WorldParts DEF Fields
<1>2. one \in Post /\ one.at = Len(w.th)
  BY <1>1 DEF Post, Thread
<1>3. ShownToo(w, part) = WithR(w, [w.r EXCEPT !.posted = new])
  BY DEF ShownToo, WithR
<1> HIDE DEF one
<1>4. /\ new \in Seq(Post) /\ DOMAIN new = 1 .. Len(old) + 1 /\ DOMAIN old = 1 .. Len(old)
      /\ Len(old) \in Nat
      /\ new[Len(old) + 1] = one
      /\ \A m \in 1 .. Len(old) : new[m] = old[m]
  BY <1>1, <1>2
<1> HIDE DEF new, old
<1>5. PostedAs(w, ShownToo(w, part), new)
  BY <1>3, <1>4, PostedFacts
<1>6. ASSUME NEW m \in DOMAIN new
      PROVE  new[m].at = Len(w.th) \/ (m \in DOMAIN old /\ new[m].at = old[m].at)
  <2>1. CASE m = Len(old) + 1
    BY <1>2, <1>4, <2>1
  <2>2. CASE m # Len(old) + 1
    <3>1. m \in 1 .. Len(old)
      BY <1>4, <1>6, <2>2
    <3> QED
      BY <1>4, <3>1
  <2> QED
    BY <2>1, <2>2
<1> QED
  BY <1>4, <1>5, <1>6 DEF old

(* The messages that hold words *)
LEMMA PostAnswer ==
  ASSUME NEW th \in Thread, NEW part \in Seq(Int), NEW a, a = PostMessage(th, "post", part)
  PROVE  /\ a \in Answers
         /\ a.th = th \/ a.th = Append(th, NewMessage("post", part))
         /\ a.said = "ok" => a.th = Append(th, NewMessage("post", part))
<1> DEFINE th2 == Append(th, NewMessage("post", part))
<1>1. NewMessage("post", part) \in Message
  BY NewMessageTyped
<1>2. th2 \in Thread
  BY <1>1 DEF Thread
<1>3. a = IF part = <<>> THEN Answer(th, "no_text") ELSE Answer(th2, "ok")
  BY DEF PostMessage
<1> HIDE DEF th2
<1>4. CASE part = <<>>
  BY <1>3, <1>4, AnswerFacts DEF Sayings
<1>5. CASE part # <<>>
  <2>1. a \in Answers /\ a.th = th2
    BY <1>2, <1>3, <1>5, AnswerFacts DEF Sayings
  <2> QED
    BY <2>1 DEF th2
<1> QED
  BY <1>4, <1>5

Rewritten(m, part) == [m EXCEPT !.text = part]

LEMMA UpdateAnswer ==
  ASSUME NEW th \in Thread, NEW i \in DOMAIN th, th[i].kind = "post", NEW part \in Seq(Int),
         NEW a, a = UpdateMessage(th, i, part)
  PROVE  /\ a \in Answers
         /\ a.th = th \/ a.th = [th EXCEPT ![i] = Rewritten(th[i], part)]
         /\ Rewritten(th[i], part) \in Message
         /\ Rewritten(th[i], part).kind = "post" /\ Rewritten(th[i], part).text = part
<1> DEFINE th2 == [th EXCEPT ![i] = Rewritten(th[i], part)]
<1>1. th[i] \in Message /\ part \in Seq(Int \cup Tools)
  BY DEF Thread
<1>2. /\ Rewritten(th[i], part) \in Message
      /\ Rewritten(th[i], part).kind = "post" /\ Rewritten(th[i], part).text = part
  BY <1>1 DEF Message, Rewritten
<1>3. th2 \in Thread
  BY <1>2 DEF Thread
<1>4. a = IF part = <<>> THEN Answer(th, "no_text") ELSE Answer(th2, "ok")
  BY DEF UpdateMessage, Rewritten
<1> HIDE DEF th2
<1>5. CASE part = <<>>
  BY <1>2, <1>4, <1>5, AnswerFacts DEF Sayings
<1>6. CASE part # <<>>
  BY <1>2, <1>3, <1>4, <1>6, AnswerFacts DEF Sayings, th2
<1> QED
  BY <1>5, <1>6

LEMMA RepostSound ==
  ASSUME IInv, Repost
  PROVE  IInv'
<1> DEFINE parts == Parts(reply.all)
           i     == job.part
           part  == parts[i]
           known == i \in DOMAIN reply.posted
           n     == IF i < Len(parts) THEN i + 1 ELSE 0
           next  == TurnTo(World, n)
           Shown(c) == IF c.said = "ok" THEN Reshown(c, i, part) ELSE c
           Added(c) == IF c.said = "ok" THEN ShownToo(c, part) ELSE TurnTo(c, 0)
<1>1. /\ i # 0
      /\ script' = script /\ hosts' = hosts /\ said' = said /\ tool' = tool /\ beatOf' = beatOf
      /\ asked' = asked
  BY DEF Repost
<1>2. PICK w \in IF known /\ reply.posted[i].shown = part THEN {next}
                 ELSE IF known
                   THEN {Shown(c) : c \in Called(next, UpdateMessage(thread, reply.posted[i].at, part))}
                 ELSE {Added(c) : c \in Called(next, PostMessage(thread, "post", part))} :
           Becomes(w)
  BY DEF Repost, TurnTo, WithJ, Reshown, ShownToo
<1>3. /\ World \in Worlds /\ thread \in Thread /\ reply \in Fields /\ job \in Jobs
      /\ Fitting(hosts, World) /\ Shaped(World) /\ Steady(World)
      /\ World.th = thread /\ World.r = reply /\ World.j = job /\ World.f = faults
      /\ Good(hosts, World, said, tool)
  BY WorldNow
<1>4. ~hosts /\ reply.mode # "streaming" /\ ~reply.placed /\ job.then # "over"
  BY <1>1, <1>3 DEF Shaped, Fitting
<1>5. reply.all \in Seq(Int) /\ reply.posted \in Seq(Post)
  BY <1>3 DEF Fields
<1>6. /\ Len(parts) \in Nat /\ Len(parts) >= 1
      /\ \A m \in 1 .. Len(parts) : Within(parts[m], reply.all)
  BY <1>5, PartsFacts
<1>7. i \in 1 .. Len(parts) /\ i \in Nat
  <2>1. i \in Nat
    BY <1>3 DEF Jobs
  <2>2. i <= Len(parts)
    BY <1>1, <1>3 DEF Steady
  <2> QED
    BY <1>1, <1>6, <2>1, <2>2
<1> HIDE DEF parts
<1>8. Within(part, reply.all) /\ part \in Seq(Int)
  BY <1>6, <1>7 DEF Within
<1>9. n \in Nat /\ (n # 0 => n <= Len(parts))
  BY <1>6, <1>7
<1> HIDE DEF n, part, i
<1>10. /\ next \in Worlds /\ next.th = thread /\ next.r = reply /\ next.f = faults
       /\ next.j.rest = job.rest /\ next.j.part = n /\ next.j.then = job.then
  BY <1>3, <1>9, TurnToFacts
<1> HIDE DEF next
<1>11. ASSUME NEW v \in Worlds, v.j.rest = job.rest, v.j.then = job.then, v.j.part \in {n, 0},
              v.r.mode = reply.mode, v.r.pending = reply.pending, v.r.all = reply.all,
              v.r.at = reply.at, v.r.spent = reply.spent, v.r.placed = reply.placed,
              v.r.beats = reply.beats, v.r.open = reply.open,
              NEW a, Shows(World, v, part, a) \/ ShowsNothing(World, v)
       PROVE  Good(hosts, v, said, tool) /\ Steady(v)
  <2>1. Good(hosts, v, said, tool)
    BY <1>3, <1>4, <1>8, <1>11, GoodShows
  <2>2. v.j.part # 0 => v.j.part <= Len(Parts(v.r.all))
    BY <1>9, <1>11 DEF parts
  <2>3. Steady(v)
    BY <1>3, <1>11, <2>2 DEF Steady
  <2> QED
    BY <2>1, <2>3
<1>12. Good(hosts, w, said, tool) /\ Steady(w)
  <2>1. CASE known /\ reply.posted[i].shown = part
    <3>1. w = next
      BY <1>2, <2>1
    <3>2. ShowsNothing(World, w)
      BY <1>3, <1>10, <3>1 DEF ShowsNothing
    <3> QED
      BY <1>10, <1>11, <3>1, <3>2
  <2>2. CASE known /\ reply.posted[i].shown # part
    <3> DEFINE at == reply.posted[i].at
               m  == Rewritten(thread[at], part)
               an == UpdateMessage(thread, at, part)
    <3>1. at \in DOMAIN thread /\ thread[at].kind = "post"
      BY <1>3, <2>2 DEF Shaped
    <3>2. /\ an \in Answers
          /\ an.th = thread \/ an.th = [thread EXCEPT ![at] = m]
          /\ m \in Message /\ m.kind = "post" /\ m.text = part
      BY <1>3, <1>8, <3>1, UpdateAnswer
    <3>3. PICK c \in Called(next, an) : w = Shown(c)
      BY <1>2, <2>2
    <3>4. at \in Nat
      BY <1>3, <3>1 DEF Thread
    <3> HIDE DEF at, m, an, Shown
    <3>5. /\ c \in Worlds /\ c.r = reply /\ c.j = next.j
          /\ c.th = thread \/ c.th = [thread EXCEPT ![at] = m]
      BY <1>10, <3>2, <3>3, CalledFacts
    <3>6. ASSUME NEW v, v.th = c.th, NEW posted, v.r.posted = posted,
                 DOMAIN posted = DOMAIN reply.posted,
                 \A x \in DOMAIN posted : posted[x].at = reply.posted[x].at
          PROVE  Shows(World, v, part, at) \/ ShowsNothing(World, v)
      <4>1. CASE c.th = thread
        BY <1>3, <3>6, <4>1 DEF ShowsNothing
      <4>2. CASE c.th = [thread EXCEPT ![at] = m]
        <5>1. /\ DOMAIN v.th = DOMAIN thread /\ v.th[at] = m
              /\ \A j \in DOMAIN thread \ {at} : v.th[j] = thread[j]
          BY <1>3, <3>1, <3>6, <4>2 DEF Thread
        <5>2. \E x \in DOMAIN reply.posted : reply.posted[x].at = at
          BY <2>2 DEF at
        <5> QED
          BY <1>3, <3>1, <3>2, <3>4, <3>6, <5>1, <5>2 DEF Shows
      <4> QED
        BY <3>5, <4>1, <4>2
    <3>7. CASE c.said = "ok"
      <4>1. w = Reshown(c, i, part)
        BY <3>3, <3>7 DEF Shown
      <4>2. i \in DOMAIN c.r.posted
        BY <2>2, <3>5
      <4>3. PICK posted \in Seq(Post) :
              /\ PostedAs(c, Reshown(c, i, part), posted)
              /\ DOMAIN posted = DOMAIN c.r.posted
              /\ \A x \in DOMAIN posted : posted[x].at = c.r.posted[x].at
        BY <1>8, <3>5, <4>2, ReshownFacts
      <4>4. PostedAs(c, w, posted)
        BY <4>1, <4>3
      <4>5. Shows(World, w, part, at) \/ ShowsNothing(World, w)
        <5>1. w.th = c.th /\ w.r.posted = posted
          BY <4>4 DEF PostedAs
        <5> QED
          BY <3>5, <3>6, <4>3, <5>1
      <4> QED
        BY <1>10, <1>11, <3>5, <4>4, <4>5 DEF PostedAs
    <3>8. CASE c.said # "ok"
      <4>1. w = c
        BY <3>3, <3>8 DEF Shown
      <4>2. Shows(World, w, part, at) \/ ShowsNothing(World, w)
        BY <3>5, <3>6, <4>1
      <4> QED
        BY <1>10, <1>11, <3>5, <4>1, <4>2
    <3> QED
      BY <3>7, <3>8
  <2>3. CASE ~known
    <3> DEFINE m  == NewMessage("post", part)
               an == PostMessage(thread, "post", part)
               at == Len(thread) + 1
    <3>1. /\ an \in Answers
          /\ an.th = thread \/ an.th = Append(thread, m)
          /\ an.said = "ok" => an.th = Append(thread, m)
      BY <1>3, <1>8, PostAnswer
    <3>2. m \in Message /\ m.kind = "post" /\ m.text = part
      <4>1. /\ m \in Message
            /\ m = [kind |-> "post", text |-> part, lists |-> <<>>, state |-> "whole"]
        BY <1>8, NewMessageTyped
      <4> HIDE DEF m
      <4> QED
        BY <4>1
    <3>3. PICK c \in Called(next, an) : w = Added(c)
      BY <1>2, <2>3
    <3>4. Len(thread) \in Nat /\ at \in Nat /\ at > Len(thread)
      BY <1>3 DEF Thread
    <3> HIDE DEF m, an, Added
    <3>5. /\ c \in Worlds /\ c.r = reply /\ c.j = next.j
          /\ c.th = thread \/ c.th = Append(thread, m)
          /\ c.said = "ok" => c.th = Append(thread, m)
      <4>1. /\ c \in Worlds
            /\ c.r = next.r /\ c.j = next.j
            /\ \/ c.th = an.th /\ c.said = an.said /\ c.f = next.f
               \/ c.f.count > next.f.count /\ c.f.count # next.f.count /\ c.said = "failed"
            /\ c.th = next.th \/ c.th = an.th
        BY <1>10, <3>1, <3>3, CalledFacts
      <4> QED
        BY <1>10, <3>1, <4>1
    <3>6. ASSUME NEW v, v.th = c.th, NEW posted, v.r.posted = posted, c.th # thread \/ posted = reply.posted,
                 \A x \in DOMAIN posted :
                   posted[x].at = at \/ (x \in DOMAIN reply.posted /\ posted[x].at = reply.posted[x].at)
          PROVE  Shows(World, v, part, at) \/ ShowsNothing(World, v)
      <4>1. CASE c.th = thread
        BY <1>3, <3>6, <4>1 DEF ShowsNothing
      <4>2. CASE c.th = Append(thread, m)
        <5>1. /\ DOMAIN v.th = 1 .. at /\ DOMAIN thread = 1 .. Len(thread) /\ v.th[at] = m
              /\ \A j \in 1 .. Len(thread) : v.th[j] = thread[j]
          BY <1>3, <3>2, <3>6, <4>2 DEF Thread
        <5>2. \A j \in DOMAIN v.th \ {at} : j \in DOMAIN thread /\ v.th[j] = thread[j]
          BY <3>4, <5>1
        <5>3. DOMAIN thread \subseteq DOMAIN v.th /\ at \in DOMAIN v.th
          BY <3>4, <5>1
        <5> HIDE DEF at
        <5> QED
          BY <1>3, <3>2, <3>4, <3>6, <5>1, <5>2, <5>3 DEF Shows
      <4> QED
        BY <3>5, <4>1, <4>2
    <3>7. CASE c.said = "ok"
      <4>1. w = ShownToo(c, part) /\ c.th = Append(thread, m)
        BY <3>3, <3>5, <3>7 DEF Added
      <4>2. PICK posted \in Seq(Post) :
              /\ PostedAs(c, ShownToo(c, part), posted)
              /\ \A x \in DOMAIN posted :
                   posted[x].at = Len(c.th) \/ (x \in DOMAIN c.r.posted /\ posted[x].at = c.r.posted[x].at)
        BY <1>8, <3>5, ShownTooFacts
      <4>3. PostedAs(c, w, posted)
        BY <4>1, <4>2
      <4>4. Len(c.th) = at /\ c.th # thread
        <5>1. Len(c.th) = Len(thread) + 1
          BY <1>3, <3>2, <4>1 DEF Thread
        <5> QED
          BY <3>4, <5>1
      <4>5. Shows(World, w, part, at) \/ ShowsNothing(World, w)
        <5>1. w.th = c.th /\ w.r.posted = posted
          BY <4>3 DEF PostedAs
        <5> HIDE DEF at
        <5> QED
          BY <3>5, <3>6, <4>2, <4>4, <5>1
      <4> HIDE DEF at
      <4> QED
        BY <1>10, <1>11, <3>5, <4>3, <4>5 DEF PostedAs
    <3>8. CASE c.said # "ok"
      <4>1. w = TurnTo(c, 0)
        BY <3>3, <3>8 DEF Added
      <4>2. /\ w \in Worlds /\ w.th = c.th /\ w.r = c.r /\ w.f = c.f
            /\ w.j.rest = c.j.rest /\ w.j.part = 0 /\ w.j.then = c.j.then
        BY <3>5, <4>1, TurnToFacts
      <4> HIDE DEF at
      <4>3. Shows(World, w, part, at) \/ ShowsNothing(World, w)
        BY <3>5, <3>6, <4>2
      <4> QED
        BY <1>10, <1>11, <3>5, <4>2, <4>3
    <3> QED
      BY <3>7, <3>8
  <2> QED
    BY <2>1, <2>2, <2>3
<1>13. Good(hosts, World, said, tool)' /\ Steady(World)'
  <2>1. Good(hosts', w, said', tool') /\ Becomes(w)
    BY <1>1, <1>2, <1>12
  <2> QED
    BY <1>1, <1>12, <2>1, BecomesSound
<1>14. Typed'
  BY <1>1 DEF IInv, Typed
<1> QED
  BY <1>13, <1>14 DEF IInv

(* No message of a tool comes or goes, and no answer missed is forgotten. *)
Kept(th, th2) == \A i, k : PlacedAt(th2, i, k) <=> PlacedAt(th, i, k)
KeptBy(w, v)  == Kept(w.th, v.th) /\ (w.f.lost => v.f.lost)
KeptNow       == Kept(thread, thread') /\ (faults.lost => faults'.lost)

LEMMA KeptTwice ==
  ASSUME NEW a, NEW b, NEW c, KeptBy(a, b), KeptBy(b, c)
  PROVE  KeptBy(a, c)
BY DEF KeptBy, Kept

LEMMA KeptSame ==
  ASSUME NEW a, NEW b, b.th = a.th, b.f = a.f
  PROVE  KeptBy(a, b)
BY DEF KeptBy, Kept

LEMMA QuietKept ==
  ASSUME NEW a, NEW b, Quiet(a.th, b.th), Worse(a.f, b.f)
  PROVE  KeptBy(a, b)
BY QuietPlaced DEF KeptBy, Kept, Worse

LEMMA WrittenKept ==
  ASSUME NEW th \in Thread, NEW th2, NEW c \in Chunks, NEW x, Written(th, th2, c, x)
  PROVE  Kept(th, th2)
<1>1. PICK th1 \in Thread :
        /\ Quiet(th, th1)
        /\ x \in DOMAIN th1 /\ th1[x].kind = "stream"
        /\ th2 = [th1 EXCEPT ![x] = Apply(th1[x], c)]
  BY DEF Written
<1>2. Apply(th1[x], c).kind = "stream"
  <2>1. th1[x] \in Message
    BY <1>1 DEF Thread
  <2> QED
    BY <1>1, <2>1, ApplyTyped
<1>3. ASSUME NEW i, NEW k PROVE PlacedAt(th2, i, k) <=> PlacedAt(th1, i, k)
  BY <1>1, <1>2 DEF PlacedAt, Thread
<1> QED
  BY <1>1, <1>3, QuietPlaced DEF Kept

LEMMA EmitKept ==
  ASSUME NEW w, Fitting(hosts, w), NEW cut \in 0 .. Len(w.r.pending), NEW v \in Emit(w, cut)
  PROVE  KeptBy(w, v) /\ v.j.then = w.j.then
<1>1. CASE cut = 0
  <2>1. v = w
    BY <1>1 DEF Emit
  <2> QED
    BY <2>1, KeptSame
<1>2. CASE cut # 0
  <2>1. cut \in 1 .. Len(w.r.pending)
    <3>1. w \in Worlds
      BY DEF Fitting
    <3>2. w.r \in Fields
      BY <3>1, WorldParts
    <3>3. Len(w.r.pending) \in Nat
      BY <3>2 DEF Fields
    <3> QED
      BY <1>2, <3>3
  <2>2. Worse(w.f, v.f) /\ Quiet(w.th, v.th) /\ v.j.then = w.j.then
    BY <2>1, EmitFacts
  <2> QED
    BY <2>2, QuietKept
<1> QED
  BY <1>1, <1>2

LEMMA BecomesKept ==
  ASSUME NEW v, KeptBy(World, v), Becomes(v)
  PROVE  KeptNow /\ job' = v.j
BY WorldIs DEF KeptBy, KeptNow, Becomes

LEMMA WritesKept ==
  ASSUME NEW r \in Fields, World \in Worlds, Fitting(hosts, World),
         r.mode = reply.mode, r.at = reply.at, r.spent = reply.spent,
         NEW then \in Stages \cup Tasks \cup Tools,
         NEW cut \in 0 .. Len(r.pending), Writes(r, cut, then)
  PROVE  KeptNow /\ job'.then = then
<1> DEFINE x == WithR(World, r)
           y == GoingOn(x, then)
<1>1. /\ x \in Worlds /\ x.th = thread /\ x.r = r /\ x.j = job /\ x.f = faults
  BY WithRFacts, WorldIs
<1>2. PICK v \in Emit([World EXCEPT !.r = r, !.j.then = then], cut) : Becomes(v)
  BY DEF Writes
<1>3. y = [World EXCEPT !.r = r, !.j.then = then]
  BY DEF GoingOn, WithR, WithJ, World
<1> HIDE DEF x
<1>4. y \in Worlds /\ y.th = thread /\ y.r = r /\ y.f = faults /\ y.j.then = then
  BY <1>1, GoingOnFacts
<1>5. v \in Emit(y, cut)
  BY <1>2, <1>3
<1> HIDE DEF y
<1>6. Fitting(hosts, y)
  BY <1>4, WorldIs DEF Fitting
<1>7. KeptBy(y, v) /\ v.j.then = y.j.then
  BY <1>4, <1>5, <1>6, EmitKept
<1>8. KeptBy(World, v)
  BY <1>4, <1>7, WorldIs DEF KeptBy
<1> QED
  BY <1>2, <1>4, <1>7, <1>8, BecomesKept

LEMMA WritesNow ==
  ASSUME IInv, At("read"), NEW then \in Stages \cup Tasks \cup Tools,
         NEW cut \in 0 .. Len(reply.pending), Writes(reply, cut, then)
  PROVE  KeptNow /\ job'.then = then
BY InvFacts, WritesKept

LEMMA RolledKept ==
  ASSUME NEW w, Fitting(hosts, w), NEW v \in Rollover(w)
  PROVE  KeptBy(w, v) /\ v.j = w.j
<1>1. CASE w.r.mode = "streaming"
  <2>1. v.j = w.j /\ Worse(w.f, v.f) /\ Quiet(w.th, v.th)
    BY <1>1, RolloverFits
  <2> QED
    BY <2>1, QuietKept
<1>2. CASE w.r.mode # "streaming"
  <2>1. v = w
    BY <1>2 DEF Rollover
  <2> QED
    BY <2>1, KeptSame
<1> QED
  BY <1>1, <1>2

LEMMA AppendKept ==
  ASSUME NEW w, Fitting(hosts, w), NEW c \in Chunks, NEW v \in AppendChunk(w, c)
  PROVE  KeptBy(w, v) /\ v \in Worlds /\ v.j.then = w.j.then /\ v.j.rest = w.j.rest
<1>1. w \in Worlds /\ w.th \in Thread
  BY WorldParts DEF Fitting
<1>2. CASE hosts
  <2>1. w.r.mode = "streaming" /\ StreamAt(w.th, w.r.at)
    BY <1>2 DEF Fitting
  <2>2. /\ v \in Worlds /\ v.j = w.j /\ Worse(w.f, v.f)
        /\ \/ v.said # "ok" /\ Quiet(w.th, v.th)
           \/ \E i \in Nat : /\ Written(w.th, v.th, c, i)
                             /\ i = w.r.at \/ i > Len(w.th)
                             /\ v.r.at = 0 \/ v.r.at = i
                             /\ v.said = "ok" => v.r.at = i
    BY <1>1, <1>2, <2>1, AppendHosted
  <2>3. CASE Quiet(w.th, v.th)
    BY <2>2, <2>3, QuietKept
  <2>4. CASE ~Quiet(w.th, v.th)
    <3>1. PICK i \in Nat : Written(w.th, v.th, c, i)
      BY <2>2, <2>4
    <3>2. Kept(w.th, v.th)
      BY <1>1, <3>1, WrittenKept
    <3> QED
      BY <2>2, <3>2 DEF KeptBy, Worse
  <2> QED
    BY <2>3, <2>4
<1>3. CASE ~hosts
  <2>1. w.r.at = 0
    BY <1>3 DEF Fitting
  <2>2. /\ v \in Worlds /\ v.th = w.th /\ Worse(w.f, v.f)
        /\ v.j.then = w.j.then /\ v.j.rest = w.j.rest
    BY <1>1, <1>3, <2>1, AppendUnhosted
  <2>3. Kept(w.th, v.th)
    BY <2>2 DEF Kept
  <2> QED
    BY <2>2, <2>3 DEF KeptBy, Worse
<1> QED
  BY <1>2, <1>3

LEMMA PieceKept ==
  ASSUME NEW w, NEW top, NEW tl, Good(hosts, w, top, tl), NEW u \in Pieces(w)
  PROVE  KeptBy(w, u)
<1> DEFINE cut   == Cut(w)
           piece == PieceOf(w)
           c     == Words(piece)
<1>1. w \in Worlds
  BY DEF Good, Fitting
<1>2. Counted(w, top) /\ Fitting(hosts, w)
  BY DEF Good
<1>3. /\ Cut(w) \in Nat /\ Cut(w) <= Len(w.j.rest)
      /\ PieceOf(w) \in Seq(Int) /\ Words(PieceOf(w)) \in Chunks
      /\ Words(PieceOf(w)).text = PieceOf(w)
  BY <1>1, <1>2, PieceFacts
<1>4. PICK v \in AppendChunk(w, c) :
        u = IF v.said = "ok" THEN Inked(v, cut, Consumed(FenceOf(v), piece)) ELSE GivenUp(v)
  BY DEF Pieces
<1> HIDE DEF cut, piece, c
<1>5. c \in Chunks /\ cut \in Nat /\ cut <= Len(w.j.rest) /\ piece \in Seq(Int) /\ c.text = piece
  BY <1>3 DEF c, cut, piece
<1>6. KeptBy(w, v) /\ v \in Worlds /\ v.j.rest = w.j.rest
  BY <1>2, <1>4, <1>5, AppendKept
<1>7. u.th = v.th /\ u.f.lost = v.f.lost
  <2>1. CASE v.said = "ok"
    <3> DEFINE fence == Consumed(FenceOf(v), piece)
               z == Inked(v, cut, fence)
    <3>1. fence \in FenceSet /\ u = Inked(v, cut, fence) /\ cut <= Len(v.j.rest)
      BY <1>4, <1>5, <1>6, <2>1, FenceTyped, ConsumedTyped
    <3> HIDE DEF fence
    <3>2. z.th = v.th /\ z.f = v.f
      BY <1>5, <1>6, <3>1, InkedFacts
    <3> QED
      BY <3>1, <3>2
  <2>2. CASE v.said # "ok"
    <3>1. u = GivenUp(v)
      BY <1>4, <2>2
    <3>2. GivenUp(v).th = v.th /\ GivenUp(v).f.lost = v.f.lost
      BY <1>6, GivenUpFacts
    <3> QED
      BY <3>1, <3>2
  <2> QED
    BY <2>1, <2>2
<1> QED
  BY <1>6, <1>7 DEF KeptBy

LEMMA StoppedKept ==
  ASSUME NEW w \in Worlds, NEW i \in DOMAIN w.th, NEW v \in Called(w, StopStream(w.th, i))
  PROVE  KeptBy(w, v) /\ v.j = w.j
<1>1. w.th \in Thread
  BY WorldParts
<1>2. /\ v.j = w.j /\ Worse(w.f, v.f)
      /\ v.th = w.th \/ v.th = [w.th EXCEPT ![i] = Stopped(w.th[i])]
  BY StopHosted
<1>3. Quiet(w.th, v.th)
  BY <1>1, <1>2, QuietSame, QuietStop
<1> QED
  BY <1>2, <1>3, QuietKept

LEMMA FinishesKept ==
  ASSUME IInv, Finishes
  PROVE  KeptNow /\ job'.then = "over"
<1> DEFINE over == GoingOn(World, "over")
<1>1. /\ World \in Worlds /\ World.th = thread /\ World.r = reply /\ World.f = faults
      /\ Fitting(hosts, World)
  BY WorldNow
<1>2. over = [World EXCEPT !.j.then = "over"]
  BY DEF GoingOn, WithJ
<1>3. PICK v \in (IF reply.mode = "streaming" /\ reply.at # 0
                  THEN Called(over, StopStream(thread, reply.at)) ELSE {over}) : Becomes(v)
  BY <1>2 DEF Finishes
<1>4. over \in Worlds /\ over.th = thread /\ over.r = reply /\ over.f = faults /\ over.j.then = "over"
  <2>1. "over" \in Stages \cup Tasks \cup Tools
    BY DEF Stages
  <2> QED
    BY <1>1, <2>1, GoingOnFacts
<1> HIDE DEF over
<1>5. KeptBy(over, v) /\ v.j = over.j
  <2>1. CASE v = over
    BY <2>1, KeptSame
  <2>2. CASE v # over
    <3>1. reply.at # 0 /\ v \in Called(over, StopStream(over.th, reply.at))
      BY <1>3, <1>4, <2>2
    <3>2. reply.at \in DOMAIN over.th
      BY <1>1, <1>4, <3>1 DEF Fitting, StreamAt
    <3> QED
      BY <1>4, <3>1, <3>2, StoppedKept
  <2> QED
    BY <2>1, <2>2
<1>6. KeptBy(World, v)
  BY <1>1, <1>4, <1>5 DEF KeptBy
<1> QED
  BY <1>3, <1>4, <1>5, <1>6, BecomesKept

LEMMA BreaksKept ==
  ASSUME IInv, Breaks
  PROVE  KeptNow /\ job'.then = "read"
BY DEF Breaks, KeptNow, Kept, Reading

LEMMA FinalizesKept ==
  ASSUME IInv, NEW i \in DOMAIN thread, Finalizes(i)
  PROVE  KeptNow /\ job'.then = job.then
<1> DEFINE m == [thread[i] EXCEPT !.state = "finalized"]
<1>1. thread' = [thread EXCEPT ![i] = m] /\ faults' = [faults EXCEPT !.ends = @ + 1] /\ job' = job
  BY DEF Finalizes, Finalized
<1>2. thread \in Thread /\ faults \in FaultsSet
  BY WorldNow
<1>3. thread[i] \in Message
  BY <1>2 DEF Thread
<1>4. m.kind = thread[i].kind /\ m.text = thread[i].text
  BY <1>3 DEF Message
<1> HIDE DEF m
<1>5. Kept(thread, thread')
  BY <1>1, <1>2, <1>4 DEF Kept, PlacedAt, Thread
<1>6. faults'.lost = faults.lost
  BY <1>1, <1>2 DEF FaultsSet
<1> QED
  BY <1>1, <1>5, <1>6 DEF KeptNow

LEMMA SaysKept ==
  ASSUME IInv, NEW n \in 1 .. Len(script), Says(n)
  PROVE  KeptNow /\ job'.then = "read"
<1> DEFINE q == reply.pending \o [i \in 1 .. n |-> said + i]
           r == [reply EXCEPT !.pending = q]
<1>1. At("read")
  BY DEF Says, Idle
<1>2. PICK cut \in Cuts(r) : Writes(r, cut, "read")
  BY DEF Says
<1>3. World \in Worlds /\ reply \in Fields /\ Fitting(hosts, World)
  BY WorldNow
<1>4. n \in Nat /\ said \in Nat
  BY SaidNat DEF IInv, Typed
<1>5. q \in Seq(Int)
  <2>1. reply.pending \in Seq(Int)
    BY <1>3 DEF Fields
  <2>2. [i \in 1 .. n |-> said + i] \in Seq(Int)
    BY <1>4
  <2> QED
    BY <2>1, <2>2
<1>6. r \in Fields /\ r.mode = reply.mode /\ r.at = reply.at /\ r.spent = reply.spent
  BY <1>3, <1>5 DEF Fields
<1> HIDE DEF q, r
<1>7. cut \in 0 .. Len(r.pending)
  BY <1>2, <1>6, CutsFacts
<1>8. "read" \in Stages \cup Tasks \cup Tools
  BY DEF Stages
<1> QED
  BY <1>2, <1>3, <1>6, <1>7, <1>8, WritesKept

LEMMA FlushKept ==
  ASSUME IInv, FlushDue
  PROVE  KeptNow /\ job'.then = "read"
<1>1. PICK cut \in WordCuts(reply.pending) : Writes(reply, cut, "read")
  BY DEF FlushDue
<1>2. At("read")
  BY DEF FlushDue, Idle
<1>3. cut \in 0 .. Len(reply.pending)
  <2>1. reply.pending \in Seq(Int)
    BY <1>2, InvReads
  <2> QED
    BY <1>1, <2>1, WordCutsFacts
<1>4. "read" \in Stages \cup Tasks \cup Tools
  BY DEF Stages
<1> QED
  BY <1>1, <1>2, <1>3, <1>4, WritesNow

LEMMA ReportsKept ==
  ASSUME IInv, NEW t \in Tasks, NEW status \in Statuses, Reports(t, status)
  PROVE  KeptNow /\ job'.then \in Tasks \cup {"break"}
<1> DEFINE then == IF reply.mode = "streaming" THEN t ELSE "break"
           cut  == Len(reply.pending)
<1>1. At("read") /\ Writes(reply, cut, then)
  BY DEF Reports, Idle
<1>2. then \in Stages \cup Tasks \cup Tools /\ then \in Tasks \cup {"break"}
  BY DEF Stages
<1>3. cut \in 0 .. Len(reply.pending)
  BY <1>1, InvReads
<1> HIDE DEF then, cut
<1>4. KeptNow /\ job'.then = then
  BY <1>1, <1>2, <1>3, WritesNow
<1> QED
  BY <1>2, <1>4

LEMMA TakesKept ==
  ASSUME IInv, Takes
  PROVE  KeptNow /\ job'.then = Head(asked)
<1> DEFINE then == Head(asked)
           cut  == Len(reply.pending)
<1>1. At("read") /\ Writes(reply, cut, then) /\ asked # <<>>
  BY DEF Takes, Idle
<1>2. then \in Stages \cup Tasks \cup Tools
  BY <1>1 DEF IInv, Typed
<1>3. cut \in 0 .. Len(reply.pending)
  BY <1>1, InvReads
<1> HIDE DEF then, cut
<1>4. KeptNow /\ job'.then = then
  BY <1>1, <1>2, <1>3, WritesNow
<1> QED
  BY <1>4 DEF then

LEMMA EndsKept ==
  ASSUME IInv, StreamEnds
  PROVE  KeptNow /\ job'.then = "finish"
<1> DEFINE cut  == Len(reply.pending)
<1>1. At("read") /\ Writes(reply, cut, "finish")
  BY DEF StreamEnds, Idle
<1>2. "finish" \in Stages \cup Tasks \cup Tools
  BY DEF Stages
<1>3. cut \in 0 .. Len(reply.pending)
  BY <1>1, InvReads
<1> HIDE DEF cut
<1> QED
  BY <1>1, <1>2, <1>3, WritesNow

LEMMA PaintKept ==
  ASSUME IInv, Paint
  PROVE  KeptNow /\ job'.then = job.then
<1>1. PICK u \in (IF Full(World) THEN Rollover(World) ELSE {World}) :
           /\ Good(hosts, u, said, tool) /\ Keeps(World, u) /\ u.j = job
           /\ \E w \in (IF Room(u) = 0 THEN Rollover(u) ELSE Pieces(u)) : Becomes(w)
  BY PaintIs
<1>2. PICK w \in (IF Room(u) = 0 THEN Rollover(u) ELSE Pieces(u)) : Becomes(w)
  BY <1>1
<1>3. Fitting(hosts, World) /\ World.j = job
  BY WorldNow
<1>4. KeptBy(World, u)
  BY <1>1, <1>3, RolledKept, KeptSame
<1>5. Fitting(hosts, u)
  BY <1>1 DEF Good
<1>6. KeptBy(u, w) /\ w.j.then = u.j.then
  <2>1. CASE w \in Rollover(u)
    BY <1>5, <2>1, RolledKept
  <2>2. CASE w \in Pieces(u)
    BY <1>1, <2>2, PieceKept, PieceStays DEF Keeps
  <2> QED
    BY <1>2, <2>1, <2>2
<1>7. KeptBy(World, w)
  BY <1>4, <1>6, KeptTwice
<1>8. KeptNow /\ job' = w.j
  BY <1>2, <1>7, BecomesKept
<1> QED
  BY <1>1, <1>6, <1>8

LEMMA DrawsKept ==
  ASSUME IInv, NEW t \in Tasks, Draws(t)
  PROVE  KeptNow /\ job'.then = "read"
<1> DEFINE b == BeatNo(t)
<1>1. PICK u \in LeavePlaced(World) \cup {World} :
               /\ Good(hosts, u, said, tool) /\ u.j = job
               /\ u.r.beats = reply.beats /\ u.r.open = reply.open
               /\ \E v \in DrawnFrom(u, t) : Becomes(v)
  BY DrawsIs
<1>2. PICK v \in DrawnFrom(u, t) : Becomes(v)
  BY <1>1
<1>3. Fitting(hosts, World) /\ Shaped(World)
  BY WorldNow
<1>4. KeptBy(World, u)
  <2>1. CASE u \in LeavePlaced(World)
    <3>1. Worse(World.f, u.f) /\ Quiet(World.th, u.th)
      BY <1>3, <2>1, LeavePlacedFacts
    <3> QED
      BY <3>1, QuietKept
  <2>2. CASE u = World
    BY <2>2, KeptSame
  <2> QED
    BY <1>1, <2>1, <2>2
<1>5. u \in Worlds /\ Fitting(hosts, u)
  BY <1>1 DEF Good, Fitting
<1>6. /\ BeatNo(t) \in Nat /\ NewOpen(t) \in Nat
      /\ NewBeats(t) \in Seq(Beats) /\ NewBeats(t)[BeatNo(t)] \in Beats
  BY BeatFacts
<1> DEFINE w == Listing(u, NewOpen(t), NewBeats(t))
           x == Drawing(w, b)
           c == List(b, w.r.beats[b])
<1>7. v \in {Resting(z) : z \in AppendChunk(x, c)} \cup {Resting(w)}
  BY <1>2 DEF DrawnFrom
<1>8. /\ w \in Worlds /\ w.th = u.th /\ w.j = u.j /\ w.f = u.f
      /\ w.r.beats = NewBeats(t) /\ w.r.mode = u.r.mode
      /\ w.r.at = u.r.at /\ w.r.spent = u.r.spent
  BY <1>5, <1>6, ListingFacts
<1> HIDE DEF w
<1>9. /\ x \in Worlds /\ x.th = w.th /\ x.j = w.j /\ x.f = w.f
      /\ x.r.mode = w.r.mode /\ x.r.at = w.r.at /\ x.r.spent = w.r.spent
  BY <1>6, <1>8, DrawingFacts
<1>10. c \in Chunks
  BY <1>6, <1>8, ListTyped
<1> HIDE DEF x, c
<1>11. Fitting(hosts, x)
  BY <1>5, <1>8, <1>9 DEF Fitting
<1>12. KeptBy(u, v) /\ v.j.then = "read"
  <2>1. CASE v = Resting(w)
    <3>1. v.th = w.th /\ v.f = w.f /\ v.j.then = "read"
      BY <1>8, <2>1, RestingFacts
    <3> QED
      BY <1>8, <3>1, KeptSame
  <2>2. CASE v \in {Resting(z) : z \in AppendChunk(x, c)}
    <3>1. PICK z \in AppendChunk(x, c) : v = Resting(z)
      BY <2>2
    <3>2. KeptBy(x, z) /\ z \in Worlds
      BY <1>10, <1>11, <3>1, AppendKept
    <3>3. v.th = z.th /\ v.f = z.f /\ v.j.then = "read"
      BY <3>1, <3>2, RestingFacts
    <3> QED
      BY <1>8, <1>9, <3>2, <3>3 DEF KeptBy
  <2> QED
    BY <1>7, <2>1, <2>2
<1>13. KeptBy(World, v)
  BY <1>4, <1>12, KeptTwice
<1> QED
  BY <1>2, <1>12, <1>13, BecomesKept

LEMMA RewrittenKept ==
  ASSUME NEW th \in Thread, NEW i \in DOMAIN th, th[i].kind = "post", NEW m, m.kind = "post"
  PROVE  Kept(th, [th EXCEPT ![i] = m])
BY DEF Kept, PlacedAt, Thread

LEMMA NewKept ==
  ASSUME NEW th \in Thread, NEW m \in Message, m.kind = "post"
  PROVE  Kept(th, Append(th, m))
<1> DEFINE th2 == Append(th, m)
           n   == Len(th) + 1
<1>1. /\ Len(th) \in Nat /\ DOMAIN th = 1 .. Len(th) /\ DOMAIN th2 = 1 .. n /\ th2[n] = m
      /\ \A j \in 1 .. Len(th) : th2[j] = th[j]
  BY DEF Thread
<1> HIDE DEF th2
<1>2. ASSUME NEW i, NEW k PROVE PlacedAt(th2, i, k) <=> PlacedAt(th, i, k)
  <2>1. CASE i \in 1 .. Len(th)
    BY <1>1, <2>1 DEF PlacedAt
  <2>2. CASE i \notin 1 .. Len(th)
    <3>1. i \in DOMAIN th2 => i = n
      BY <1>1, <2>2
    <3> QED
      BY <1>1, <2>2, <3>1 DEF PlacedAt
  <2> QED
    BY <2>1, <2>2
<1> QED
  BY <1>2 DEF Kept, th2

LEMMA RepostKept ==
  ASSUME IInv, Repost
  PROVE  KeptNow /\ job'.then = job.then
<1> DEFINE parts == Parts(reply.all)
           i     == job.part
           part  == parts[i]
           known == i \in DOMAIN reply.posted
           n     == IF i < Len(parts) THEN i + 1 ELSE 0
           next  == TurnTo(World, n)
           Shown(c) == IF c.said = "ok" THEN Reshown(c, i, part) ELSE c
           Added(c) == IF c.said = "ok" THEN ShownToo(c, part) ELSE TurnTo(c, 0)
<1>1. i # 0
  BY DEF Repost
<1>2. PICK w \in IF known /\ reply.posted[i].shown = part THEN {next}
                 ELSE IF known
                   THEN {Shown(c) : c \in Called(next, UpdateMessage(thread, reply.posted[i].at, part))}
                 ELSE {Added(c) : c \in Called(next, PostMessage(thread, "post", part))} :
           Becomes(w)
  BY DEF Repost, TurnTo, WithJ, Reshown, ShownToo
<1>3. /\ World \in Worlds /\ thread \in Thread /\ reply \in Fields /\ job \in Jobs
      /\ Shaped(World) /\ Steady(World)
      /\ World.th = thread /\ World.r = reply /\ World.j = job /\ World.f = faults
  BY WorldNow
<1>5. reply.all \in Seq(Int) /\ reply.posted \in Seq(Post)
  BY <1>3 DEF Fields
<1>6. /\ Len(parts) \in Nat /\ Len(parts) >= 1
      /\ \A m \in 1 .. Len(parts) : Within(parts[m], reply.all)
  BY <1>5, PartsFacts
<1>7. i \in 1 .. Len(parts) /\ i \in Nat
  <2>1. i \in Nat
    BY <1>3 DEF Jobs
  <2>2. i <= Len(parts)
    BY <1>1, <1>3 DEF Steady
  <2> QED
    BY <1>1, <1>6, <2>1, <2>2
<1> HIDE DEF parts
<1>8. part \in Seq(Int)
  BY <1>6, <1>7 DEF Within
<1>9. n \in Nat
  BY <1>6, <1>7
<1> HIDE DEF n, part, i
<1>10. /\ next \in Worlds /\ next.th = thread /\ next.f = faults /\ next.j.then = job.then
       /\ next.r = reply
  BY <1>3, <1>9, TurnToFacts
<1> HIDE DEF next
<1>11. KeptBy(next, w) /\ w.j.then = job.then
  <2>1. CASE known /\ reply.posted[i].shown = part
    <3>1. w = next
      BY <1>2, <2>1
    <3> QED
      BY <1>10, <3>1, KeptSame
  <2>2. CASE known /\ reply.posted[i].shown # part
    <3> DEFINE at == reply.posted[i].at
               m  == Rewritten(thread[at], part)
               an == UpdateMessage(thread, at, part)
    <3>1. at \in DOMAIN thread /\ thread[at].kind = "post"
      BY <1>3, <2>2 DEF Shaped
    <3>2. /\ an \in Answers
          /\ an.th = thread \/ an.th = [thread EXCEPT ![at] = m]
          /\ m \in Message /\ m.kind = "post" /\ m.text = part
      BY <1>3, <1>8, <3>1, UpdateAnswer
    <3>3. PICK c \in Called(next, an) : w = Shown(c)
      BY <1>2, <2>2
    <3> HIDE DEF at, m, an, Shown
    <3>4. /\ c \in Worlds /\ c.r = reply /\ c.j = next.j /\ (next.f.lost => c.f.lost)
          /\ c.th = thread \/ c.th = [thread EXCEPT ![at] = m]
      BY <1>10, <3>2, <3>3, CalledFacts
    <3>5. Kept(thread, c.th)
      BY <1>3, <3>1, <3>2, <3>4, RewrittenKept DEF Kept
    <3>6. w.th = c.th /\ w.f = c.f /\ w.j = c.j
      <4>1. CASE c.said = "ok"
        <5>1. w = Reshown(c, i, part) /\ i \in DOMAIN c.r.posted
          BY <2>2, <3>3, <3>4, <4>1 DEF Shown
        <5>2. \E posted \in Seq(Post) :
                /\ PostedAs(c, Reshown(c, i, part), posted)
                /\ DOMAIN posted = DOMAIN c.r.posted
                /\ \A x \in DOMAIN posted : posted[x].at = c.r.posted[x].at
          BY <1>8, <3>4, <5>1, ReshownFacts
        <5>3. \E posted : PostedAs(c, w, posted)
          BY <5>1, <5>2
        <5> QED
          BY <5>3 DEF PostedAs
      <4>2. CASE c.said # "ok"
        BY <3>3, <4>2 DEF Shown
      <4> QED
        BY <4>1, <4>2
    <3> QED
      BY <1>10, <3>4, <3>5, <3>6 DEF KeptBy
  <2>3. CASE ~known
    <3> DEFINE m  == NewMessage("post", part)
               an == PostMessage(thread, "post", part)
    <3>1. /\ an \in Answers
          /\ an.th = thread \/ an.th = Append(thread, m)
      BY <1>3, <1>8, PostAnswer
    <3>2. m \in Message /\ m.kind = "post"
      <4>1. /\ m \in Message
            /\ m = [kind |-> "post", text |-> part, lists |-> <<>>, state |-> "whole"]
        BY <1>8, NewMessageTyped
      <4> HIDE DEF m
      <4> QED
        BY <4>1
    <3>3. PICK c \in Called(next, an) : w = Added(c)
      BY <1>2, <2>3
    <3> HIDE DEF m, an, Added
    <3>4. /\ c \in Worlds /\ c.j = next.j /\ (next.f.lost => c.f.lost)
          /\ c.th = thread \/ c.th = Append(thread, m)
      BY <1>10, <3>1, <3>3, CalledFacts
    <3>5. Kept(thread, c.th)
      <4>1. Kept(thread, thread)
        BY DEF Kept
      <4>2. Kept(thread, Append(thread, m))
        BY <1>3, <3>2, NewKept
      <4> QED
        BY <3>4, <4>1, <4>2
    <3>6. w.th = c.th /\ w.f = c.f /\ w.j.then = c.j.then
      <4>1. CASE c.said = "ok"
        <5>1. w = ShownToo(c, part)
          BY <3>3, <4>1 DEF Added
        <5>2. \E posted \in Seq(Post) :
                /\ PostedAs(c, ShownToo(c, part), posted)
                /\ \A x \in DOMAIN posted :
                     posted[x].at = Len(c.th) \/ (x \in DOMAIN c.r.posted /\ posted[x].at = c.r.posted[x].at)
          BY <1>8, <3>4, ShownTooFacts
        <5>3. \E posted : PostedAs(c, w, posted)
          BY <5>1, <5>2
        <5> QED
          BY <5>3 DEF PostedAs
      <4>2. CASE c.said # "ok"
        <5>1. w = TurnTo(c, 0)
          BY <3>3, <4>2 DEF Added
        <5> QED
          BY <3>4, <5>1, TurnToFacts
      <4> QED
        BY <4>1, <4>2
    <3> QED
      BY <1>10, <3>4, <3>5, <3>6 DEF KeptBy
  <2> QED
    BY <2>1, <2>2, <2>3
<1>12. KeptBy(World, w)
  BY <1>3, <1>10, <1>11 DEF KeptBy
<1> QED
  BY <1>2, <1>11, <1>12, BecomesKept

LEMMA OnceKeeps ==
  ASSUME NEW th, NEW th2, NEW then, NEW then2, NEW lost, NEW lost2, NEW tl, NEW queue,
         Once(th, then, lost, tl, queue), Kept(th, th2), lost => lost2,
         then2 = then \/ then2 \notin Tools, then = "over" => then2 = "over"
  PROVE  Once(th2, then2, lost2, tl, queue)
<1>1. PlacedTruly(th2, lost2, tl)
  BY DEF Once, PlacedTruly, Kept
<1>2. ToldTruly(th2, tl)
  BY DEF Once, ToldTruly, Kept
<1>3. AskedOnce(then2, tl, queue)
  BY DEF Once, AskedOnce
<1>4. DirectLast(then2, tl)
  BY DEF Once, DirectLast
<1> QED
  BY <1>1, <1>2, <1>3, <1>4 DEF Once

LEMMA KeepsOnce ==
  ASSUME OnceNow, KeptNow, tool' = tool, asked' = asked,
         job'.then = job.then \/ job'.then \notin Tools,
         job.then = "over" => job'.then = "over"
  PROVE  OnceNow'
<1>1. Once(thread', job'.then, faults'.lost, tool, asked)
  BY OnceKeeps DEF OnceNow, KeptNow
<1> QED
  BY <1>1 DEF OnceNow

(* The placement taken is no longer in the queue. *)
LEMMA TakesOnce ==
  ASSUME IInv, OnceNow, Takes
  PROVE  OnceNow'
<1>1. KeptNow /\ job'.then = Head(asked)
  BY TakesKept
<1>2. job.then = "read" /\ asked # <<>> /\ asked' = Tail(asked) /\ tool' = tool /\ asked \in Seq(Tools)
  BY DEF Takes, Idle, At, IInv, Typed
<1> DEFINE q == Tail(asked)
<1>3. /\ Head(asked) = asked[1] /\ 1 \in DOMAIN asked /\ asked[1] \in Tools
      /\ \A i \in DOMAIN q : i \in Nat /\ i + 1 \in DOMAIN asked /\ i + 1 # 1 /\ q[i] = asked[i + 1]
  BY <1>2
<1>4. /\ PlacedTruly(thread, faults.lost, tool) /\ ToldTruly(thread, tool)
      /\ AskedOnce("read", tool, asked) /\ DirectLast("read", tool)
  BY <1>2 DEF OnceNow, Once
<1> HIDE DEF q
<1>5. AskedOnce(asked[1], tool, q)
  <2>1. \A i \in DOMAIN asked : /\ tool[asked[i]].at = "asked"
                                /\ \A j \in DOMAIN asked : asked[i] = asked[j] => i = j
    BY <1>4 DEF AskedOnce
  <2>2. ASSUME NEW i \in DOMAIN q
        PROVE  /\ tool[q[i]].at = "asked" /\ q[i] # asked[1]
               /\ \A j \in DOMAIN q : q[i] = q[j] => i = j
    <3>1. tool[q[i]].at = "asked" /\ q[i] # asked[1]
      BY <1>3, <2>1
    <3>2. ASSUME NEW j \in DOMAIN q, q[i] = q[j] PROVE i = j
      <4>1. i + 1 = j + 1
        BY <1>3, <2>1, <3>2
      <4> QED
        BY <1>3, <4>1
    <3> QED
      BY <3>1, <3>2
  <2> QED
    BY <1>3, <2>1, <2>2 DEF AskedOnce
<1>6. DirectLast(asked[1], tool)
  BY <1>4 DEF DirectLast
<1>7. PlacedTruly(thread', faults'.lost, tool) /\ ToldTruly(thread', tool)
  BY <1>1, <1>4 DEF KeptNow, Kept, PlacedTruly, ToldTruly
<1>8. Once(thread', job'.then, faults'.lost, tool', asked')
  BY <1>1, <1>2, <1>3, <1>5, <1>6, <1>7 DEF Once, q
<1> QED
  BY <1>8 DEF OnceNow

LEMMA AsksOnce ==
  ASSUME IInv, OnceNow, NEW k \in Tools, Asks(k)
  PROVE  OnceNow'
<1>1. tool[k].at = "idle" /\ thread' = thread /\ job' = job /\ faults' = faults
  BY DEF Asks
<1>2. tool \in [Tools -> ToolRecs] /\ asked \in Seq(Tools)
  BY DEF IInv, Typed
<1>3. /\ PlacedTruly(thread, faults.lost, tool) /\ ToldTruly(thread, tool)
      /\ AskedOnce(job.then, tool, asked) /\ DirectLast(job.then, tool)
  BY DEF OnceNow, Once
<1>4. /\ \A i \in Nat : ~PlacedAt(thread, i, k)
      /\ job.then # k
      /\ \A i \in DOMAIN asked : asked[i] # k
  BY <1>1, <1>3 DEF PlacedTruly, AskedOnce
<1>5. ASSUME NEW at \in {"asked", "direct"}, tool' = [tool EXCEPT ![k].at = at]
      PROVE  /\ tool'[k].at = at /\ \A x \in Tools : x # k => tool'[x] = tool[x]
             /\ PlacedTruly(thread, faults.lost, tool') /\ ToldTruly(thread, tool')
  <2>1. tool'[k].at = at /\ \A x \in Tools : x # k => tool'[x] = tool[x]
    BY <1>2, <1>5 DEF ToolRecs
  <2>2. PlacedTruly(thread, faults.lost, tool')
    BY <1>3, <1>4, <2>1 DEF PlacedTruly
  <2>3. ToldTruly(thread, tool')
    BY <1>3, <2>1 DEF ToldTruly
  <2> QED
    BY <2>1, <2>2, <2>3
<1>6. CASE job.then = "over"
  <2>1. tool' = [tool EXCEPT ![k].at = "direct"] /\ asked' = asked
    BY <1>6 DEF Asks
  <2>2. /\ tool'[k].at = "direct" /\ \A x \in Tools : x # k => tool'[x] = tool[x]
        /\ PlacedTruly(thread, faults.lost, tool') /\ ToldTruly(thread, tool')
    BY <1>5, <2>1
  <2>3. job.then \notin Tools
    BY <1>6, NamesAssumption DEF Stages
  <2>4. AskedOnce(job.then, tool', asked)
    BY <1>2, <1>3, <1>4, <2>2, <2>3 DEF AskedOnce
  <2>5. DirectLast(job.then, tool')
    BY <1>6 DEF DirectLast
  <2>6. Once(thread', job'.then, faults'.lost, tool', asked')
    BY <1>1, <2>1, <2>2, <2>4, <2>5 DEF Once
  <2> QED
    BY <2>6 DEF OnceNow
<1>7. CASE job.then # "over"
  <2>1. tool' = [tool EXCEPT ![k].at = "asked"] /\ asked' = Append(asked, k)
    BY <1>7 DEF Asks
  <2>2. /\ tool'[k].at = "asked" /\ \A x \in Tools : x # k => tool'[x] = tool[x]
        /\ PlacedTruly(thread, faults.lost, tool') /\ ToldTruly(thread, tool')
    BY <1>5, <2>1
  <2> DEFINE n == Len(asked) + 1
  <2>3. /\ Len(asked) \in Nat /\ DOMAIN asked = 1 .. Len(asked) /\ DOMAIN asked' = 1 .. n
        /\ asked'[n] = k /\ \A i \in 1 .. Len(asked) : asked'[i] = asked[i] /\ asked[i] \in Tools
    BY <1>2, <2>1
  <2>4. AskedOnce(job.then, tool', asked')
    <3>1. ASSUME NEW i \in DOMAIN asked'
          PROVE  /\ tool'[asked'[i]].at = "asked" /\ (job.then \in Tools => asked'[i] # job.then)
                 /\ \A j \in DOMAIN asked' : asked'[i] = asked'[j] => i = j
      <4>1. i = n \/ i \in 1 .. Len(asked)
        BY <2>3, <3>1
      <4>2. \A j \in DOMAIN asked' : j = n \/ j \in 1 .. Len(asked)
        BY <2>3
      <4>3. tool'[asked'[i]].at = "asked" /\ (job.then \in Tools => asked'[i] # job.then)
        BY <1>3, <1>4, <2>2, <2>3, <4>1 DEF AskedOnce
      <4>4. ASSUME NEW j \in DOMAIN asked', asked'[i] = asked'[j] PROVE i = j
        BY <1>3, <1>4, <2>3, <4>1, <4>2, <4>4 DEF AskedOnce
      <4> QED
        BY <4>3, <4>4
    <3>2. job.then \in Tools => tool'[job.then].at = "asked"
      BY <1>3, <1>4, <2>2 DEF AskedOnce
    <3> QED
      BY <3>1, <3>2 DEF AskedOnce
  <2>5. DirectLast(job.then, tool')
    BY <1>3, <2>2 DEF DirectLast
  <2>6. Once(thread', job'.then, faults'.lost, tool', asked')
    BY <1>1, <2>2, <2>4, <2>5 DEF Once
  <2> QED
    BY <2>6 DEF OnceNow
<1> QED
  BY <1>6, <1>7

LEMMA FinishesOnce ==
  ASSUME IInv, OnceNow, Finishes
  PROVE  OnceNow'
<1>1. KeptNow /\ job'.then = "over"
  BY FinishesKept
<1>2. /\ asked' = <<>>
      /\ tool' = [k \in Tools |-> IF tool[k].at = "asked" THEN [tool[k] EXCEPT !.at = "direct"]
                                  ELSE tool[k]]
  BY DEF Finishes
<1>3. tool \in [Tools -> ToolRecs]
  BY DEF IInv, Typed
<1>4. /\ PlacedTruly(thread, faults.lost, tool) /\ ToldTruly(thread, tool)
  BY DEF OnceNow, Once
<1>5. ASSUME NEW k \in Tools
      PROVE  \/ tool[k].at = "asked" /\ tool'[k].at = "direct"
             \/ tool[k].at # "asked" /\ tool'[k] = tool[k]
  <2>1. tool[k] \in ToolRecs
    BY <1>3
  <2>2. [tool[k] EXCEPT !.at = "direct"].at = "direct"
    BY <2>1 DEF ToolRecs
  <2> QED
    BY <1>2, <2>2
<1>6. PlacedTruly(thread', faults'.lost, tool')
  BY <1>1, <1>4, <1>5 DEF PlacedTruly, KeptNow, Kept
<1>7. ToldTruly(thread', tool')
  BY <1>1, <1>4, <1>5 DEF ToldTruly, KeptNow, Kept
<1>8. AskedOnce("over", tool', asked')
  <2>1. "over" \notin Tools
    BY NamesAssumption DEF Stages
  <2>2. DOMAIN asked' = {}
    BY <1>2
  <2> QED
    BY <2>1, <2>2 DEF AskedOnce
<1>9. DirectLast("over", tool')
  BY DEF DirectLast
<1>10. Once(thread', job'.then, faults'.lost, tool', asked')
  BY <1>1, <1>6, <1>7, <1>8, <1>9 DEF Once
<1> QED
  BY <1>10 DEF OnceNow

(* The message of a tool is posted, and its tool told of it. *)
LEMMA LandsOnce ==
  ASSUME NEW th \in Thread, NEW th2, NEW then, NEW then2, NEW lost, NEW lost2, NEW tl, NEW tl2,
         NEW queue \in Seq(Tools), NEW k \in Tools,
         Once(th, then, lost, tl, queue), lost => lost2,
         \A i \in Nat : ~PlacedAt(th, i, k),
         tl2[k].at = "told" \/ tl2[k].at = "refused",
         tl2[k].at = "told" => th2 = Append(th, Placing(k)),
         tl2[k].at = "refused" => th2 = th \/ (th2 = Append(th, Placing(k)) /\ lost2),
         OthersAs(tl, tl2, k), \A i \in DOMAIN queue : queue[i] # k,
         then2 \notin Tools, \A x \in Tools : tl[x].at = "direct" => x = k \/ then2 = "over"
  PROVE  Once(th2, then2, lost2, tl2, queue)
<1> DEFINE n == Len(th) + 1
<1>1. /\ PlacedTruly(th, lost, tl) /\ ToldTruly(th, tl)
      /\ AskedOnce(then, tl, queue)
  BY DEF Once
<1>2. n \in Nat
  BY DEF Thread
<1>3. ASSUME th2 = Append(th, Placing(k))
      PROVE  /\ PlacedAt(th2, n, k)
             /\ \A i \in Nat, x \in Tools : PlacedAt(th2, i, x) => (i = n /\ x = k) \/ PlacedAt(th, i, x)
             /\ \A i \in Nat, x \in Tools : PlacedAt(th, i, x) => PlacedAt(th2, i, x)
  <2>1. /\ Len(th) \in Nat /\ DOMAIN Append(th, Placing(k)) = 1 .. Len(th) + 1
        /\ DOMAIN th = 1 .. Len(th)
        /\ \A j \in DOMAIN th : Append(th, Placing(k))[j] = th[j]
        /\ Append(th, Placing(k))[Len(th) + 1] = Placing(k)
        /\ Placing(k).kind = "placed" /\ Placing(k).text = <<k>>
    BY PlacingFacts
  <2>2. /\ Len(th) \in Nat /\ DOMAIN th2 = 1 .. n /\ DOMAIN th = 1 .. Len(th)
        /\ \A j \in DOMAIN th : th2[j] = th[j]
        /\ th2[n].kind = "placed" /\ th2[n].text = <<k>>
    BY <1>3, <2>1
  <2>3. PlacedAt(th2, n, k)
    BY <2>2 DEF PlacedAt
  <2>4. ASSUME NEW i \in Nat, NEW x \in Tools, PlacedAt(th2, i, x), i # n
        PROVE  PlacedAt(th, i, x)
    BY <2>2, <2>4 DEF PlacedAt
  <2>5. ASSUME NEW x \in Tools, PlacedAt(th2, n, x) PROVE x = k
    <3>1. <<x>> = <<k>>
      BY <2>2, <2>5 DEF PlacedAt
    <3>2. <<x>>[1] = x /\ <<k>>[1] = k
      OBVIOUS
    <3> QED
      BY <3>1, <3>2
  <2>6. ASSUME NEW i \in Nat, NEW x \in Tools, PlacedAt(th, i, x)
        PROVE  PlacedAt(th2, i, x)
    BY <2>2, <2>6 DEF PlacedAt
  <2> QED
    BY <2>3, <2>4, <2>5, <2>6
<1> HIDE DEF n
<1>4. th2 = th \/ th2 = Append(th, Placing(k))
  OBVIOUS
<1>5. PlacedTruly(th2, lost2, tl2)
  <2> SUFFICES ASSUME NEW i \in Nat, NEW x \in Tools, PlacedAt(th2, i, x)
               PROVE  /\ tl2[x].at \in {"told", "refused"}
                      /\ tl2[x].at = "refused" => lost2
                      /\ \A j \in Nat : PlacedAt(th2, j, x) => i = j
    BY DEF PlacedTruly
  <2>1. CASE x = k
    <3>1. th2 = Append(th, Placing(k))
      BY <1>4, <2>1
    <3>2. \A j \in Nat : PlacedAt(th2, j, k) => j = n
      BY <1>3, <3>1
    <3> QED
      BY <2>1, <3>1, <3>2
  <2>2. CASE x # k
    <3>1. tl2[x] = tl[x]
      BY <2>2 DEF OthersAs
    <3>2. \A j \in Nat : PlacedAt(th2, j, x) => PlacedAt(th, j, x)
      BY <1>3, <1>4, <2>2
    <3> QED
      BY <1>1, <3>1, <3>2 DEF PlacedTruly
  <2> QED
    BY <2>1, <2>2
<1>6. ToldTruly(th2, tl2)
  <2> SUFFICES ASSUME NEW x \in Tools, tl2[x].at = "told"
               PROVE  \E i \in Nat : PlacedAt(th2, i, x)
    BY DEF ToldTruly
  <2>1. CASE x = k
    BY <1>2, <1>3, <2>1
  <2>2. CASE x # k
    <3>1. tl2[x] = tl[x]
      BY <2>2 DEF OthersAs
    <3>2. PICK i \in Nat : PlacedAt(th, i, x)
      BY <1>1, <3>1 DEF ToldTruly
    <3> QED
      BY <1>3, <1>4, <3>2
  <2> QED
    BY <2>1, <2>2
<1>7. AskedOnce(then2, tl2, queue)
  <2>1. \A i \in DOMAIN queue : queue[i] \in Tools
    OBVIOUS
  <2> QED
    BY <1>1, <2>1 DEF AskedOnce, OthersAs
<1>8. DirectLast(then2, tl2)
  BY DEF DirectLast, OthersAs
<1> QED
  BY <1>5, <1>6, <1>7, <1>8 DEF Once

LEMMA PlacesOnce ==
  ASSUME IInv, OnceNow, NEW k \in Tools, Places(k)
  PROVE  OnceNow'
<1> DEFINE x == Resting(World)
<1>1. job.then = k /\ asked' = asked
  BY DEF Places, At
<1>2. PICK v \in Called(x, PostMessage(thread, "placed", <<k>>)) :
        Becomes(IF v.said = "ok" THEN Landed(v) ELSE v) /\ Told(k, v)
  BY DEF Places, Resting, Landed
<1>3. World \in Worlds /\ thread \in Thread /\ World.th = thread /\ World.f = faults
  BY WorldNow
<1>4. x \in Worlds /\ x.th = thread /\ x.f = faults /\ x.j = Reading
  BY <1>3, RestingFacts
<1> HIDE DEF x
<1>5. v \in Called(x, PostMessage(x.th, "placed", <<k>>))
  BY <1>2, <1>4
<1>6. /\ v \in Worlds /\ v.j = Reading /\ (faults.lost => v.f.lost)
      /\ v.said = "ok" => v.th = Append(thread, Placing(k))
      /\ v.said # "ok" /\ v.th # thread => v.th = Append(thread, Placing(k)) /\ v.f.lost
  BY <1>4, <1>5, PlacedCall DEF Worse
<1>7. thread' = v.th /\ job' = v.j /\ faults' = v.f
  BY <1>2, <1>6, LandedFacts DEF Becomes
<1>8. tool \in [Tools -> ToolRecs] /\ said \in Nat /\ asked \in Seq(Tools)
  BY SaidNat DEF IInv, Typed
<1>9. /\ tool'[k].at = IF v.said = "ok" THEN "told" ELSE "refused"
      /\ \A y \in Tools : y # k => tool'[y] = tool[y]
  BY <1>2, <1>8, ToldFacts
<1>10. /\ \A i \in Nat : ~PlacedAt(thread, i, k)
       /\ \A i \in DOMAIN asked : asked[i] # k
       /\ \A y \in Tools : tool[y].at # "direct"
  <2>1. k # "over"
    BY NamesAssumption DEF Stages
  <2> QED
    BY <1>1, <2>1 DEF OnceNow, Once, PlacedTruly, AskedOnce, DirectLast
<1>11. OthersAs(tool, tool', k)
  BY <1>9 DEF OthersAs
<1>12. job'.then \notin Tools
  BY <1>6, <1>7, NamesAssumption, ReadingTyped DEF Stages
<1>13. tool'[k].at = "told" \/ tool'[k].at = "refused"
  BY <1>9
<1>14. /\ tool'[k].at = "told" => thread' = Append(thread, Placing(k))
       /\ tool'[k].at = "refused" =>
            thread' = thread \/ (thread' = Append(thread, Placing(k)) /\ faults'.lost)
       /\ faults.lost => faults'.lost
  BY <1>6, <1>7, <1>9
<1>15. Once(thread, job.then, faults.lost, tool, asked)
  BY DEF OnceNow
<1>16. Once(thread', job'.then, faults'.lost, tool', asked)
  BY <1>3, <1>8, <1>10, <1>11, <1>12, <1>13, <1>14, <1>15, LandsOnce
<1> QED
  BY <1>1, <1>16 DEF OnceNow

LEMMA DirectOnce ==
  ASSUME IInv, OnceNow, NEW k \in Tools, PostsDirectly(k)
  PROVE  OnceNow'
<1>1. tool[k].at = "direct" /\ asked' = asked
  BY DEF PostsDirectly
<1>2. PICK v \in Called(World, PostMessage(thread, "placed", <<k>>)) : Becomes(v) /\ Told(k, v)
  BY DEF PostsDirectly
<1>3. /\ World \in Worlds /\ thread \in Thread /\ World.th = thread /\ World.f = faults
      /\ World.j = job
  BY WorldNow
<1>5. v \in Called(World, PostMessage(World.th, "placed", <<k>>))
  BY <1>2, <1>3
<1>6. /\ v \in Worlds /\ v.j = job /\ (faults.lost => v.f.lost)
      /\ v.said = "ok" => v.th = Append(thread, Placing(k))
      /\ v.said # "ok" /\ v.th # thread => v.th = Append(thread, Placing(k)) /\ v.f.lost
  BY <1>3, <1>5, PlacedCall DEF Worse
<1>7. thread' = v.th /\ job' = v.j /\ faults' = v.f
  BY <1>2 DEF Becomes
<1>8. tool \in [Tools -> ToolRecs] /\ said \in Nat /\ asked \in Seq(Tools)
  BY SaidNat DEF IInv, Typed
<1>9. /\ tool'[k].at = IF v.said = "ok" THEN "told" ELSE "refused"
      /\ \A y \in Tools : y # k => tool'[y] = tool[y]
  BY <1>2, <1>8, ToldFacts
<1>10. /\ \A i \in Nat : ~PlacedAt(thread, i, k)
       /\ \A i \in DOMAIN asked : asked[i] # k
       /\ job.then = "over"
  BY <1>1 DEF OnceNow, Once, PlacedTruly, AskedOnce, DirectLast
<1>11. OthersAs(tool, tool', k)
  BY <1>9 DEF OthersAs
<1>12. job'.then \notin Tools
  BY <1>6, <1>7, <1>10, NamesAssumption DEF Stages
<1>13. tool'[k].at = "told" \/ tool'[k].at = "refused"
  BY <1>9
<1>14. /\ tool'[k].at = "told" => thread' = Append(thread, Placing(k))
       /\ tool'[k].at = "refused" =>
            thread' = thread \/ (thread' = Append(thread, Placing(k)) /\ faults'.lost)
       /\ faults.lost => faults'.lost
  BY <1>6, <1>7, <1>9
<1>15. Once(thread, job.then, faults.lost, tool, asked)
  BY DEF OnceNow
<1>16. job'.then = "over"
  BY <1>6, <1>7, <1>10
<1>17. Once(thread', job'.then, faults'.lost, tool', asked)
  BY <1>3, <1>8, <1>10, <1>11, <1>12, <1>13, <1>14, <1>15, <1>16, LandsOnce
<1> QED
  BY <1>1, <1>17 DEF OnceNow

LEMMA InitSound ==
  ASSUME Init
  PROVE  IInv /\ OnceNow
<1>1. /\ script \in Scripts /\ hosts \in BOOLEAN /\ said = 0 /\ thread = <<>>
      /\ reply = NewReply /\ job = Reading
      /\ beatOf = [t \in Tasks |-> "none"]
      /\ tool = [k \in Tools |-> [at |-> "idle", after |-> 0]]
      /\ asked = <<>>
      /\ faults = [count |-> 0, lost |-> FALSE, ends |-> 0, cut |-> FALSE]
  BY DEF Init
<1>2. thread \in Thread /\ DOMAIN thread = {}
  <2>1. <<>> \in Seq(Message)
    OBVIOUS
  <2> QED
    BY <1>1, <2>1, Empties DEF Thread
<1>3. /\ reply \in Fields /\ reply.mode = "streaming" /\ reply.at = 0 /\ reply.spent = 0
      /\ reply.pending = <<>> /\ reply.all = <<>> /\ reply.posted = <<>> /\ reply.placed = FALSE
      /\ reply.beats = <<>> /\ reply.open = 0
  <2>1. <<>> \in Seq(Beats) /\ {} \in SUBSET Nat /\ "empty" \in Partials
    BY DEF Partials
  <2> QED
    BY <1>1, <2>1, Empties DEF NewReply, Fields
<1>4. job \in Jobs /\ job.rest = <<>> /\ job.part = 0 /\ job.then = "read"
  BY <1>1, ReadingTyped
<1>5. faults \in FaultsSet /\ faults.count = 0 /\ ~faults.cut
  BY <1>1, Bounds DEF FaultsSet
<1>6. World \in Worlds /\ World.th = thread /\ World.r = reply /\ World.j = job /\ World.f = faults
  <2>1. World \in Worlds
    BY <1>2, <1>3, <1>4, <1>5 DEF World, Worlds, Sayings
  <2> QED
    BY <2>1, WorldIs
<1>7. Typed
  <2>1. said \in 0 .. Len(script)
    BY <1>1, ScriptsAssumption
  <2>2. beatOf \in [Tasks -> Reported]
    BY <1>1 DEF Reported
  <2>3. [at |-> "idle", after |-> 0] \in ToolRecs
    BY DEF ToolRecs
  <2>4. tool \in [Tools -> ToolRecs]
    BY <1>1, <2>3
  <2>5. asked \in Seq(Tools)
    BY <1>1
  <2> QED
    BY <1>1, <2>1, <2>2, <2>4, <2>5 DEF Typed
<1>8. Fitting(hosts, World)
  BY <1>2, <1>3, <1>6, Bounds DEF Fitting, StreamAt
<1>9. Left(World, said) = 0
  BY <1>1, <1>3, <1>4, <1>6, Empties DEF Left
<1>10. Shaped(World)
  BY <1>3, <1>4, <1>6, Empties DEF Shaped
<1>11. Counted(World, said)
  BY <1>1, <1>3, <1>4, <1>6, <1>9, Empties DEF Counted
<1>12. Under(World, said)
  BY <1>2, <1>3, <1>6, Empties DEF Under, AllUnder
<1>13. Below(World, said, tool)
  BY <1>2, <1>6 DEF Below, PlacedAt
<1>14. Reads(hosts, World, said)
  BY <1>2, <1>5, <1>6, <1>9 DEF Reads, Ordered, Covers
<1>15. Steady(World)
  BY <1>3, <1>4, <1>6, Empties DEF Steady
<1>16. IInv
  BY <1>7, <1>8, <1>10, <1>11, <1>12, <1>13, <1>14, <1>15 DEF IInv, Good
<1>17. OnceNow
  <2>1. \A k \in Tools : tool[k].at = "idle"
    BY <1>1
  <2>2. PlacedTruly(thread, faults.lost, tool) /\ ToldTruly(thread, tool)
    BY <1>2, <2>1 DEF PlacedTruly, ToldTruly, PlacedAt
  <2>3. AskedOnce(job.then, tool, asked) /\ DirectLast(job.then, tool)
    BY <1>1, <1>4, <2>1, NamesAssumption, Empties DEF AskedOnce, DirectLast, Stages
  <2> QED
    BY <2>2, <2>3 DEF OnceNow, Once
<1> QED
  BY <1>16, <1>17

(* Every step of the task's loop, of the tools and of Slack keeps the      *)
(* invariant.                                                              *)
LEMMA ReadsSound ==
  ASSUME IInv, OnceNow,
         \/ \E n \in 1 .. Len(script) : Says(n)
         \/ FlushDue
         \/ \E t \in Tasks, status \in Statuses : Reports(t, status)
         \/ Takes
         \/ StreamEnds
  PROVE  IInv' /\ OnceNow'
<1>0. "read" \notin Tools /\ "finish" \notin Tools /\ "read" # "over"
      /\ \A x \in Tasks \cup {"break"} : x \notin Tools
  BY NamesAssumption DEF Stages
<1>1. ASSUME NEW n \in 1 .. Len(script), Says(n) PROVE IInv' /\ OnceNow'
  <2>1. tool' = tool /\ asked' = asked /\ job.then = "read"
    BY <1>1 DEF Says, Idle, At
  <2> QED
    BY <1>0, <1>1, <2>1, SaysSound, SaysKept, KeepsOnce
<1>2. CASE FlushDue
  <2>1. tool' = tool /\ asked' = asked /\ job.then = "read"
    BY <1>2 DEF FlushDue, Idle, At
  <2> QED
    BY <1>0, <1>2, <2>1, FlushSound, FlushKept, KeepsOnce
<1>3. ASSUME NEW t \in Tasks, NEW status \in Statuses, Reports(t, status) PROVE IInv' /\ OnceNow'
  <2>1. tool' = tool /\ asked' = asked /\ job.then = "read"
    BY <1>3 DEF Reports, Idle, At
  <2> QED
    BY <1>0, <1>3, <2>1, ReportsSound, ReportsKept, KeepsOnce
<1>4. CASE Takes
  BY <1>4, TakesSound, TakesOnce
<1>5. CASE StreamEnds
  <2>1. tool' = tool /\ asked' = asked /\ job.then = "read"
    BY <1>5 DEF StreamEnds, Idle, At
  <2> QED
    BY <1>0, <1>5, <2>1, EndsSound, EndsKept, KeepsOnce
<1> QED
  BY <1>1, <1>2, <1>3, <1>4, <1>5

LEMMA WritingKeeps ==
  ASSUME IInv, OnceNow,
         \/ Paint
         \/ Repost
         \/ Breaks
         \/ \E t \in Tasks : Draws(t)
         \/ Finishes
         \/ \E i \in DOMAIN thread : Finalizes(i)
  PROVE  IInv' /\ OnceNow'
<1>0. "read" \notin Tools /\ \A t \in Tasks : t # "over"
  BY NamesAssumption DEF Stages
<1>1. CASE Paint
  <2>1. tool' = tool /\ asked' = asked
    BY <1>1 DEF Paint
  <2> QED
    BY <1>1, <2>1, PaintSound, PaintKept, KeepsOnce
<1>2. CASE Repost
  <2>1. tool' = tool /\ asked' = asked
    BY <1>2 DEF Repost
  <2> QED
    BY <1>2, <2>1, RepostSound, RepostKept, KeepsOnce
<1>3. CASE Breaks
  <2>1. tool' = tool /\ asked' = asked /\ job.then = "break"
    BY <1>3 DEF Breaks, At
  <2> QED
    BY <1>0, <1>3, <2>1, BreaksSound, BreaksKept, KeepsOnce
<1>4. ASSUME NEW t \in Tasks, Draws(t) PROVE IInv' /\ OnceNow'
  <2>1. tool' = tool /\ asked' = asked /\ job.then = t
    BY <1>4 DEF Draws, At
  <2> QED
    BY <1>0, <1>4, <2>1, DrawsSound, DrawsKept, KeepsOnce
<1>5. CASE Finishes
  BY <1>5, FinishesSound, FinishesOnce
<1>6. ASSUME NEW i \in DOMAIN thread, Finalizes(i) PROVE IInv' /\ OnceNow'
  <2>1. tool' = tool /\ asked' = asked
    BY <1>6 DEF Finalizes
  <2> QED
    BY <1>6, <2>1, FinalizesSound, FinalizesKept, KeepsOnce
<1> QED
  BY <1>1, <1>2, <1>3, <1>4, <1>5, <1>6

LEMMA PlacingKeeps ==
  ASSUME IInv, OnceNow, NEW k \in Tools, Asks(k) \/ Places(k) \/ PostsDirectly(k)
  PROVE  IInv' /\ OnceNow'
BY AsksSound, AsksOnce, PlacesSound, PlacesOnce, DirectSound, DirectOnce

LEMMA StutterKeeps ==
  ASSUME IInv, OnceNow, UNCHANGED vars
  PROVE  IInv' /\ OnceNow'
<1>1. /\ script' = script /\ hosts' = hosts /\ said' = said /\ tool' = tool /\ beatOf' = beatOf
      /\ asked' = asked /\ thread' = thread /\ reply' = reply /\ job' = job /\ faults' = faults
  BY DEF vars
<1>2. World \in Worlds /\ Good(hosts, World, said, tool) /\ Steady(World) /\ Becomes(World)
  BY <1>1, WorldNow DEF Becomes
<1>3. Good(hosts, World, said, tool)' /\ Steady(World)'
  BY <1>1, <1>2, BecomesSound
<1>4. Typed'
  BY <1>1 DEF IInv, Typed
<1>5. KeptNow
  BY <1>1 DEF KeptNow, Kept
<1>6. OnceNow'
  BY <1>1, <1>5, KeepsOnce
<1> QED
  BY <1>3, <1>4, <1>6 DEF IInv

LEMMA NextKeeps ==
  ASSUME IInv, OnceNow, [Next]_vars
  PROVE  IInv' /\ OnceNow'
<1>1. CASE UNCHANGED vars
  BY <1>1, StutterKeeps
<1>2. CASE Next
  BY <1>2, ReadsSound, WritingKeeps, PlacingKeeps DEF Next
<1> QED
  BY <1>1, <1>2

LEMMA InvType ==
  ASSUME IInv
  PROVE  TypeOK
<1>1. /\ World \in Worlds /\ thread \in Thread /\ reply \in Fields /\ job \in Jobs
      /\ faults \in FaultsSet /\ Fitting(hosts, World)
      /\ World.th = thread /\ World.r = reply
  BY WorldNow
<1>2. Typed
  BY DEF IInv
<1>3. \A i \in DOMAIN thread : thread[i].kind \in Kinds /\ thread[i].state \in States
  <2>1. \A i \in DOMAIN thread : thread[i] \in Message
    BY <1>1 DEF Thread
  <2> QED
    BY <2>1 DEF Message
<1>4. reply.at # 0 => reply.at \in DOMAIN thread /\ thread[reply.at].kind = "stream"
  BY <1>1 DEF Fitting, StreamAt
<1>5. reply.mode \in {"streaming", "buffered"} /\ reply.spent \in Nat
  BY <1>1 DEF Fields
<1>6. reply.spent \in 0 .. MaxText
  BY <1>1, <1>5, Bounds DEF Fitting
<1>7. job.then \in Stages \cup Tasks \cup Tools
  BY <1>1 DEF Jobs
<1> QED
  BY <1>1, <1>2, <1>3, <1>4, <1>5, <1>6, <1>7 DEF TypeOK, Typed, Reported, ToolRecs, FaultsSet

LEMMA InvPlaced ==
  ASSUME IInv
  PROVE  PlacedWhereAsked
<1> SUFFICES ASSUME NEW i \in DOMAIN thread, NEW j \in DOMAIN thread, NEW u \in UnitsOf(thread[j]),
                    thread[i].kind = "placed", tool[thread[i].text[1]].at = "told"
             PROVE  IF u <= tool[thread[i].text[1]].after THEN j < i ELSE j > i
  BY DEF PlacedWhereAsked
<1>1. thread \in Thread /\ Below(World, said, tool) /\ World.th = thread
  BY WorldNow DEF Good
<1>2. thread[i] \in Message /\ i \in Nat
  BY <1>1 DEF Thread
<1>3. PICK k \in Tools : thread[i].text = <<k>>
  BY <1>2 DEF Message
<1>4. thread[i].text[1] = k
  BY <1>3
<1>5. PlacedAt(World.th, i, k)
  BY <1>1, <1>3 DEF PlacedAt
<1>6. Parted(thread, i, tool[k].after)
  BY <1>1, <1>2, <1>4, <1>5 DEF Below
<1>7. PICK p \in SaidIn(thread[j]) : u = thread[j].text[p]
  BY DEF UnitsOf
<1> QED
  BY <1>4, <1>6, <1>7 DEF Parted

LEMMA InvOnce ==
  ASSUME IInv, OnceNow
  PROVE  PostedOnce
<1> SUFFICES ASSUME NEW k \in Tools
             PROVE  LET times == Cardinality({i \in DOMAIN thread : thread[i].kind = "placed" /\ thread[i].text = <<k>>})
                    IN  /\ times <= 1
                        /\ tool[k].at = "told" => times = 1
                        /\ times = 1 /\ ~faults.lost => tool[k].at = "told"
  BY DEF PostedOnce
<1> DEFINE S == {i \in DOMAIN thread : thread[i].kind = "placed" /\ thread[i].text = <<k>>}
<1>1. thread \in Thread
  BY WorldNow
<1>2. \A i : i \in S <=> i \in Nat /\ PlacedAt(thread, i, k)
  BY <1>1 DEF PlacedAt, Thread
<1>3. PlacedTruly(thread, faults.lost, tool) /\ ToldTruly(thread, tool)
  BY DEF OnceNow, Once
<1> HIDE DEF S
<1>4. CASE S = {}
  <2>1. Cardinality(S) = 0
    BY <1>4, FS_EmptySet
  <2>2. tool[k].at # "told"
    BY <1>2, <1>3, <1>4 DEF ToldTruly
  <2>3. /\ Cardinality(S) <= 1
        /\ tool[k].at = "told" => Cardinality(S) = 1
        /\ Cardinality(S) = 1 /\ ~faults.lost => tool[k].at = "told"
    BY <2>1, <2>2
  <2> QED
    BY <2>3 DEF S
<1>5. CASE S # {}
  <2>1. PICK i : i \in S
    BY <1>5
  <2>2. i \in Nat /\ PlacedAt(thread, i, k)
    BY <1>2, <2>1
  <2>3. /\ tool[k].at \in {"told", "refused"} /\ (tool[k].at = "refused" => faults.lost)
        /\ \A j \in Nat : PlacedAt(thread, j, k) => i = j
    BY <1>3, <2>2 DEF PlacedTruly
  <2>4. S = {i}
    BY <1>2, <2>1, <2>3
  <2>5. Cardinality(S) = 1
    BY <2>4, FS_Singleton
  <2>6. /\ Cardinality(S) <= 1
        /\ tool[k].at = "told" => Cardinality(S) = 1
        /\ Cardinality(S) = 1 /\ ~faults.lost => tool[k].at = "told"
    BY <2>3, <2>5
  <2> QED
    BY <2>6 DEF S
<1> QED
  BY <1>4, <1>5

LEMMA InvReadsAsSaid ==
  ASSUME IInv, hosts
  PROVE  InOrder /\ EverythingSaid
<1>1. /\ Good(hosts, World, said, tool) /\ Steady(World) /\ faults \in FaultsSet
      /\ World.th = thread /\ World.r = reply /\ World.j = job /\ World.f = faults
  BY WorldNow
<1>2. Ordered(thread) /\ (faults.count = 0 => Covers(thread, Left(World, said)))
  BY <1>1 DEF Good, Reads
<1>3. InOrder
  BY <1>2 DEF Ordered, InOrder
<1>4. ASSUME Ended, ~WentWrong PROVE Whole
  <2>1. faults.count = 0
    <3>1. faults.count \in Nat
      BY <1>1, Bounds DEF FaultsSet
    <3> QED
      BY <1>4, <3>1 DEF WentWrong
  <2>2. job.rest = <<>> /\ reply.pending = <<>> /\ said \in Nat
    BY <1>1, <1>4, SaidNat DEF Good, Shaped, Steady, Ended
  <2>3. Left(World, said) = said
    BY <1>1, <2>2, Empties DEF Left
  <2>4. ASSUME NEW u \in 1 .. said PROVE \E i \in DOMAIN thread : u \in UnitsOf(thread[i])
    <3>1. PICK i \in DOMAIN thread : \E p \in SaidIn(thread[i]) : thread[i].text[p] = u
      BY <1>2, <2>1, <2>3 DEF Covers
    <3>2. u \in UnitsOf(thread[i])
      BY <3>1 DEF UnitsOf
    <3> QED
      BY <3>2
  <2> QED
    BY <2>4 DEF Whole
<1> QED
  BY <1>3, <1>4 DEF EverythingSaid

LEMMA Invariant == Spec => [](IInv /\ OnceNow)
<1>1. Init => IInv /\ OnceNow
  BY InitSound
<1>2. (IInv /\ OnceNow) /\ [Next]_vars => (IInv /\ OnceNow)'
  BY NextKeeps
<1> QED
  BY <1>1, <1>2, PTL DEF Spec

(* Every variable keeps its type, and the reply writes into a stream of    *)
(* its own (`Reply` of reply.rs).                                          *)
THEOREM TypeCorrect == Spec => []TypeOK
BY Invariant, InvType, PTL

(* A message that a tool had placed stands under all that the agent said   *)
(* before and above all it says later, and is there once; the tool is told *)
(* of it truly (`place` of tools/replying.rs, `Reply::place`), whatever    *)
(* calls fail or lose their answers and whenever the reply ends.           *)
THEOREM PlacesInPlace == Spec => []PlacedInPlace
<1>1. IInv /\ OnceNow => PlacedInPlace
  BY InvPlaced, InvOnce DEF PlacedInPlace
<1> QED
  BY <1>1, Invariant, PTL
=============================================================================
