------------------------- MODULE ReplyPostedProofs -------------------------
(***************************************************************************)
(* More proofs about Reply: what is read on a surface that hosts no        *)
(* streams, where a reply is posted in parts and each part posted again as *)
(* the text grows; and with it the whole of what a thread reads, on either *)
(* surface, for any script, splits, tools, tasks and failing calls.        *)
(***************************************************************************)
EXTENDS ReplyProofs, SequenceTheorems

----------------------------------------------------------------------------
(* What becomes of a text that is posted part by part *)

(* The agent's units in a text, and those that are no newlines *)
Ink(text)    == {u \in Int : u > 0 /\ \E p \in DOMAIN text : text[p] = u}
Voiced(text) == {u \in Ink(text) : KindOf(u) # "nl"}
Rising(text) ==
  \A p, q \in DOMAIN text : p < q /\ text[p] > 0 /\ text[q] > 0 => text[p] < text[q]
Before(S, T) == \A x \in S, y \in T : x < y

(* The first part ends at e and the next one starts at s. *)
TornAt(text, e, s) ==
  /\ e \in 1 .. Len(text) /\ s \in e + 1 .. Len(text) + 1
  /\ TearOff(text).part = SubSeq(text, 1, e)
  /\ TearOff(text).rest = SubSeq(text, s, Len(text))
  /\ \A i \in e + 1 .. s - 1 : KindOf(text[i]) = "nl"

LEMMA TearsApart ==
  ASSUME NEW text \in Seq(Int), text # <<>>
  PROVE  \E e, s \in Nat : TornAt(text, e, s)
<1> DEFINE e == PartEnd(text)
           words == {i \in e + 1 .. Len(text) : KindOf(text[i]) # "nl"}
           x == CHOOSE i \in words : \A j \in words : i <= j
<1>1. e \in 1 .. Len(text) /\ Len(text) \in Nat
  BY PartEndFacts
<1>2. TearOff(text).part = SubSeq(text, 1, e)
  BY DEF TearOff
<1>3. TearOff(text).rest = IF e = Len(text) THEN <<>> ELSE NextPart(text, e)
  BY DEF TearOff
<1>4. NextPart(text, e) = IF words = {} THEN <<>> ELSE SubSeq(text, x, Len(text))
  BY DEF NextPart
<1>5. words \in SUBSET Nat
  BY <1>1
<1>6. \A i \in e + 1 .. Len(text) : i \notin words => KindOf(text[i]) = "nl"
  OBVIOUS
<1>7. words \subseteq e + 1 .. Len(text)
  OBVIOUS
<1>8. SubSeq(text, Len(text) + 1, Len(text)) = <<>>
  BY <1>1
<1> HIDE DEF e, words
<1>9. CASE e = Len(text) \/ words = {}
  <2>1. TearOff(text).rest = SubSeq(text, Len(text) + 1, Len(text))
    BY <1>3, <1>4, <1>8, <1>9
  <2>2. \A i \in e + 1 .. Len(text) + 1 - 1 : KindOf(text[i]) = "nl"
    BY <1>1, <1>6, <1>9
  <2>3. TornAt(text, e, Len(text) + 1)
    BY <1>1, <1>2, <2>1, <2>2 DEF TornAt
  <2>4. e \in Nat /\ Len(text) + 1 \in Nat
    BY <1>1
  <2> QED
    BY <2>3, <2>4
<1>10. CASE e # Len(text) /\ words # {}
  <2>1. x \in words /\ \A j \in words : x <= j
    BY <1>5, <1>10, Least
  <2>2. TearOff(text).rest = SubSeq(text, x, Len(text))
    BY <1>3, <1>4, <1>10
  <2> HIDE DEF x
  <2>3. x \in e + 1 .. Len(text)
    BY <1>7, <2>1
  <2>4. \A i \in e + 1 .. x - 1 : KindOf(text[i]) = "nl"
    <3> SUFFICES ASSUME NEW i \in e + 1 .. x - 1 PROVE KindOf(text[i]) = "nl"
      OBVIOUS
    <3>1. i \in e + 1 .. Len(text) /\ ~(x <= i)
      BY <1>1, <2>3
    <3> QED
      BY <1>6, <2>1, <3>1
  <2>5. x \in e + 1 .. Len(text) + 1 /\ x \in Nat /\ e \in Nat
    BY <1>1, <2>3
  <2>6. TornAt(text, e, x)
    BY <1>1, <1>2, <2>2, <2>4, <2>5 DEF TornAt
  <2> QED
    BY <2>5, <2>6
<1> QED
  BY <1>9, <1>10

LEMMA CutInk ==
  ASSUME NEW text \in Seq(Int), NEW i \in Nat, NEW j \in Nat, 1 <= i, j <= Len(text)
  PROVE  /\ SubSeq(text, i, j) \in Seq(Int)
         /\ DOMAIN SubSeq(text, i, j) = 1 .. (IF i <= j THEN j - i + 1 ELSE 0)
         /\ \A p \in DOMAIN SubSeq(text, i, j) :
              i + p - 1 \in i .. j /\ SubSeq(text, i, j)[p] = text[i + p - 1]
         /\ \A u : u \in Ink(SubSeq(text, i, j)) <=> \E p \in i .. j : u = text[p] /\ u > 0
         /\ Rising(text) => Rising(SubSeq(text, i, j))
<1> DEFINE s == SubSeq(text, i, j)
<1>0. \A z \in i .. j : z \in DOMAIN text
  OBVIOUS
<1>1. /\ s \in Seq(Int) /\ DOMAIN s = 1 .. (IF i <= j THEN j - i + 1 ELSE 0)
      /\ \A p \in DOMAIN s : i + p - 1 \in i .. j /\ s[p] = text[i + p - 1]
  OBVIOUS
<1> HIDE DEF s
<1>2. \A p \in i .. j : p - i + 1 \in DOMAIN s /\ s[p - i + 1] = text[p] /\ text[p] \in Int
  <2> SUFFICES ASSUME NEW p \in i .. j
               PROVE  p - i + 1 \in DOMAIN s /\ s[p - i + 1] = text[p] /\ text[p] \in Int
    OBVIOUS
  <2>1. p - i + 1 \in DOMAIN s /\ i + (p - i + 1) - 1 = p /\ p \in 1 .. Len(text)
    BY <1>1
  <2>2. s[p - i + 1] = text[i + (p - i + 1) - 1]
    BY <1>1, <2>1
  <2> QED
    BY <2>1, <2>2
<1>3. ASSUME NEW u PROVE u \in Ink(s) <=> \E p \in i .. j : u = text[p] /\ u > 0
  <2>1. ASSUME u \in Ink(s) PROVE \E p \in i .. j : u = text[p] /\ u > 0
    BY <1>1, <2>1 DEF Ink
  <2>2. ASSUME NEW p \in i .. j, u = text[p], u > 0 PROVE u \in Ink(s)
    BY <1>2, <2>2 DEF Ink
  <2> QED
    BY <2>1, <2>2
<1>4. ASSUME Rising(text) PROVE Rising(s)
  <2> SUFFICES ASSUME NEW p \in DOMAIN s, NEW q \in DOMAIN s, p < q, s[p] > 0, s[q] > 0
               PROVE  s[p] < s[q]
    BY DEF Rising
  <2>0. p \in Int /\ q \in Int /\ i + p - 1 \in i .. j /\ i + q - 1 \in i .. j
    BY <1>1
  <2> DEFINE x == i + p - 1
             y == i + q - 1
  <2>1. x < y
    BY <2>0
  <2>2. x \in DOMAIN text /\ y \in DOMAIN text
    BY <1>0, <2>0
  <2>3. s[p] = text[x] /\ s[q] = text[y]
    BY <1>1
  <2> HIDE DEF x, y
  <2> QED
    BY <1>4, <2>1, <2>2, <2>3 DEF Rising
<1> QED
  BY <1>1, <1>3, <1>4 DEF s

LEMMA TearFacts ==
  ASSUME NEW text \in Seq(Int), text # <<>>
  PROVE  LET t == TearOff(text)
         IN  /\ t.part \in Seq(Int) /\ t.rest \in Seq(Int)
             /\ t.part # <<>> /\ Len(t.rest) < Len(text)
             /\ Rising(text) => Rising(t.part) /\ Rising(t.rest) /\ Before(Ink(t.part), Ink(t.rest))
             /\ Voiced(text) \subseteq Voiced(t.part) \cup Voiced(t.rest)
             /\ Ink(t.part) \subseteq Ink(text) /\ Ink(t.rest) \subseteq Ink(text)
<1> DEFINE t == TearOff(text)
<1>1. PICK e, s \in Nat : TornAt(text, e, s)
  BY TearsApart
<1>2. /\ e \in 1 .. Len(text) /\ s \in e + 1 .. Len(text) + 1
      /\ t.part = SubSeq(text, 1, e) /\ t.rest = SubSeq(text, s, Len(text))
      /\ \A i \in e + 1 .. s - 1 : KindOf(text[i]) = "nl"
  BY <1>1 DEF TornAt
<1> HIDE DEF t
<1>3. /\ t.part \in Seq(Int) /\ DOMAIN t.part = 1 .. e
      /\ \A u : u \in Ink(t.part) <=> \E p \in 1 .. e : u = text[p] /\ u > 0
      /\ Rising(text) => Rising(t.part)
  <2>1. e \in Nat /\ e <= Len(text) /\ 1 <= e /\ 1 \in Nat /\ 1 <= 1 /\ e - 1 + 1 = e
    BY <1>2
  <2> QED
    BY <1>2, <2>1, CutInk
<1>4. /\ t.rest \in Seq(Int) /\ DOMAIN t.rest = 1 .. (IF s <= Len(text) THEN Len(text) - s + 1 ELSE 0)
      /\ \A u : u \in Ink(t.rest) <=> \E p \in s .. Len(text) : u = text[p] /\ u > 0
      /\ Rising(text) => Rising(t.rest)
  <2> DEFINE l == Len(text)
  <2>1. s \in Nat /\ 1 <= s /\ l \in Nat /\ l <= Len(text)
    BY <1>2
  <2>2. t.rest = SubSeq(text, s, l)
    BY <1>2
  <2> HIDE DEF l
  <2>3. /\ t.rest \in Seq(Int) /\ DOMAIN t.rest = 1 .. (IF s <= l THEN l - s + 1 ELSE 0)
        /\ \A u : u \in Ink(t.rest) <=> \E p \in s .. l : u = text[p] /\ u > 0
        /\ Rising(text) => Rising(t.rest)
    BY <2>1, <2>2, CutInk
  <2> QED
    BY <2>3 DEF l
<1>5. t.part # <<>>
  <2>1. 1 \in DOMAIN t.part
    BY <1>2, <1>3
  <2> QED
    BY <2>1
<1>6. Len(t.rest) < Len(text)
  <2>1. Len(t.rest) = IF s <= Len(text) THEN Len(text) - s + 1 ELSE 0
    BY <1>2, <1>4
  <2> QED
    BY <1>2, <2>1
<1>7. ASSUME Rising(text) PROVE Before(Ink(t.part), Ink(t.rest))
  <2> SUFFICES ASSUME NEW x \in Ink(t.part), NEW y \in Ink(t.rest) PROVE x < y
    BY DEF Before
  <2>1. PICK p \in 1 .. e : x = text[p] /\ x > 0
    BY <1>3
  <2>2. PICK q \in s .. Len(text) : y = text[q] /\ y > 0
    BY <1>4
  <2>3. p \in DOMAIN text /\ q \in DOMAIN text /\ p < q
    BY <1>2
  <2> QED
    BY <1>7, <2>1, <2>2, <2>3 DEF Rising
<1>8. ASSUME NEW u \in Voiced(text) PROVE u \in Voiced(t.part) \cup Voiced(t.rest)
  <2>1. PICK p \in DOMAIN text : text[p] = u
    BY DEF Voiced, Ink
  <2>2. u > 0 /\ KindOf(u) # "nl"
    BY DEF Voiced, Ink
  <2>3. p \in 1 .. e \/ p \in s .. Len(text)
    BY <1>2, <2>1, <2>2
  <2> QED
    BY <1>3, <1>4, <2>1, <2>2, <2>3 DEF Voiced
<1>9. Ink(t.part) \subseteq Ink(text) /\ Ink(t.rest) \subseteq Ink(text)
  <2>1. ASSUME NEW u, NEW p \in DOMAIN text, u = text[p], u > 0 PROVE u \in Ink(text)
    <3>1. text[p] \in Int
      OBVIOUS
    <3> QED
      BY <2>1, <3>1 DEF Ink
  <2>2. \A p \in 1 .. e : p \in DOMAIN text
    BY <1>2
  <2>3. \A p \in s .. Len(text) : p \in DOMAIN text
    BY <1>2
  <2> QED
    BY <1>3, <1>4, <2>1, <2>2, <2>3
<1> QED
  BY <1>3, <1>4, <1>5, <1>6, <1>7, <1>8, <1>9 DEF t

LEMMA ConcatFacts ==
  ASSUME NEW s \in Seq(Int), NEW t \in Seq(Int)
  PROVE  /\ s \o t \in Seq(Int) /\ Len(s \o t) = Len(s) + Len(t)
         /\ \A i \in 1 .. Len(s) : (s \o t)[i] = s[i]
         /\ \A i \in Len(s) + 1 .. Len(s) + Len(t) : (s \o t)[i] = t[i - Len(s)]
  OBVIOUS

LEMMA SameSequence ==
  ASSUME NEW s \in Seq(Int), NEW t \in Seq(Int), Len(s) = Len(t),
         \A i \in 1 .. Len(s) : s[i] = t[i]
  PROVE  s = t
  OBVIOUS

(* What is left of a text from a place on: each of its places is a place of the text. *)
LEMMA RestFrom ==
  ASSUME NEW t \in Seq(Int), NEW k \in 1 .. Len(t)
  PROVE  /\ SubSeq(t, k, Len(t)) \in Seq(Int)
         /\ Len(SubSeq(t, k, Len(t))) = Len(t) - k + 1
         /\ \A i \in 1 .. Len(SubSeq(t, k, Len(t))) : SubSeq(t, k, Len(t))[i] = t[k + i - 1]
<1>1. k \in Int /\ Len(t) \in Int /\ \A i \in k .. Len(t) : t[i] \in Int
  OBVIOUS
<1> DEFINE h == SubSeq(t, k, Len(t))
<1>2. /\ h \in Seq(Int)
      /\ Len(h) = IF k <= Len(t) THEN Len(t) - k + 1 ELSE 0
      /\ \A i \in 1 .. Len(t) - k + 1 : h[i] = t[k + i - 1]
  BY <1>1, SubSeqProperties
<1> HIDE DEF h
<1>3. Len(h) = Len(t) - k + 1
  BY <1>2
<1>4. \A i \in 1 .. Len(h) : h[i] = t[k + i - 1]
  BY <1>2, <1>3
<1> QED
  BY <1>2, <1>3, <1>4 DEF h

(* What was torn off a text is torn off a longer one, unless it was the    *)
(* last part.                                                              *)
LEMMA TearMore ==
  ASSUME NEW text \in Seq(Int), NEW ext \in Seq(Int), TearOff(text).rest # <<>>
  PROVE  /\ TearOff(text \o ext).part = TearOff(text).part
         /\ TearOff(text \o ext).rest = TearOff(text).rest \o ext
<1> DEFINE more == text \o ext
           e  == PartEnd(text)
           e2 == PartEnd(more)
<1>1. /\ MessageLimit \in Nat /\ MessageLimit >= 1 /\ Len(text) \in Nat /\ Len(ext) \in Nat
      /\ more \in Seq(Int) /\ Len(more) = Len(text) + Len(ext)
      /\ \A i \in 1 .. Len(text) : more[i] = text[i]
  BY Bounds
<1>2. e # Len(text) /\ TearOff(text).rest = NextPart(text, e)
  BY DEF TearOff
<1>3. e \in 0 .. Len(text)
  BY PartEndFacts
<1>4. MessageLimit < Len(text)
  BY <1>1, <1>2 DEF PartEnd
<1>5. SubSeq(more, 2, MessageLimit) = SubSeq(text, 2, MessageLimit)
  BY <1>1, <1>4
<1>6. more[MessageLimit + 1] = text[MessageLimit + 1]
  BY <1>1, <1>4
<1> HIDE DEF more
<1>7. e2 = e
  <2>1. ~(Len(more) <= MessageLimit) /\ ~(Len(text) <= MessageLimit)
    BY <1>1, <1>4
  <2> QED
    BY <1>5, <1>6, <2>1 DEF PartEnd
<1> HIDE DEF e, e2
<1>8. TearOff(more).part = SubSeq(more, 1, e) /\ TearOff(text).part = SubSeq(text, 1, e)
  BY <1>7 DEF TearOff, e, e2
<1>9. e2 # Len(more) /\ TearOff(more).rest = NextPart(more, e)
  <2>1. e2 # Len(more)
    BY <1>1, <1>2, <1>3, <1>7
  <2> QED
    BY <1>7, <2>1 DEF TearOff, e2
<1>10. SubSeq(more, 1, e) = SubSeq(text, 1, e)
  BY <1>1, <1>3
<1> DEFINE words  == {i \in e + 1 .. Len(text) : KindOf(text[i]) # "nl"}
           words2 == {i \in e + 1 .. Len(more) : KindOf(more[i]) # "nl"}
           x  == CHOOSE i \in words : \A j \in words : i <= j
           x2 == CHOOSE i \in words2 : \A j \in words2 : i <= j
<1>11. /\ NextPart(text, e) = IF words = {} THEN <<>> ELSE SubSeq(text, x, Len(text))
       /\ NextPart(more, e) = IF words2 = {} THEN <<>> ELSE SubSeq(more, x2, Len(more))
  BY DEF NextPart
<1>12. words # {}
  BY <1>2, <1>11
<1>13. words \in SUBSET Nat /\ words2 \in SUBSET Nat /\ words \subseteq e + 1 .. Len(text)
  BY <1>1, <1>3
<1>14. words \subseteq words2
  <2> SUFFICES ASSUME NEW i \in e + 1 .. Len(text), KindOf(text[i]) # "nl"
               PROVE  i \in e + 1 .. Len(more) /\ KindOf(more[i]) # "nl"
    OBVIOUS
  <2>1. i \in 1 .. Len(text) /\ i \in e + 1 .. Len(more)
    BY <1>1, <1>3
  <2> QED
    BY <1>1, <2>1
<1>15. ASSUME NEW i \in words2, i <= Len(text) PROVE i \in words
  <2>1. i \in e + 1 .. Len(text) /\ KindOf(more[i]) # "nl"
    BY <1>1, <1>3, <1>15
  <2>2. i \in 1 .. Len(text)
    BY <1>1, <1>3, <2>1
  <2> QED
    BY <1>1, <2>1, <2>2
<1> HIDE DEF words, words2
<1>16. x \in words /\ \A j \in words : x <= j
  BY <1>12, <1>13, Least
<1>17. x2 \in words2 /\ \A j \in words2 : x2 <= j
  BY <1>12, <1>13, <1>14, Least
<1> HIDE DEF x, x2
<1>18. x \in e + 1 .. Len(text) /\ x2 <= x /\ x2 \in Nat /\ x \in Nat
  BY <1>13, <1>14, <1>16, <1>17
<1>19. x2 = x
  <2>1. x2 <= Len(text)
    BY <1>1, <1>3, <1>18
  <2>2. x2 \in words
    BY <1>15, <1>17, <2>1
  <2>3. x <= x2
    BY <1>16, <2>2
  <2> QED
    BY <1>18, <2>3
<1>20. SubSeq(more, x, Len(more)) = SubSeq(text, x, Len(text)) \o ext
  <2>1. x \in 1 .. Len(text)
    BY <1>1, <1>3, <1>18
  <2>0. more \in Seq(Int) /\ x \in 1 .. Len(more)
    BY <1>1, <2>1
  <2> DEFINE l == SubSeq(more, x, Len(more))
             h == SubSeq(text, x, Len(text))
             r == h \o ext
  <2>2. /\ l \in Seq(Int) /\ Len(l) = Len(more) - x + 1
        /\ \A i \in 1 .. Len(l) : l[i] = more[x + i - 1]
    BY <2>0, RestFrom
  <2>3. /\ h \in Seq(Int) /\ Len(h) = Len(text) - x + 1
        /\ \A i \in 1 .. Len(h) : h[i] = text[x + i - 1]
    BY <2>1, RestFrom
  <2> HIDE DEF h
  <2>4. /\ r \in Seq(Int) /\ Len(r) = Len(h) + Len(ext)
        /\ \A i \in 1 .. Len(h) : r[i] = h[i]
        /\ \A i \in Len(h) + 1 .. Len(h) + Len(ext) : r[i] = ext[i - Len(h)]
    BY <2>3, ConcatFacts
  <2>5. \A i \in Len(text) + 1 .. Len(more) : more[i] = ext[i - Len(text)]
    BY <1>1 DEF more
  <2> HIDE DEF l, r
  <2>6. Len(l) = Len(r)
    BY <1>1, <2>1, <2>2, <2>3, <2>4
  <2>7. ASSUME NEW i \in 1 .. Len(l) PROVE l[i] = r[i]
    <3>1. CASE i <= Len(h)
      <4>1. i \in 1 .. Len(h) /\ x + i - 1 \in 1 .. Len(text)
        BY <1>1, <2>1, <2>3, <3>1
      <4> QED
        BY <1>1, <2>2, <2>3, <2>4, <4>1
    <3>2. CASE i > Len(h)
      <4>1. i \in Len(h) + 1 .. Len(h) + Len(ext) /\ x + i - 1 \in Len(text) + 1 .. Len(more)
            /\ (x + i - 1) - Len(text) = i - Len(h)
        BY <1>1, <2>1, <2>2, <2>3, <3>2
      <4> QED
        BY <2>2, <2>4, <2>5, <4>1
    <3> QED
      BY <2>3, <3>1, <3>2
  <2>8. l = r
    BY <2>2, <2>4, <2>6, <2>7, SameSequence
  <2> QED
    BY <2>8 DEF l, r, h
<1>21. words2 # {}
  BY <1>12, <1>14
<1> QED
  BY <1>2, <1>8, <1>9, <1>10, <1>11, <1>12, <1>19, <1>20, <1>21 DEF more

LEMMA TearNothing == TearOff(<<>>).part = <<>> /\ TearOff(<<>>).rest = <<>>
<1>1. Len(<<>>) = 0 /\ MessageLimit \in Nat
  BY Bounds
<1>2. PartEnd(<<>>) = 0
  BY <1>1 DEF PartEnd
<1>3. SubSeq(<<>>, 1, 0) = <<>>
  OBVIOUS
<1> QED
  BY <1>1, <1>2, <1>3 DEF TearOff

LEMMA TearsStep ==
  ASSUME NEW text \in Seq(Int), NEW a, Tears(a, text)
  PROVE  a[0] = TearOff(text) /\ \A k \in 1 .. Len(text) : a[k] = TearOff(a[k - 1].rest)
<1>1. a = [k \in 0 .. Len(text) |-> IF k = 0 THEN TearOff(text) ELSE TearOff(a[k - 1].rest)]
  BY TearsOne
<1>2. 0 \in 0 .. Len(text)
  OBVIOUS
<1>3. \A k \in 1 .. Len(text) : k \in 0 .. Len(text) /\ k # 0
  OBVIOUS
<1> QED
  BY <1>1, <1>2, <1>3

(* Each part takes something. *)
LEMMA TearsShrink ==
  ASSUME NEW text \in Seq(Int), NEW a, Tears(a, text), text # <<>>
  PROVE  \A k \in 0 .. Len(text) :
           a[k].rest \in Seq(Int) /\ (a[k].rest = <<>> \/ Len(a[k].rest) + k < Len(text))
<1> DEFINE Fine(k) == a[k].rest \in Seq(Int) /\ (a[k].rest = <<>> \/ Len(a[k].rest) + k < Len(text))
           Holds == {n \in Nat : n <= Len(text) => Fine(n)}
<1>1. 0 \in Holds
  <2>1. a[0] = TearOff(text)
    BY TearsStep
  <2>2. a[0].rest \in Seq(Int) /\ Len(a[0].rest) < Len(text)
    BY <2>1, TearFacts
  <2> QED
    BY <2>2
<1>2. ASSUME NEW n \in Nat, n \in Holds PROVE n + 1 \in Holds
  <2> HIDE DEF Fine
  <2> SUFFICES ASSUME n + 1 <= Len(text) PROVE Fine(n + 1)
    OBVIOUS
  <2>1. Fine(n)
    BY <1>2
  <2> USE DEF Fine
  <2>2. n + 1 \in 1 .. Len(text) /\ (n + 1) - 1 = n
    OBVIOUS
  <2>3. a[n + 1] = TearOff(a[n].rest)
    BY <2>2, TearsStep
  <2>4. CASE a[n].rest = <<>>
    BY <2>3, <2>4, TearNothing, Empties
  <2>5. CASE a[n].rest # <<>>
    <3>1. /\ a[n + 1].rest \in Seq(Int) /\ Len(a[n + 1].rest) < Len(a[n].rest)
          /\ a[n].rest \in Seq(Int) /\ Len(a[n].rest) + n < Len(text)
      BY <2>1, <2>3, <2>5, TearFacts
    <3>2. Len(a[n + 1].rest) \in Nat /\ Len(a[n].rest) \in Nat /\ Len(text) \in Nat
      BY <3>1
    <3> DEFINE l == a[n + 1].rest
               r == a[n].rest
    <3>3. l \in Seq(Int) /\ Len(l) \in Nat /\ Len(r) \in Nat /\ Len(l) < Len(r) /\ Len(r) + n < Len(text)
      BY <3>1, <3>2
    <3> HIDE DEF l, r
    <3>4. Len(l) + (n + 1) < Len(text)
      BY <3>2, <3>3
    <3> QED
      BY <3>3, <3>4 DEF l
  <2> QED
    BY <2>4, <2>5
<1>3. Holds \in SUBSET Nat
  OBVIOUS
<1> HIDE DEF Holds
<1>4. Holds = Nat
  BY <1>1, <1>2, <1>3, Induct
<1> QED
  BY <1>4 DEF Holds

(* The m + 1 parts of a text *)
TornIn(a, text, m) ==
  /\ Tears(a, text) /\ m \in 0 .. Len(text)
  /\ Len(Parts(text)) = m + 1
  /\ \A k \in 0 .. m : Parts(text)[k + 1] = a[k].part /\ a[k].part # <<>>
  /\ \A k \in Nat : k < m => a[k].rest # <<>>
  /\ a[m].rest = <<>>

LEMMA PartsAre ==
  ASSUME NEW text \in Seq(Int), text # <<>>
  PROVE  \E a, m : TornIn(a, text, m)
<1>1. PICK a : LET count == IF a[0].rest = <<>> THEN 1
                            ELSE 1 + Cardinality({k \in 1 .. Len(text) : a[k].part # <<>>})
               IN  Tears(a, text) /\ Parts(text) = [k \in 1 .. count |-> a[k - 1].part]
  BY PartsTears
<1> DEFINE some  == {k \in 1 .. Len(text) : a[k].part # <<>>}
           count == IF a[0].rest = <<>> THEN 1 ELSE 1 + Cardinality(some)
           gone == {k \in 0 .. Len(text) : a[k].rest = <<>>}
<1>2. Tears(a, text) /\ Parts(text) = [k \in 1 .. count |-> a[k - 1].part]
  BY <1>1
<1>3. Len(text) \in Nat /\ Len(text) >= 1
  <2>1. Len(text) # 0
    OBVIOUS
  <2> QED
    BY <2>1
<1>4. Len(text) - 1 \in gone
  <2>1. Len(text) - 1 \in 0 .. Len(text)
    BY <1>3
  <2>2. a[Len(text) - 1].rest \in Seq(Int)
        /\ (a[Len(text) - 1].rest = <<>> \/ Len(a[Len(text) - 1].rest) + (Len(text) - 1) < Len(text))
    BY <1>2, <2>1, TearsShrink
  <2> DEFINE r == a[Len(text) - 1].rest
  <2>3. r \in Seq(Int) /\ (r = <<>> \/ Len(r) + (Len(text) - 1) < Len(text))
    BY <2>2
  <2> HIDE DEF r
  <2>4. r = <<>>
    <3>1. Len(r) \in Nat /\ (Len(r) = 0 => r = <<>>)
      BY <2>3
    <3> QED
      BY <1>3, <2>3, <3>1
  <2> QED
    BY <2>1, <2>4 DEF r
<1>5. gone \in SUBSET Nat
  OBVIOUS
<1>6. PICK m \in gone : \A y \in gone : m <= y
  <2> HIDE DEF gone
  <2> QED
    BY <1>4, <1>5, Least
<1>7. m \in 0 .. Len(text) /\ a[m].rest = <<>> /\ m <= Len(text) - 1 /\ m \in Nat
  <2>1. m <= Len(text) - 1
    <3> HIDE DEF gone
    <3> QED
      BY <1>4, <1>6
  <2> QED
    BY <1>6, <2>1
<1>8. ASSUME NEW k \in Nat, k < m PROVE a[k].rest # <<>>
  <2>1. k \in 0 .. Len(text)
    BY <1>3, <1>7, <1>8
  <2>2. k \notin gone
    <3> HIDE DEF gone
    <3> QED
      BY <1>6, <1>7, <1>8
  <2> QED
    BY <2>1, <2>2
<1>9. \A k \in 0 .. m : a[k].part # <<>>
  <2> SUFFICES ASSUME NEW k \in 0 .. m PROVE a[k].part # <<>>
    OBVIOUS
  <2>1. CASE k = 0
    <3>1. a[k] = TearOff(text)
      BY <1>2, <2>1, TearsStep
    <3> QED
      BY <3>1, TearFacts
  <2>2. CASE k # 0
    <3>1. k \in 1 .. Len(text) /\ k - 1 \in Nat /\ k - 1 < m /\ k - 1 \in 0 .. Len(text)
      BY <1>3, <1>7, <2>2
    <3>2. a[k] = TearOff(a[k - 1].rest)
      BY <1>2, <3>1, TearsStep
    <3>3. a[k - 1].rest # <<>> /\ a[k - 1].rest \in Seq(Int)
      BY <1>2, <1>8, <3>1, TearsShrink
    <3> QED
      BY <3>2, <3>3, TearFacts
  <2> QED
    BY <2>1, <2>2
<1>10. \A k \in m + 1 .. Len(text) : a[k].part = <<>> /\ a[k].rest = <<>>
  <2> DEFINE Fine(k) == a[k].rest = <<>> /\ (k > m => a[k].part = <<>>)
             Holds == {n \in Nat : m + n <= Len(text) => Fine(m + n)}
  <2>1. 0 \in Holds
    BY <1>7
  <2>2. ASSUME NEW n \in Nat, n \in Holds PROVE n + 1 \in Holds
    <3> SUFFICES ASSUME m + (n + 1) <= Len(text) PROVE Fine(m + (n + 1))
      OBVIOUS
    <3>1. a[m + n].rest = <<>>
      BY <1>7, <2>2
    <3>2. m + (n + 1) \in 1 .. Len(text) /\ (m + (n + 1)) - 1 = m + n
      BY <1>7
    <3>3. a[m + (n + 1)] = TearOff(a[m + n].rest)
      BY <1>2, <3>2, TearsStep
    <3> QED
      BY <3>1, <3>3, TearNothing
  <2>3. Holds \in SUBSET Nat
    OBVIOUS
  <2> HIDE DEF Holds
  <2>4. Holds = Nat
    BY <2>1, <2>2, <2>3, Induct
  <2> SUFFICES ASSUME NEW k \in m + 1 .. Len(text) PROVE Fine(k) /\ k > m
    OBVIOUS
  <2>5. k - m \in Nat /\ m + (k - m) = k /\ k <= Len(text) /\ k > m
    BY <1>7
  <2>6. k - m \in Holds
    BY <2>4, <2>5
  <2> QED
    BY <2>5, <2>6 DEF Holds
<1>11. some = 1 .. m
  <2>1. \A k \in 1 .. Len(text) : a[k].part # <<>> <=> k <= m
    <3> SUFFICES ASSUME NEW k \in 1 .. Len(text) PROVE a[k].part # <<>> <=> k <= m
      OBVIOUS
    <3>1. k \in 0 .. m \/ k \in m + 1 .. Len(text)
      BY <1>7
    <3>2. CASE k \in 0 .. m
      BY <1>7, <1>9, <3>2
    <3>3. CASE k \in m + 1 .. Len(text)
      BY <1>7, <1>10, <3>3
    <3> QED
      BY <3>1, <3>2, <3>3
  <2> QED
    BY <1>7, <2>1
<1>12. count = m + 1
  <2>1. m \in Int /\ 1 \in Int
    BY <1>7
  <2>2. Cardinality(1 .. m) = IF 1 > m THEN 0 ELSE m - 1 + 1
    BY <2>1, FS_Interval
  <2> HIDE DEF some
  <2>5. Cardinality(1 .. m) = m
    BY <1>7, <2>2
  <2>3. Cardinality(some) = m
    BY <1>11, <2>5
  <2>4. a[0].rest = <<>> => m = 0
    BY <1>7, <1>8
  <2> QED
    BY <1>7, <2>3, <2>4
<1> HIDE DEF count, some, gone
<1>13. Len(Parts(text)) = m + 1
  BY <1>2, <1>7, <1>12
<1>14. \A k \in 0 .. m : Parts(text)[k + 1] = a[k].part
  BY <1>2, <1>7, <1>12
<1>15. TornIn(a, text, m)
  BY <1>2, <1>7, <1>8, <1>9, <1>13, <1>14 DEF TornIn
<1> QED
  BY <1>15

(* All the parts of a text but the last are parts of a longer one. *)
LEMMA PartsKeep ==
  ASSUME NEW text \in Seq(Int), NEW ext \in Seq(Int), text # <<>>
  PROVE  /\ Len(Parts(text)) <= Len(Parts(text \o ext))
         /\ \A n \in 1 .. Len(Parts(text)) :
              n < Len(Parts(text)) => Parts(text \o ext)[n] = Parts(text)[n]
<1> DEFINE more == text \o ext
<1>1. /\ more \in Seq(Int) /\ Len(more) = Len(text) + Len(ext)
      /\ Len(text) \in Nat /\ Len(ext) \in Nat
  OBVIOUS
<1>2. more # <<>>
  <2>1. Len(text) # 0
    OBVIOUS
  <2> QED
    BY <1>1, <2>1
<1>3. PICK a, m : TornIn(a, text, m)
  BY PartsAre
<1>4. /\ Tears(a, text) /\ m \in 0 .. Len(text) /\ Len(Parts(text)) = m + 1
      /\ \A k \in 0 .. m : Parts(text)[k + 1] = a[k].part
      /\ \A k \in Nat : k < m => a[k].rest # <<>>
  BY <1>3 DEF TornIn
<1>5. PICK b, l : TornIn(b, more, l)
  <2> HIDE DEF more
  <2> QED
    BY <1>1, <1>2, PartsAre
<1>6. /\ Tears(b, more) /\ l \in 0 .. Len(more) /\ Len(Parts(more)) = l + 1
      /\ \A k \in 0 .. l : Parts(more)[k + 1] = b[k].part
      /\ b[l].rest = <<>>
  <2> HIDE DEF more
  <2> QED
    BY <1>5 DEF TornIn
<1> DEFINE Fine(k) == b[k].part = a[k].part /\ b[k].rest = a[k].rest \o ext
           Holds == {n \in Nat : n < m => Fine(n)}
<1>7. /\ a[0] = TearOff(text) /\ b[0] = TearOff(more)
      /\ \A k \in 1 .. Len(text) : a[k] = TearOff(a[k - 1].rest)
      /\ \A k \in 1 .. Len(more) : b[k] = TearOff(b[k - 1].rest)
  <2> HIDE DEF more
  <2> QED
    BY <1>1, <1>4, <1>6, TearsStep
<1>8. 0 \in Holds
  <2> SUFFICES ASSUME 0 < m PROVE Fine(0)
    OBVIOUS
  <2>1. TearOff(text).rest # <<>>
    BY <1>4, <1>7
  <2> QED
    BY <1>7, <2>1, TearMore
<1>9. ASSUME NEW n \in Nat, n \in Holds PROVE n + 1 \in Holds
  <2> HIDE DEF Fine
  <2> SUFFICES ASSUME n + 1 < m PROVE Fine(n + 1)
    OBVIOUS
  <2>1. Fine(n)
    BY <1>4, <1>9
  <2>2. n + 1 \in 1 .. Len(text) /\ n + 1 \in 1 .. Len(more) /\ (n + 1) - 1 = n /\ n \in 0 .. Len(text)
    BY <1>1, <1>4
  <2> HIDE DEF more
  <2>3. a[n + 1] = TearOff(a[n].rest) /\ b[n + 1] = TearOff(b[n].rest)
    BY <1>7, <2>2
  <2>4. a[n + 1].rest # <<>>
    BY <1>4
  <2>5. a[n].rest \in Seq(Int)
    BY <1>4, <2>2, TearsShrink
  <2>6. b[n].rest = a[n].rest \o ext
    BY <2>1 DEF Fine
  <2>7. TearOff(a[n].rest).rest # <<>>
    BY <2>3, <2>4
  <2> DEFINE r == a[n].rest
  <2> HIDE DEF r
  <2>8. /\ TearOff(r \o ext).part = TearOff(r).part
        /\ TearOff(r \o ext).rest = TearOff(r).rest \o ext
    BY <2>5, <2>7, TearMore DEF r
  <2> QED
    BY <2>3, <2>6, <2>8 DEF r, Fine
<1>10. Holds \in SUBSET Nat
  OBVIOUS
<1> HIDE DEF Holds
<1>11. Holds = Nat
  BY <1>8, <1>9, <1>10, Induct
<1>12. \A k \in Nat : k < m => Fine(k)
  BY <1>11 DEF Holds
<1>13. m <= l
  <2> SUFFICES ASSUME l < m PROVE FALSE
    BY <1>4, <1>6
  <2>1. l \in Nat /\ l \in 0 .. Len(text)
    BY <1>1, <1>4, <1>6
  <2>2. a[l].rest \in Seq(Int) /\ a[l].rest # <<>>
    BY <1>4, <2>1, TearsShrink
  <2>3. b[l].rest = a[l].rest \o ext
    BY <1>12, <2>1
  <2> DEFINE r == a[l].rest
  <2>4. r \in Seq(Int) /\ r # <<>> /\ r \o ext = <<>>
    BY <1>6, <2>2, <2>3
  <2> HIDE DEF r
  <2>5. Len(r \o ext) = Len(r) + Len(ext) /\ Len(r) \in Nat /\ (Len(r) = 0 => r = <<>>)
    BY <2>4
  <2> QED
    BY <1>1, <2>4, <2>5
<1>14. \A n \in 1 .. m + 1 : n < m + 1 => Parts(more)[n] = Parts(text)[n]
  <2> SUFFICES ASSUME NEW n \in 1 .. m + 1, n < m + 1 PROVE Parts(more)[n] = Parts(text)[n]
    OBVIOUS
  <2> HIDE DEF more, Fine
  <2>1. n - 1 \in Nat /\ n - 1 < m /\ n - 1 \in 0 .. m /\ n - 1 \in 0 .. l /\ (n - 1) + 1 = n
    BY <1>4, <1>6, <1>13
  <2>2. Parts(more)[n] = b[n - 1].part /\ Parts(text)[n] = a[n - 1].part
    BY <1>4, <1>6, <2>1
  <2>3. Fine(n - 1)
    BY <1>12, <2>1
  <2> QED
    BY <2>2, <2>3 DEF Fine
<1> HIDE DEF more
<1>15. m + 1 <= l + 1
  BY <1>4, <1>6, <1>13
<1> QED
  BY <1>4, <1>6, <1>14, <1>15 DEF more

LEMMA NoInk == Ink(<<>>) = {} /\ Voiced(<<>>) = {} /\ Rising(<<>>)
BY Empties DEF Ink, Voiced, Rising

LEMMA PartsRise ==
  ASSUME NEW text \in Seq(Int), text # <<>>, Rising(text)
  PROVE  /\ \A n \in 1 .. Len(Parts(text)) :
              /\ Parts(text)[n] # <<>> /\ Rising(Parts(text)[n])
              /\ Ink(Parts(text)[n]) \subseteq Ink(text)
         /\ \A n, k \in 1 .. Len(Parts(text)) :
              n < k => Before(Ink(Parts(text)[n]), Ink(Parts(text)[k]))
<1>1. PICK a, m : TornIn(a, text, m)
  BY PartsAre
<1>2. /\ Tears(a, text) /\ m \in 0 .. Len(text) /\ Len(Parts(text)) = m + 1
      /\ \A k \in 0 .. m : Parts(text)[k + 1] = a[k].part /\ a[k].part # <<>>
      /\ Len(text) \in Nat
  BY <1>1 DEF TornIn
<1> DEFINE Fine(k) ==
             /\ Rising(a[k].part) /\ Rising(a[k].rest)
             /\ Ink(a[k].part) \subseteq Ink(text) /\ Ink(a[k].rest) \subseteq Ink(text)
             /\ \A j \in 0 .. k : Before(Ink(a[j].part), Ink(a[k].rest))
             /\ \A j \in 0 .. k : j < k => Before(Ink(a[j].part), Ink(a[k].part))
           Holds == {n \in Nat : n <= Len(text) => Fine(n)}
<1>3. a[0] = TearOff(text) /\ \A k \in 1 .. Len(text) : a[k] = TearOff(a[k - 1].rest)
  BY <1>2, TearsStep
<1>4. 0 \in Holds
  <2>1. /\ Rising(a[0].part) /\ Rising(a[0].rest) /\ Before(Ink(a[0].part), Ink(a[0].rest))
        /\ Ink(a[0].part) \subseteq Ink(text) /\ Ink(a[0].rest) \subseteq Ink(text)
    BY <1>3, TearFacts
  <2>2. Fine(0)
    BY <2>1
  <2> HIDE DEF Fine
  <2> QED
    BY <2>2
<1>5. ASSUME NEW n \in Nat, n \in Holds PROVE n + 1 \in Holds
  <2> HIDE DEF Fine
  <2> SUFFICES ASSUME n + 1 <= Len(text) PROVE Fine(n + 1)
    OBVIOUS
  <2>1. Fine(n)
    BY <1>2, <1>5
  <2>2. n + 1 \in 1 .. Len(text) /\ (n + 1) - 1 = n /\ n \in 0 .. Len(text)
    BY <1>2
  <2>3. a[n + 1] = TearOff(a[n].rest)
    BY <1>3, <2>2
  <2>4. a[n].rest \in Seq(Int)
    BY <1>2, <2>2, TearsShrink
  <2> DEFINE part == a[n + 1].part
             rest == a[n + 1].rest
             old == a[n].rest
  <2>5. /\ Rising(part) /\ Rising(rest) /\ Before(Ink(part), Ink(rest))
        /\ Ink(part) \subseteq Ink(old) /\ Ink(rest) \subseteq Ink(old)
    <3>1. CASE old = <<>>
      BY <2>3, <3>1, TearNothing, NoInk DEF Before
    <3>2. CASE old # <<>>
      <4>1. Rising(old)
        BY <2>1 DEF Fine
      <4> QED
        BY <2>3, <2>4, <3>2, <4>1, TearFacts
    <3> QED
      BY <3>1, <3>2
  <2>6. /\ Ink(old) \subseteq Ink(text)
        /\ \A j \in 0 .. n : Before(Ink(a[j].part), Ink(old))
    BY <2>1 DEF Fine
  <2>7. \A j \in 0 .. n + 1 : j \in 0 .. n \/ j = n + 1
    OBVIOUS
  <2>8. \A j \in 0 .. n : Before(Ink(a[j].part), Ink(part)) /\ Before(Ink(a[j].part), Ink(rest))
    BY <2>5, <2>6 DEF Before
  <2>9. \A j \in 0 .. n + 1 : Before(Ink(a[j].part), Ink(a[n + 1].rest))
    BY <2>5, <2>7, <2>8
  <2>10. \A j \in 0 .. n + 1 : j < n + 1 => Before(Ink(a[j].part), Ink(a[n + 1].part))
    BY <2>7, <2>8
  <2>11. Ink(part) \subseteq Ink(text) /\ Ink(rest) \subseteq Ink(text)
    BY <2>5, <2>6
  <2> QED
    BY <2>5, <2>9, <2>10, <2>11 DEF Fine
<1>6. Holds \in SUBSET Nat
  OBVIOUS
<1> HIDE DEF Holds
<1>7. Holds = Nat
  BY <1>4, <1>5, <1>6, Induct
<1>8. \A k \in 0 .. Len(text) : Fine(k)
  BY <1>7 DEF Holds
<1> HIDE DEF Fine
<1>9. ASSUME NEW n \in 1 .. m + 1
      PROVE  n - 1 \in 0 .. m /\ n - 1 \in 0 .. Len(text) /\ (n - 1) + 1 = n
             /\ Parts(text)[n] = a[n - 1].part /\ a[n - 1].part # <<>> /\ Fine(n - 1)
  <2>1. n - 1 \in 0 .. m /\ n - 1 \in 0 .. Len(text) /\ (n - 1) + 1 = n
    BY <1>2
  <2>2. Parts(text)[(n - 1) + 1] = a[n - 1].part /\ a[n - 1].part # <<>> /\ Fine(n - 1)
    BY <1>2, <1>8, <2>1
  <2> QED
    BY <2>1, <2>2
<1>10. ASSUME NEW n \in 1 .. m + 1
       PROVE  /\ Parts(text)[n] # <<>> /\ Rising(Parts(text)[n])
              /\ Ink(Parts(text)[n]) \subseteq Ink(text)
  BY <1>9 DEF Fine
<1>11. ASSUME NEW n \in 1 .. m + 1, NEW k \in 1 .. m + 1, n < k
       PROVE  Before(Ink(Parts(text)[n]), Ink(Parts(text)[k]))
  <2>1. Fine(k - 1) /\ Parts(text)[n] = a[n - 1].part /\ Parts(text)[k] = a[k - 1].part
    BY <1>9
  <2>2. n - 1 \in 0 .. k - 1 /\ n - 1 < k - 1
    BY <1>2, <1>11
  <2> QED
    BY <2>1, <2>2 DEF Fine
<1> QED
  BY <1>2, <1>10, <1>11

(* No word is lost between the parts. *)
LEMMA PartsCover ==
  ASSUME NEW text \in Seq(Int), text # <<>>, NEW u \in Voiced(text)
  PROVE  \E n \in 1 .. Len(Parts(text)) : u \in Ink(Parts(text)[n])
<1>1. PICK a, m : TornIn(a, text, m)
  BY PartsAre
<1>2. /\ Tears(a, text) /\ m \in 0 .. Len(text) /\ Len(Parts(text)) = m + 1
      /\ \A k \in 0 .. m : Parts(text)[k + 1] = a[k].part
      /\ Len(text) \in Nat /\ a[m].rest = <<>>
  BY <1>1 DEF TornIn
<1> DEFINE Fine(k) == u \in Voiced(a[k].rest) \/ \E j \in 0 .. k : u \in Voiced(a[j].part)
           Holds == {n \in Nat : n <= Len(text) => Fine(n)}
<1>3. a[0] = TearOff(text) /\ \A k \in 1 .. Len(text) : a[k] = TearOff(a[k - 1].rest)
  BY <1>2, TearsStep
<1>4. 0 \in Holds
  <2>1. u \in Voiced(a[0].part) \cup Voiced(a[0].rest)
    BY <1>3, TearFacts
  <2>2. Fine(0)
    BY <2>1
  <2> HIDE DEF Fine
  <2> QED
    BY <2>2
<1>5. ASSUME NEW n \in Nat, n \in Holds PROVE n + 1 \in Holds
  <2> HIDE DEF Fine
  <2> SUFFICES ASSUME n + 1 <= Len(text) PROVE Fine(n + 1)
    OBVIOUS
  <2>1. Fine(n)
    BY <1>2, <1>5
  <2>2. n + 1 \in 1 .. Len(text) /\ (n + 1) - 1 = n /\ n \in 0 .. Len(text)
    BY <1>2
  <2>3. a[n + 1] = TearOff(a[n].rest)
    BY <1>3, <2>2
  <2>4. a[n].rest \in Seq(Int)
    BY <1>2, <2>2, TearsShrink
  <2>5. CASE \E j \in 0 .. n : u \in Voiced(a[j].part)
    BY <2>5 DEF Fine
  <2>6. CASE u \in Voiced(a[n].rest)
    <3>1. a[n].rest # <<>>
      BY <2>6, NoInk
    <3>2. u \in Voiced(a[n + 1].part) \cup Voiced(a[n + 1].rest)
      BY <2>3, <2>4, <2>6, <3>1, TearFacts
    <3>3. n + 1 \in 0 .. n + 1
      OBVIOUS
    <3> QED
      BY <3>2, <3>3 DEF Fine
  <2> QED
    BY <2>1, <2>5, <2>6 DEF Fine
<1>6. Holds \in SUBSET Nat
  OBVIOUS
<1> HIDE DEF Holds
<1>7. Holds = Nat
  BY <1>4, <1>5, <1>6, Induct
<1>8. Fine(m)
  BY <1>2, <1>7 DEF Holds
<1>9. u \notin Voiced(a[m].rest)
  BY <1>2, NoInk
<1>10. PICK j \in 0 .. m : u \in Voiced(a[j].part)
  BY <1>8, <1>9
<1>11. j + 1 \in 1 .. m + 1 /\ Parts(text)[j + 1] = a[j].part
  BY <1>2
<1> QED
  BY <1>2, <1>10, <1>11 DEF Voiced

LEMMA PartsOfNothing == Len(Parts(<<>>)) = 1 /\ Parts(<<>>)[1] = <<>>
<1>1. <<>> \in Seq(Int) /\ Len(<<>>) = 0
  BY Empties
<1>2. PICK a : LET count == IF a[0].rest = <<>> THEN 1
                            ELSE 1 + Cardinality({k \in 1 .. Len(<<>>) : a[k].part # <<>>})
               IN  Tears(a, <<>>) /\ Parts(<<>>) = [k \in 1 .. count |-> a[k - 1].part]
  BY <1>1, PartsTears
<1>3. a[0] = TearOff(<<>>)
  BY <1>1, <1>2, TearsStep
<1>4. Parts(<<>>) = [k \in 1 .. 1 |-> a[k - 1].part]
  BY <1>2, <1>3, TearNothing
<1> QED
  BY <1>3, <1>4, TearNothing

----------------------------------------------------------------------------
(* A surface without streams: the thread, and the message being written *)

Owns(posted, i) == \E n \in DOMAIN posted : posted[n].at = i

(* The parts are posts, one under the other, that show what is noted. *)
Filed(th, posted) ==
  /\ \A n \in DOMAIN posted : /\ posted[n].at \in DOMAIN th
                              /\ th[posted[n].at].kind = "post"
                              /\ th[posted[n].at].text = posted[n].shown
  /\ \A m, n \in DOMAIN posted : m < n => posted[m].at < posted[n].at

(* What else is said in the thread stands above them and was said before. *)
Olders(th, posted, all) ==
  \A i \in DOMAIN th : ~Owns(posted, i) /\ SaidIn(th[i]) # {} =>
    /\ \A n \in DOMAIN posted : i < posted[n].at
    /\ Before(UnitsOf(th[i]), Ink(all))

(* Up to the part that is next, and but for the last one posted, what is   *)
(* shown is what the text is split into.                                   *)
Partway(posted, all, part) ==
  /\ Len(posted) <= Len(Parts(all)) /\ part <= Len(posted) + 1
  /\ \A n \in DOMAIN posted :
       part = 0 \/ n < part \/ n < Len(posted) => posted[n].shown = Parts(all)[n]
  /\ part = 0 /\ all # <<>> => Len(posted) = Len(Parts(all))
  /\ all = <<>> => posted = <<>>

Laid(th, posted, all, part) ==
  /\ Rising(all) /\ Filed(th, posted) /\ Olders(th, posted, all) /\ Ordered(th)
  /\ Partway(posted, all, part)

(* What was said up to n is in the text or above it. *)
Has(th, posted, all, n) ==
  \A u \in 1 .. n : KindOf(u) # "nl" =>
    u \in Ink(all) \/ \E i \in DOMAIN th : ~Owns(posted, i) /\ u \in UnitsOf(th[i])

Shown(th, n) == \A u \in 1 .. n : KindOf(u) # "nl" => \E i \in DOMAIN th : u \in UnitsOf(th[i])

Silent(th, th2) ==
  /\ DOMAIN th \subseteq DOMAIN th2
  /\ \A i \in DOMAIN th : th2[i].kind = th[i].kind /\ th2[i].text = th[i].text
  /\ \A i \in DOMAIN th2 \ DOMAIN th : SaidIn(th2[i]) = {}

LEMMA PostInk ==
  ASSUME NEW m \in Message, m.kind = "post"
  PROVE  /\ m.text \in Seq(Int) /\ UnitsOf(m) = Ink(m.text)
         /\ SaidIn(m) = {p \in DOMAIN m.text : m.text[p] > 0}
<1>1. m.text \in Seq(Int)
  BY DEF Message
<1>2. SaidIn(m) = {p \in DOMAIN m.text : m.text[p] > 0}
  BY DEF SaidIn
<1>3. \A p \in DOMAIN m.text : m.text[p] \in Int
  BY <1>1
<1> QED
  BY <1>1, <1>2, <1>3 DEF UnitsOf, Ink

LEMMA SilentFacts ==
  ASSUME NEW th, NEW th2, Silent(th, th2)
  PROVE  /\ \A i \in DOMAIN th : SaidIn(th2[i]) = SaidIn(th[i]) /\ UnitsOf(th2[i]) = UnitsOf(th[i])
         /\ \A i \in DOMAIN th2 : SaidIn(th2[i]) # {} => i \in DOMAIN th
         /\ Still(th, th2)
<1>1. \A i \in DOMAIN th : SaidIn(th2[i]) = SaidIn(th[i])
  BY DEF Silent, SaidIn
<1>2. \A i \in DOMAIN th : UnitsOf(th2[i]) = UnitsOf(th[i])
  BY <1>1 DEF Silent, UnitsOf
<1> QED
  BY <1>1, <1>2 DEF Silent, Still

LEMMA SilentLaid ==
  ASSUME NEW th, NEW th2, Silent(th, th2), NEW posted, NEW all, NEW part, Laid(th, posted, all, part)
  PROVE  /\ Laid(th2, posted, all, part)
         /\ \A n : Has(th, posted, all, n) => Has(th2, posted, all, n)
<1>1. /\ \A i \in DOMAIN th : SaidIn(th2[i]) = SaidIn(th[i]) /\ UnitsOf(th2[i]) = UnitsOf(th[i])
      /\ \A i \in DOMAIN th2 : SaidIn(th2[i]) # {} => i \in DOMAIN th
      /\ Still(th, th2) /\ DOMAIN th \subseteq DOMAIN th2
  BY SilentFacts DEF Silent
<1>2. Ordered(th2)
  BY <1>1, StillOrdered DEF Laid
<1>3. Filed(th2, posted)
  BY DEF Laid, Filed, Silent
<1>4. Olders(th2, posted, all)
  BY <1>1 DEF Laid, Olders
<1>5. \A n : Has(th, posted, all, n) => Has(th2, posted, all, n)
  BY <1>1 DEF Has
<1> QED
  BY <1>2, <1>3, <1>4, <1>5 DEF Laid

(* Once a message is posted, its text is in the thread. *)
LEMMA LaidShown ==
  ASSUME NEW th \in Thread, NEW posted \in Seq(Post), NEW all \in Seq(Int),
         Laid(th, posted, all, 0), NEW n, Has(th, posted, all, n)
  PROVE  Shown(th, n)
<1> SUFFICES ASSUME NEW u \in 1 .. n, KindOf(u) # "nl"
             PROVE  \E i \in DOMAIN th : u \in UnitsOf(th[i])
  BY DEF Shown
<1>1. CASE u \in Ink(all)
  <2>1. all # <<>>
    BY <1>1, NoInk
  <2>2. u \in Voiced(all)
    BY <1>1 DEF Voiced
  <2>3. PICK k \in 1 .. Len(Parts(all)) : u \in Ink(Parts(all)[k])
    BY <2>1, <2>2, PartsCover
  <2>4. Len(posted) = Len(Parts(all))
    BY <2>1 DEF Laid, Partway
  <2>5. k \in DOMAIN posted
    BY <2>3, <2>4
  <2>6. /\ posted[k].shown = Parts(all)[k]
        /\ posted[k].at \in DOMAIN th /\ th[posted[k].at].kind = "post"
        /\ th[posted[k].at].text = posted[k].shown
    BY <2>5 DEF Laid, Partway, Filed
  <2> DEFINE i == posted[k].at
  <2>7. i \in DOMAIN th /\ th[i] \in Message /\ th[i].kind = "post" /\ th[i].text = Parts(all)[k]
    BY <2>6 DEF Thread
  <2> HIDE DEF i
  <2>8. UnitsOf(th[i]) = Ink(Parts(all)[k])
    BY <2>7, PostInk
  <2> QED
    BY <2>3, <2>7, <2>8
<1>2. CASE u \notin Ink(all)
  BY <1>2 DEF Has
<1> QED
  BY <1>1, <1>2

(* A message of its own is begun. *)
LEMMA LaidAnew ==
  ASSUME NEW th, Ordered(th), NEW part \in 0 .. 1
  PROVE  /\ Laid(th, <<>>, <<>>, part)
         /\ \A n : Shown(th, n) => Has(th, <<>>, <<>>, n)
<1>1. ~\E n : n \in DOMAIN <<>>
  BY Empties
<1>2. Filed(th, <<>>)
  BY <1>1 DEF Filed
<1>3. Olders(th, <<>>, <<>>)
  BY <1>1, NoInk DEF Olders, Before
<1>4. Partway(<<>>, <<>>, part)
  BY <1>1, Empties, PartsOfNothing DEF Partway
<1>5. \A i : ~Owns(<<>>, i)
  BY <1>1 DEF Owns
<1>6. \A n : Shown(th, n) => Has(th, <<>>, <<>>, n)
  BY <1>5 DEF Shown, Has
<1> QED
  BY <1>2, <1>3, <1>4, <1>6, NoInk DEF Laid

(* All there was, a gap up to b, and the text from its k-th unit on *)
JoinedAt(new, all, text, n, b, k) ==
  /\ new \in Seq(Int) /\ b >= Len(all)
  /\ Len(new) = b + Len(text) + 1 - k
  /\ \A p \in 1 .. Len(all) : new[p] = all[p]
  /\ \A p \in Len(all) + 1 .. b : new[p] = NL
  /\ \A p \in b + 1 .. Len(new) : new[p] = n + (p - b + k - 1)
  /\ \A i \in 1 .. k - 1 : KindOf(n + i) = "nl"
  /\ \E ext \in Seq(Int) : new = all \o ext

(* What is joined, unit by unit *)
LEMMA JoinedShape ==
  ASSUME NEW all \in Seq(Int), NEW broken \in BOOLEAN, NEW text \in Seq(Int), NEW n \in Nat,
         \A i \in 1 .. Len(text) : text[i] = n + i
  PROVE  \E b \in Nat, k \in 1 .. Len(text) + 1 :
           JoinedAt(Joining(all, broken, text), all, text, n, b, k)
<1> DEFINE new == Joining(all, broken, text)
<1>1. PICK gap \in Seq(Int), k \in 1 .. Len(text) + 1 :
        /\ Gaps(gap)
        /\ \A i \in 1 .. k - 1 : KindOf(text[i]) = "nl"
        /\ SubSeq(text, k, Len(text)) \in Seq(Int)
        /\ new = (all \o gap) \o SubSeq(text, k, Len(text))
  BY JoinedFacts
<1> HIDE DEF new
<1> DEFINE sub == SubSeq(text, k, Len(text))
           b   == Len(all) + Len(gap)
           one == all \o gap
           ext == gap \o sub
<1>2. /\ Len(all) \in Nat /\ Len(gap) \in Nat /\ Len(text) \in Nat /\ k \in Nat /\ b \in Nat
      /\ k >= 1 /\ k <= Len(text) + 1
  BY <1>1
<1>3. /\ sub \in Seq(Int) /\ Len(sub) = Len(text) + 1 - k
      /\ \A p \in 1 .. Len(sub) : sub[p] = text[k + p - 1]
  BY <1>1, <1>2
<1>4. \A p \in 1 .. Len(gap) : gap[p] = NL
  BY <1>1 DEF Gaps
<1>5. new = one \o sub
  BY <1>1
<1> HIDE DEF sub
<1>6. /\ one \in Seq(Int) /\ Len(one) = b
      /\ \A p \in 1 .. Len(all) : one[p] = all[p]
      /\ \A p \in Len(all) + 1 .. b : one[p] = gap[p - Len(all)]
  BY <1>1, <1>2, ConcatFacts
<1>7. /\ ext \in Seq(Int) /\ Len(ext) = Len(gap) + Len(sub)
      /\ \A p \in 1 .. Len(gap) : ext[p] = gap[p]
      /\ \A p \in Len(gap) + 1 .. Len(gap) + Len(sub) : ext[p] = sub[p - Len(gap)]
  BY <1>1, <1>2, <1>3, ConcatFacts
<1> HIDE DEF ext, one
<1>8. /\ new \in Seq(Int) /\ Len(new) = b + Len(sub)
      /\ \A p \in 1 .. b : new[p] = one[p]
      /\ \A p \in b + 1 .. b + Len(sub) : new[p] = sub[p - b]
  <2>1. one \in Seq(Int) /\ sub \in Seq(Int) /\ Len(one) = b
    BY <1>3, <1>6
  <2> HIDE DEF b
  <2>2. /\ one \o sub \in Seq(Int) /\ Len(one \o sub) = Len(one) + Len(sub)
        /\ \A p \in 1 .. Len(one) : (one \o sub)[p] = one[p]
        /\ \A p \in Len(one) + 1 .. Len(one) + Len(sub) : (one \o sub)[p] = sub[p - Len(one)]
    BY <2>1, ConcatFacts
  <2> QED
    BY <1>5, <2>1, <2>2
<1>9. /\ all \o ext \in Seq(Int) /\ Len(all \o ext) = Len(all) + Len(ext)
      /\ \A p \in 1 .. Len(all) : (all \o ext)[p] = all[p]
      /\ \A p \in Len(all) + 1 .. Len(all) + Len(ext) : (all \o ext)[p] = ext[p - Len(all)]
  BY <1>7, ConcatFacts
<1>10. \A p \in 1 .. Len(all) : p \in 1 .. b /\ new[p] = all[p]
  BY <1>2, <1>6, <1>8
<1>11. \A p \in Len(all) + 1 .. b : p \in 1 .. b /\ p - Len(all) \in 1 .. Len(gap)
  BY <1>2
<1>12. \A p \in Len(all) + 1 .. b : new[p] = NL
  BY <1>4, <1>6, <1>8, <1>11
<1>13. ASSUME NEW p \in b + 1 .. Len(new) PROVE new[p] = n + (p - b + k - 1)
  <2>1. p \in b + 1 .. b + Len(sub) /\ p - b \in 1 .. Len(sub)
    BY <1>2, <1>3, <1>8
  <2>2. new[p] = sub[p - b] /\ sub[p - b] = text[k + (p - b) - 1]
    BY <1>3, <1>8, <2>1
  <2>3. k + (p - b) - 1 \in 1 .. Len(text) /\ k + (p - b) - 1 = p - b + k - 1
    BY <1>2, <1>3, <2>1
  <2> QED
    BY <2>2, <2>3
<1>14. ASSUME NEW i \in 1 .. k - 1 PROVE KindOf(n + i) = "nl"
  <2>1. i \in 1 .. Len(text)
    BY <1>2
  <2>2. text[i] = n + i
    BY <2>1
  <2>3. KindOf(text[i]) = "nl"
    BY <1>1
  <2> QED
    BY <2>2, <2>3
<1>15. new = all \o ext
  <2>1. Len(all \o ext) = Len(new)
    BY <1>2, <1>3, <1>7, <1>8, <1>9
  <2>2. ASSUME NEW p \in 1 .. Len(new) PROVE new[p] = (all \o ext)[p]
    <3>1. CASE p \in 1 .. Len(all)
      BY <1>9, <1>10, <3>1
    <3>2. CASE p \in Len(all) + 1 .. b
      <4>1. p - Len(all) \in 1 .. Len(gap) /\ p \in Len(all) + 1 .. Len(all) + Len(ext)
        BY <1>2, <1>3, <1>7, <3>2
      <4>2. (all \o ext)[p] = gap[p - Len(all)]
        BY <1>7, <1>9, <4>1
      <4> QED
        BY <1>4, <1>12, <3>2, <4>1, <4>2
    <3>3. CASE p \in b + 1 .. b + Len(sub)
      <4>1. /\ p \in Len(all) + 1 .. Len(all) + Len(ext)
            /\ p - Len(all) \in Len(gap) + 1 .. Len(gap) + Len(sub)
            /\ p - Len(all) - Len(gap) = p - b
        BY <1>2, <1>3, <1>7, <3>3
      <4>2. (all \o ext)[p] = sub[p - Len(all) - Len(gap)]
        BY <1>7, <1>9, <4>1
      <4> QED
        BY <1>8, <3>3, <4>1, <4>2
    <3>4. p \in 1 .. Len(all) \/ p \in Len(all) + 1 .. b \/ p \in b + 1 .. b + Len(sub)
      <4>1. p \in Nat /\ p >= 1 /\ p <= b + Len(sub) /\ Len(sub) \in Nat
        BY <1>2, <1>3, <1>8
      <4> QED
        BY <1>2, <4>1
    <3> QED
      BY <3>1, <3>2, <3>3, <3>4
  <2> QED
    BY <1>8, <1>9, <2>1, <2>2, SameSequence
<1>16. Len(new) = b + Len(text) + 1 - k /\ b >= Len(all)
  BY <1>2, <1>3, <1>8
<1> HIDE DEF b
<1>17. JoinedAt(new, all, text, n, b, k)
  BY <1>7, <1>8, <1>10, <1>12, <1>13, <1>14, <1>15, <1>16 DEF JoinedAt
<1> QED
  BY <1>1, <1>2, <1>17 DEF new

(* Text that is all newer than what it is joined to stays in order, and    *)
(* all of it but newlines is in what comes of it.                          *)
LEMMA JoinedInk ==
  ASSUME NEW all \in Seq(Int), NEW broken \in BOOLEAN, NEW text \in Seq(Int), NEW n \in Nat,
         \A i \in 1 .. Len(text) : text[i] = n + i, \A p \in DOMAIN all : all[p] <= n
  PROVE  LET new == Joining(all, broken, text)
         IN  /\ new \in Seq(Int)
             /\ Rising(all) => Rising(new)
             /\ Ink(all) \subseteq Ink(new)
             /\ \A u \in Ink(new) : u \in Ink(all) \/ u > n
             /\ \A u \in n + 1 .. n + Len(text) : KindOf(u) # "nl" => u \in Ink(new)
             /\ \E ext \in Seq(Int) : new = all \o ext
<1> DEFINE new == Joining(all, broken, text)
<1>0. PICK b \in Nat, k \in 1 .. Len(text) + 1 : JoinedAt(new, all, text, n, b, k)
  BY JoinedShape
<1> DEFINE a == Len(all)
           c == Len(new)
<1>1. /\ new \in Seq(Int) /\ b >= a
      /\ c = b + Len(text) + 1 - k
      /\ \A p \in 1 .. a : new[p] = all[p]
      /\ \A p \in a + 1 .. b : new[p] = NL
      /\ \A p \in b + 1 .. c : new[p] = n + (p - b + k - 1)
      /\ \A i \in 1 .. k - 1 : KindOf(n + i) = "nl"
      /\ \E ext \in Seq(Int) : new = all \o ext
  BY <1>0 DEF JoinedAt
<1>2. /\ a \in Nat /\ c \in Nat /\ DOMAIN all = 1 .. a /\ DOMAIN new = 1 .. c
      /\ Len(text) \in Nat /\ k \in Nat /\ k >= 1
      /\ \A p \in 1 .. a : all[p] \in Int
  BY <1>1
<1>3. a <= c /\ b <= c
  BY <1>1, <1>2
<1> HIDE DEF new, a, c
<1>4. \A p \in 1 .. c : p \in 1 .. a \/ p \in a + 1 .. b \/ p \in b + 1 .. c
  BY <1>1, <1>2
<1>5. ~(NL > 0)
  BY DEF NL
<1>6. ASSUME Rising(all) PROVE Rising(new)
  <2> SUFFICES ASSUME NEW p \in 1 .. c, NEW q \in 1 .. c, p < q, new[p] > 0, new[q] > 0
               PROVE  new[p] < new[q]
    BY <1>2 DEF Rising
  <2>1. p \notin a + 1 .. b /\ q \notin a + 1 .. b
    BY <1>1, <1>5
  <2>2. CASE p \in 1 .. a /\ q \in 1 .. a
    BY <1>1, <1>2, <1>6, <2>2 DEF Rising
  <2>3. CASE p \in 1 .. a /\ q \in b + 1 .. c
    <3>1. new[p] = all[p] /\ all[p] <= n /\ all[p] \in Int
      BY <1>1, <1>2, <2>3
    <3>2. new[q] = n + (q - b + k - 1)
      BY <1>1, <2>3
    <3>3. q - b + k - 1 > 0 /\ q - b + k - 1 \in Int
      BY <1>2, <2>3
    <3> QED
      BY <3>1, <3>2, <3>3
  <2>4. CASE p \in b + 1 .. c /\ q \in b + 1 .. c
    <3>1. new[p] = n + (p - b + k - 1) /\ new[q] = n + (q - b + k - 1)
      BY <1>1, <2>4
    <3> QED
      BY <1>2, <2>4, <3>1
  <2>5. CASE p \in b + 1 .. c /\ q \in 1 .. a
    BY <1>1, <1>2, <2>5
  <2> QED
    BY <1>4, <2>1, <2>2, <2>3, <2>4, <2>5
<1>7. Ink(all) \subseteq Ink(new)
  BY <1>1, <1>2, <1>3 DEF Ink
<1>8. ASSUME NEW u \in Ink(new) PROVE u \in Ink(all) \/ u > n
  <2>1. PICK p \in 1 .. c : new[p] = u
    BY <1>2 DEF Ink
  <2>2. u > 0 /\ u \in Int
    BY DEF Ink
  <2>3. CASE p \in 1 .. a
    BY <1>1, <1>2, <2>1, <2>2, <2>3 DEF Ink
  <2>4. CASE p \in a + 1 .. b
    BY <1>1, <1>5, <2>1, <2>2, <2>4
  <2>5. CASE p \in b + 1 .. c
    <3>1. u = n + (p - b + k - 1)
      BY <1>1, <2>1, <2>5
    <3> QED
      BY <1>2, <2>5, <3>1
  <2> QED
    BY <1>4, <2>3, <2>4, <2>5
<1>9. ASSUME NEW u \in n + 1 .. n + Len(text), KindOf(u) # "nl" PROVE u \in Ink(new)
  <2> DEFINE i == u - n
  <2>1. i \in 1 .. Len(text) /\ u = n + i /\ u > 0 /\ u \in Int
    BY <1>2
  <2>2. i \notin 1 .. k - 1
    BY <1>1, <1>9, <2>1
  <2> DEFINE p == b + i - k + 1
  <2>3. p \in b + 1 .. c /\ p \in 1 .. c /\ i = p - b + k - 1
    BY <1>1, <1>2, <2>1, <2>2
  <2> HIDE DEF i, p
  <2>4. new[p] = u
    BY <1>1, <2>1, <2>3
  <2> QED
    BY <1>2, <2>1, <2>3, <2>4 DEF Ink
<1>10. /\ new \in Seq(Int)
       /\ Rising(all) => Rising(new)
       /\ Ink(all) \subseteq Ink(new)
       /\ \A u \in Ink(new) : u \in Ink(all) \/ u > n
       /\ \A u \in n + 1 .. n + Len(text) : KindOf(u) # "nl" => u \in Ink(new)
       /\ \E ext \in Seq(Int) : new = all \o ext
  BY <1>1, <1>6, <1>7, <1>8, <1>9
<1> QED
  BY <1>10 DEF new

LEMMA UnitsUnder ==
  ASSUME NEW th \in Thread, NEW n, AllUnder(th, n), NEW i \in DOMAIN th, NEW u \in UnitsOf(th[i])
  PROVE  u <= n
BY DEF AllUnder, UnitsOf

LEMMA UnitsAreInts ==
  ASSUME NEW th \in Thread, NEW i \in DOMAIN th, NEW u \in UnitsOf(th[i])
  PROVE  u \in Int /\ u > 0
<1>1. th[i] \in Message
  BY DEF Thread
<1>2. PICK p \in SaidIn(th[i]) : u = th[i].text[p]
  BY DEF UnitsOf
<1>3. th[i].kind # "placed" /\ p \in DOMAIN th[i].text /\ th[i].text[p] > 0
  BY <1>2 DEF SaidIn
<1>4. th[i].text \in Seq(Int)
  BY <1>1, <1>3 DEF Message
<1> QED
  BY <1>2, <1>3, <1>4

(* More is joined to the text of the message. *)
LEMMA LaidJoins ==
  ASSUME NEW th \in Thread, NEW posted \in Seq(Post), NEW all \in Seq(Int), NEW part,
         Laid(th, posted, all, part), NEW n \in Nat, AllUnder(th, n),
         \A p \in DOMAIN all : all[p] <= n,
         NEW text \in Seq(Int), \A i \in 1 .. Len(text) : text[i] = n + i,
         NEW broken \in BOOLEAN
  PROVE  LET new == Joining(all, broken, text)
         IN  /\ Laid(th, posted, new, 1)
             /\ Has(th, posted, all, n) => Has(th, posted, new, n + Len(text))
<1> DEFINE new == Joining(all, broken, text)
<1>1. /\ new \in Seq(Int)
      /\ Rising(all) => Rising(new)
      /\ Ink(all) \subseteq Ink(new)
      /\ \A u \in Ink(new) : u \in Ink(all) \/ u > n
      /\ \A u \in n + 1 .. n + Len(text) : KindOf(u) # "nl" => u \in Ink(new)
      /\ \E ext \in Seq(Int) : new = all \o ext
  BY JoinedInk
<1> HIDE DEF new
<1>2. /\ Rising(all) /\ Filed(th, posted) /\ Olders(th, posted, all) /\ Ordered(th)
      /\ Partway(posted, all, part)
  BY DEF Laid
<1>3. PICK ext \in Seq(Int) : new = all \o ext
  BY <1>1
<1>4. Olders(th, posted, new)
  <2> SUFFICES ASSUME NEW i \in DOMAIN th, ~Owns(posted, i), SaidIn(th[i]) # {}
               PROVE  /\ \A m \in DOMAIN posted : i < posted[m].at
                      /\ Before(UnitsOf(th[i]), Ink(new))
    BY DEF Olders
  <2>1. (\A m \in DOMAIN posted : i < posted[m].at) /\ Before(UnitsOf(th[i]), Ink(all))
    BY <1>2 DEF Olders
  <2>2. ASSUME NEW x \in UnitsOf(th[i]), NEW y \in Ink(new) PROVE x < y
    <3>1. x \in Int /\ x <= n
      BY UnitsUnder, UnitsAreInts
    <3>2. y \in Int
      BY DEF Ink
    <3> QED
      BY <1>1, <2>1, <3>1, <3>2 DEF Before
  <2> QED
    BY <2>1, <2>2 DEF Before
<1>5. Len(posted) \in Nat /\ DOMAIN posted = 1 .. Len(posted) /\ Len(all) \in Nat
  OBVIOUS
<1>6. Partway(posted, new, 1)
  <2>1. CASE all = <<>>
    <3>1. posted = <<>>
      BY <1>2, <2>1 DEF Partway
    <3>2. Len(posted) = 0 /\ ~\E m : m \in DOMAIN posted
      BY <3>1, Empties
    <3>3. Len(Parts(new)) \in Nat
      BY <1>1, PartsFacts
    <3> QED
      BY <3>1, <3>2, <3>3 DEF Partway
  <2>2. CASE all # <<>>
    <3>1. /\ Len(Parts(all)) <= Len(Parts(new))
          /\ \A m \in 1 .. Len(Parts(all)) : m < Len(Parts(all)) => Parts(new)[m] = Parts(all)[m]
      BY <1>3, <2>2, PartsKeep
    <3>2. Len(Parts(all)) \in Nat /\ Len(Parts(new)) \in Nat
      BY <1>1, PartsFacts
    <3>3. Len(posted) <= Len(Parts(all))
      BY <1>2 DEF Partway
    <3>4. ASSUME NEW m \in DOMAIN posted, m < 1 \/ m < Len(posted)
          PROVE  posted[m].shown = Parts(new)[m]
      <4>1. m \in Nat /\ m >= 1 /\ m < Len(posted)
        BY <1>5, <3>4
      <4>2. m \in 1 .. Len(Parts(all)) /\ m < Len(Parts(all))
        BY <1>5, <3>2, <3>3, <4>1
      <4>3. posted[m].shown = Parts(all)[m]
        BY <1>2, <4>1 DEF Partway
      <4> QED
        BY <3>1, <4>2, <4>3
    <3>5. new # <<>>
      <4>1. Len(all \o ext) = Len(all) + Len(ext) /\ Len(ext) \in Nat /\ Len(all) # 0
        BY <1>5, <2>2, ConcatFacts
      <4> QED
        BY <1>3, <1>5, <4>1, Empties
    <3>6. Len(posted) <= Len(Parts(new))
      BY <1>5, <3>1, <3>2, <3>3
    <3>7. 1 <= Len(posted) + 1
      BY <1>5
    <3> QED
      BY <3>4, <3>5, <3>6, <3>7 DEF Partway
  <2> QED
    BY <2>1, <2>2
<1>7. ASSUME Has(th, posted, all, n) PROVE Has(th, posted, new, n + Len(text))
  <2> SUFFICES ASSUME NEW u \in 1 .. n + Len(text), KindOf(u) # "nl"
               PROVE  u \in Ink(new) \/ \E i \in DOMAIN th : ~Owns(posted, i) /\ u \in UnitsOf(th[i])
    BY DEF Has
  <2>1. CASE u <= n
    <3>1. u \in 1 .. n
      BY <2>1
    <3> QED
      BY <1>1, <1>7, <3>1 DEF Has
  <2>2. CASE ~(u <= n)
    <3>1. u \in n + 1 .. n + Len(text)
      BY <2>2
    <3> QED
      BY <1>1, <3>1
  <2> QED
    BY <2>1, <2>2
<1>8. Laid(th, posted, new, 1)
  BY <1>1, <1>2, <1>4, <1>6 DEF Laid
<1> QED
  BY <1>7, <1>8 DEF new

NextOf(i, all) == IF i < Len(Parts(all)) THEN i + 1 ELSE 0

(* A part that is as it was is passed over. *)
LEMMA LaidPasses ==
  ASSUME NEW th, NEW posted \in Seq(Post), NEW all \in Seq(Int), NEW i \in DOMAIN posted,
         i <= Len(Parts(all)),
         Laid(th, posted, all, i), posted[i].shown = Parts(all)[i]
  PROVE  Laid(th, posted, all, NextOf(i, all))
<1>1. Partway(posted, all, i)
  BY DEF Laid
<1>2. /\ Len(Parts(all)) \in Nat /\ Len(posted) \in Nat /\ i \in Nat /\ i >= 1 /\ i <= Len(posted)
      /\ DOMAIN posted = 1 .. Len(posted)
  BY PartsFacts
<1>3. Len(posted) <= Len(Parts(all))
  BY <1>1 DEF Partway
<1>4. ASSUME NEW n \in DOMAIN posted,
             NextOf(i, all) = 0 \/ n < NextOf(i, all) \/ n < Len(posted)
      PROVE  posted[n].shown = Parts(all)[n]
  <2>1. n = i \/ n < i \/ n < Len(posted)
    BY <1>2, <1>3, <1>4 DEF NextOf
  <2> QED
    BY <1>1, <2>1 DEF Partway
<1>5. NextOf(i, all) = 0 => Len(posted) = Len(Parts(all))
  BY <1>2, <1>3 DEF NextOf
<1>6. NextOf(i, all) <= Len(posted) + 1
  BY <1>2 DEF NextOf
<1>7. Partway(posted, all, NextOf(i, all))
  BY <1>1, <1>4, <1>5, <1>6 DEF Partway
<1> QED
  BY <1>7 DEF Laid

(* Messages that are no parts are left alone, and a part is where it was   *)
(* or is new.                                                              *)
OthersStay(th, posted, th2, posted2) ==
  /\ \A i \in DOMAIN th : ~Owns(posted, i) =>
       i \in DOMAIN th2 /\ ~Owns(posted2, i) /\ th2[i] = th[i]
  /\ \A i \in DOMAIN th2 : ~Owns(posted2, i) => i \in DOMAIN th /\ ~Owns(posted, i)
  /\ \A n \in DOMAIN posted2 :
       \/ n \in DOMAIN posted /\ posted2[n].at = posted[n].at
       \/ posted2[n].at \notin DOMAIN th

(* Once the last part posted shows what it is to, every one does. *)
LEMMA LaidOn ==
  ASSUME NEW th \in Thread, NEW th2 \in Thread, NEW posted \in Seq(Post), NEW posted2 \in Seq(Post),
         NEW all \in Seq(Int), all # <<>>, NEW part, Laid(th, posted, all, part),
         OthersStay(th, posted, th2, posted2), Filed(th2, posted2),
         Len(posted2) <= Len(Parts(all)),
         \A n \in DOMAIN posted2 : posted2[n].shown = Parts(all)[n]
  PROVE  /\ Laid(th2, posted2, all, NextOf(Len(posted2), all))
         /\ \A n : Has(th, posted, all, n) => Has(th2, posted2, all, n)
<1>1. Rising(all) /\ Filed(th, posted) /\ Olders(th, posted, all) /\ Ordered(th)
  BY DEF Laid
<1>2. /\ Len(Parts(all)) \in Nat /\ Len(posted2) \in Nat /\ DOMAIN posted2 = 1 .. Len(posted2)
  BY PartsFacts
<1>3. /\ \A n \in 1 .. Len(Parts(all)) :
           /\ Parts(all)[n] # <<>> /\ Rising(Parts(all)[n])
           /\ Ink(Parts(all)[n]) \subseteq Ink(all)
      /\ \A n, k \in 1 .. Len(Parts(all)) :
           n < k => Before(Ink(Parts(all)[n]), Ink(Parts(all)[k]))
  BY <1>1, PartsRise
<1>4. \A n \in DOMAIN posted2 : n \in 1 .. Len(Parts(all)) /\ n \in Nat
  BY <1>2
<1>5. DOMAIN th = 1 .. Len(th) /\ Len(th) \in Nat /\ DOMAIN th2 \subseteq Nat
  BY DEF Thread
<1>6. \A n \in DOMAIN posted2 : posted2[n].at \in Nat /\ posted2[n].at \in DOMAIN th2
  BY <1>5 DEF Filed
<1>7. Olders(th2, posted2, all)
  <2> SUFFICES ASSUME NEW i \in DOMAIN th2, ~Owns(posted2, i), SaidIn(th2[i]) # {}
               PROVE  /\ \A n \in DOMAIN posted2 : i < posted2[n].at
                      /\ Before(UnitsOf(th2[i]), Ink(all))
    BY DEF Olders
  <2>1. i \in DOMAIN th /\ ~Owns(posted, i) /\ th2[i] = th[i]
    BY DEF OthersStay
  <2>2. (\A n \in DOMAIN posted : i < posted[n].at) /\ Before(UnitsOf(th[i]), Ink(all))
    BY <1>1, <2>1 DEF Olders
  <2>3. ASSUME NEW n \in DOMAIN posted2 PROVE i < posted2[n].at
    <3>1. CASE n \in DOMAIN posted /\ posted2[n].at = posted[n].at
      BY <2>2, <3>1
    <3>2. CASE posted2[n].at \notin DOMAIN th
      <4> DEFINE x == posted2[n].at
      <4>1. x \in Nat /\ x \in DOMAIN th2 /\ x \notin 1 .. Len(th) /\ i \in 1 .. Len(th)
        BY <1>5, <1>6, <2>1, <3>2
      <4>2. x >= 1
        BY <4>1 DEF Thread
      <4> HIDE DEF x
      <4>3. i < x
        BY <1>5, <4>1, <4>2
      <4> QED
        BY <4>3 DEF x
    <3> QED
      BY <3>1, <3>2 DEF OthersStay
  <2> QED
    BY <2>1, <2>2, <2>3
<1>8. ASSUME NEW i, Owns(posted2, i)
      PROVE  \E n \in DOMAIN posted2 :
               /\ posted2[n].at = i /\ i \in DOMAIN th2 /\ th2[i].text = Parts(all)[n]
               /\ SaidIn(th2[i]) = {p \in DOMAIN th2[i].text : th2[i].text[p] > 0}
               /\ \A p \in SaidIn(th2[i]) : th2[i].text[p] \in Ink(Parts(all)[n])
  <2>1. PICK n \in DOMAIN posted2 : posted2[n].at = i
    BY <1>8 DEF Owns
  <2>2. i \in DOMAIN th2 /\ th2[i].kind = "post" /\ th2[i].text = Parts(all)[n]
    BY <2>1 DEF Filed
  <2>3. th2[i] \in Message
    BY <2>2 DEF Thread
  <2>4. /\ UnitsOf(th2[i]) = Ink(th2[i].text)
        /\ SaidIn(th2[i]) = {p \in DOMAIN th2[i].text : th2[i].text[p] > 0}
    BY <2>2, <2>3, PostInk
  <2>5. \A p \in SaidIn(th2[i]) : th2[i].text[p] \in Ink(Parts(all)[n])
    BY <2>2, <2>4 DEF UnitsOf
  <2> QED
    BY <2>1, <2>2, <2>4, <2>5
<1>9. ASSUME NEW i, NEW j, NEW m \in DOMAIN posted2, NEW n \in DOMAIN posted2,
             posted2[m].at = i, posted2[n].at = j, i < j
      PROVE  m < n
  <2>1. m \in Nat /\ n \in Nat /\ i \in Nat /\ j \in Nat
    BY <1>4, <1>6, <1>9
  <2>2. n < m => j < i
    BY <1>9 DEF Filed
  <2>3. n # m
    BY <1>9, <2>1
  <2> QED
    BY <1>9, <2>1, <2>2, <2>3
<1>10. Ordered(th2)
  <2> SUFFICES ASSUME NEW i \in DOMAIN th2, NEW j \in DOMAIN th2,
                      NEW p \in SaidIn(th2[i]), NEW q \in SaidIn(th2[j]),
                      i < j \/ (i = j /\ p < q)
               PROVE  th2[i].text[p] < th2[j].text[q]
    BY DEF Ordered
  <2>0. i \in Nat /\ j \in Nat
    BY <1>5
  <2>1. CASE ~Owns(posted2, i) /\ ~Owns(posted2, j)
    <3>1. i \in DOMAIN th /\ j \in DOMAIN th /\ th2[i] = th[i] /\ th2[j] = th[j]
      BY <2>1 DEF OthersStay
    <3> QED
      BY <1>1, <3>1 DEF Ordered
  <2>2. CASE ~Owns(posted2, i) /\ Owns(posted2, j)
    <3>1. PICK n \in DOMAIN posted2 : \A y \in SaidIn(th2[j]) : th2[j].text[y] \in Ink(Parts(all)[n])
      BY <1>8, <2>2
    <3>2. th2[j].text[q] \in Ink(all)
      BY <1>3, <1>4, <3>1
    <3>3. Before(UnitsOf(th2[i]), Ink(all)) /\ th2[i].text[p] \in UnitsOf(th2[i])
      BY <1>7, <2>2 DEF Olders, UnitsOf
    <3> QED
      BY <3>2, <3>3 DEF Before
  <2>3. CASE Owns(posted2, i) /\ ~Owns(posted2, j)
    <3>1. PICK n \in DOMAIN posted2 : posted2[n].at = i
      BY <2>3 DEF Owns
    <3>2. j < i
      BY <1>7, <2>3, <3>1 DEF Olders
    <3> QED
      BY <2>0, <3>2
  <2>4. CASE Owns(posted2, i) /\ Owns(posted2, j)
    <3>1. PICK m \in DOMAIN posted2 :
            /\ posted2[m].at = i /\ i \in DOMAIN th2 /\ th2[i].text = Parts(all)[m]
            /\ SaidIn(th2[i]) = {x \in DOMAIN th2[i].text : th2[i].text[x] > 0}
            /\ \A x \in SaidIn(th2[i]) : th2[i].text[x] \in Ink(Parts(all)[m])
      BY <1>8, <2>4
    <3>2. PICK n \in DOMAIN posted2 :
            /\ posted2[n].at = j /\ j \in DOMAIN th2 /\ th2[j].text = Parts(all)[n]
            /\ SaidIn(th2[j]) = {x \in DOMAIN th2[j].text : th2[j].text[x] > 0}
            /\ \A x \in SaidIn(th2[j]) : th2[j].text[x] \in Ink(Parts(all)[n])
      BY <1>8, <2>4
    <3>3. CASE i < j
      <4>1. m < n
        BY <1>9, <3>1, <3>2, <3>3
      <4>2. Before(Ink(Parts(all)[m]), Ink(Parts(all)[n]))
        BY <1>3, <1>4, <4>1
      <4> QED
        BY <3>1, <3>2, <4>2 DEF Before
    <3>4. CASE i = j /\ p < q
      <4>1. Rising(Parts(all)[m])
        BY <1>3, <1>4
      <4>2. p \in DOMAIN th2[i].text /\ q \in DOMAIN th2[i].text /\ th2[i].text[p] > 0 /\ th2[i].text[q] > 0
        BY <3>1, <3>4
      <4>3. Rising(th2[i].text)
        BY <3>1, <4>1
      <4> QED
        BY <3>4, <4>2, <4>3 DEF Rising
    <3> QED
      BY <3>3, <3>4
  <2> QED
    BY <2>1, <2>2, <2>3, <2>4
<1>11. Partway(posted2, all, NextOf(Len(posted2), all))
  <2>1. NextOf(Len(posted2), all) = 0 => Len(posted2) = Len(Parts(all))
    BY <1>2 DEF NextOf
  <2>2. NextOf(Len(posted2), all) <= Len(posted2) + 1
    BY <1>2 DEF NextOf
  <2> QED
    BY <2>1, <2>2 DEF Partway
<1>12. ASSUME NEW n, Has(th, posted, all, n) PROVE Has(th2, posted2, all, n)
  <2> SUFFICES ASSUME NEW u \in 1 .. n, KindOf(u) # "nl", u \notin Ink(all)
               PROVE  \E i \in DOMAIN th2 : ~Owns(posted2, i) /\ u \in UnitsOf(th2[i])
    BY DEF Has
  <2>1. PICK i \in DOMAIN th : ~Owns(posted, i) /\ u \in UnitsOf(th[i])
    BY <1>12 DEF Has
  <2>2. i \in DOMAIN th2 /\ ~Owns(posted2, i) /\ th2[i] = th[i]
    BY <2>1 DEF OthersStay
  <2> QED
    BY <2>1, <2>2
<1> QED
  BY <1>1, <1>7, <1>10, <1>11, <1>12 DEF Laid

(* The last part posted is brought up to date. *)
LEMMA LaidUpdates ==
  ASSUME NEW th \in Thread, NEW th2 \in Thread, NEW posted \in Seq(Post), NEW posted2 \in Seq(Post),
         NEW all \in Seq(Int), NEW i \in DOMAIN posted, Laid(th, posted, all, i),
         posted[i].shown # Parts(all)[i],
         DOMAIN posted2 = DOMAIN posted, \A n \in DOMAIN posted : posted2[n].at = posted[n].at,
         \A n \in DOMAIN posted : n # i => posted2[n].shown = posted[n].shown,
         posted2[i].shown = Parts(all)[i],
         DOMAIN th2 = DOMAIN th, \A j \in DOMAIN th : j # posted[i].at => th2[j] = th[j],
         th2[posted[i].at].kind = "post", th2[posted[i].at].text = Parts(all)[i]
  PROVE  /\ Laid(th2, posted2, all, NextOf(i, all))
         /\ \A n : Has(th, posted, all, n) => Has(th2, posted2, all, n)
<1>1. Filed(th, posted) /\ Partway(posted, all, i)
  BY DEF Laid
<1>2. /\ Len(posted) \in Nat /\ DOMAIN posted = 1 .. Len(posted) /\ i \in Nat
      /\ Len(posted2) \in Nat /\ DOMAIN posted2 = 1 .. Len(posted2)
  OBVIOUS
<1>3. ~(i < Len(posted))
  BY <1>1 DEF Partway
<1>4. i = Len(posted) /\ Len(posted2) = i
  BY <1>2, <1>3
<1>5. all # <<>>
  <2>1. posted # <<>>
    BY Empties
  <2> QED
    BY <1>1, <2>1 DEF Partway
<1>6. \A m, n \in DOMAIN posted : m # n => posted[m].at # posted[n].at
  <2> SUFFICES ASSUME NEW m \in DOMAIN posted, NEW n \in DOMAIN posted, m # n
               PROVE  posted[m].at # posted[n].at
    OBVIOUS
  <2>1. posted[m].at \in Nat /\ posted[n].at \in Nat /\ m \in Nat /\ n \in Nat
    <3>1. \A x \in DOMAIN posted : posted[x] \in Post
      OBVIOUS
    <3>2. m \in Nat /\ n \in Nat
      BY <1>2
    <3> QED
      BY <3>1, <3>2 DEF Post
  <2>2. (m < n => posted[m].at < posted[n].at) /\ (n < m => posted[n].at < posted[m].at)
    BY <1>1 DEF Filed
  <2> QED
    BY <2>1, <2>2
<1>7. Filed(th2, posted2)
  <2>1. ASSUME NEW n \in DOMAIN posted2
        PROVE  /\ posted2[n].at \in DOMAIN th2 /\ th2[posted2[n].at].kind = "post"
               /\ th2[posted2[n].at].text = posted2[n].shown
    <3>1. CASE n = i
      BY <1>1, <3>1 DEF Filed
    <3>2. CASE n # i
      <4>1. posted2[n].at = posted[n].at /\ posted[n].at # posted[i].at /\ posted[n].at \in DOMAIN th
        BY <1>1, <1>6, <3>2 DEF Filed
      <4>2. th2[posted[n].at] = th[posted[n].at]
        BY <4>1
      <4> QED
        BY <1>1, <3>2, <4>1, <4>2 DEF Filed
    <3> QED
      BY <3>1, <3>2
  <2>2. \A m, n \in DOMAIN posted2 : m < n => posted2[m].at < posted2[n].at
    BY <1>1 DEF Filed
  <2> QED
    BY <2>1, <2>2 DEF Filed
<1>8. \A j : Owns(posted2, j) <=> Owns(posted, j)
  BY DEF Owns
<1>9. OthersStay(th, posted, th2, posted2)
  <2>1. \A j \in DOMAIN th : ~Owns(posted, j) => th2[j] = th[j]
    BY DEF Owns
  <2> QED
    BY <1>8, <2>1 DEF OthersStay
<1>10. \A n \in DOMAIN posted2 : posted2[n].shown = Parts(all)[n]
  <2> SUFFICES ASSUME NEW n \in DOMAIN posted2 PROVE posted2[n].shown = Parts(all)[n]
    OBVIOUS
  <2>1. CASE n = i
    BY <2>1
  <2>2. CASE n # i
    <3>1. n < i
      BY <1>2, <1>4, <2>2
    <3>2. posted[n].shown = Parts(all)[n]
      BY <1>1, <3>1 DEF Partway
    <3> QED
      BY <2>2, <3>2
  <2> QED
    BY <2>1, <2>2
<1>11. Len(posted2) <= Len(Parts(all))
  BY <1>1, <1>4 DEF Partway
<1>12. /\ Laid(th2, posted2, all, NextOf(Len(posted2), all))
       /\ \A n : Has(th, posted, all, n) => Has(th2, posted2, all, n)
  BY <1>5, <1>7, <1>9, <1>10, <1>11, LaidOn
<1> QED
  BY <1>4, <1>12

(* A new part is posted. *)
LEMMA LaidPosts ==
  ASSUME NEW th \in Thread, NEW th2 \in Thread, NEW posted \in Seq(Post), NEW all \in Seq(Int),
         NEW i, i = Len(posted) + 1, i <= Len(Parts(all)), all # <<>>,
         Laid(th, posted, all, i),
         Len(th2) = Len(th) + 1, \A j \in DOMAIN th : th2[j] = th[j],
         th2[Len(th) + 1].kind = "post", th2[Len(th) + 1].text = Parts(all)[i],
         NEW posted2 \in Seq(Post), Len(posted2) = i,
         \A n \in DOMAIN posted : posted2[n] = posted[n],
         posted2[i].at = Len(th) + 1, posted2[i].shown = Parts(all)[i]
  PROVE  /\ Laid(th2, posted2, all, NextOf(i, all))
         /\ \A n : Has(th, posted, all, n) => Has(th2, posted2, all, n)
<1> DEFINE at == Len(th) + 1
<1>1. Filed(th, posted) /\ Partway(posted, all, i)
  BY DEF Laid
<1>2. /\ Len(posted) \in Nat /\ DOMAIN posted = 1 .. Len(posted) /\ i \in Nat
      /\ Len(posted2) = i /\ DOMAIN posted2 = 1 .. i
      /\ \A n \in DOMAIN posted : n \in DOMAIN posted2 /\ n < i /\ posted2[n] = posted[n]
      /\ i \in DOMAIN posted2
      /\ \A n \in DOMAIN posted2 : n \in DOMAIN posted \/ n = i
  OBVIOUS
<1>3. /\ Len(th) \in Nat /\ DOMAIN th = 1 .. Len(th) /\ Len(th2) = at /\ DOMAIN th2 = 1 .. at
      /\ \A j \in DOMAIN th : j \in DOMAIN th2 /\ j < at /\ th2[j] = th[j]
      /\ at \in DOMAIN th2 /\ th2[at].kind = "post" /\ th2[at].text = Parts(all)[i] /\ at \notin DOMAIN th
      /\ \A j \in DOMAIN th2 : j \in DOMAIN th \/ j = at
  BY DEF Thread
<1>5. posted2[i].at = at /\ posted2[i].shown = Parts(all)[i]
  OBVIOUS
<1> HIDE DEF at
<1>6. Filed(th2, posted2)
  <2>1. ASSUME NEW n \in DOMAIN posted2
        PROVE  /\ posted2[n].at \in DOMAIN th2 /\ th2[posted2[n].at].kind = "post"
               /\ th2[posted2[n].at].text = posted2[n].shown
    <3>1. CASE n = i
      BY <1>3, <1>5, <3>1
    <3>2. CASE n \in DOMAIN posted
      <4>1. posted2[n] = posted[n] /\ posted[n].at \in DOMAIN th
        BY <1>1, <1>2, <3>2 DEF Filed
      <4> QED
        BY <1>1, <1>3, <3>2, <4>1 DEF Filed
    <3> QED
      BY <1>2, <3>1, <3>2
  <2>2. ASSUME NEW x \in DOMAIN posted2, NEW n \in DOMAIN posted2, x < n
        PROVE  posted2[x].at < posted2[n].at
    <3>1. CASE n \in DOMAIN posted /\ x \in DOMAIN posted
      BY <1>1, <1>2, <2>2, <3>1 DEF Filed
    <3>2. CASE n = i /\ x \in DOMAIN posted
      <4>1. posted2[x] = posted[x] /\ posted[x].at \in DOMAIN th
        BY <1>1, <1>2, <3>2 DEF Filed
      <4> QED
        BY <1>3, <1>5, <3>2, <4>1
    <3>3. CASE x = i
      BY <1>2, <2>2, <3>3
    <3> QED
      BY <1>2, <3>1, <3>2, <3>3
  <2> QED
    BY <2>1, <2>2 DEF Filed
<1>7. \A j : Owns(posted2, j) <=> Owns(posted, j) \/ j = at
  <2>1. \A j : Owns(posted2, j) => Owns(posted, j) \/ j = at
    BY <1>2, <1>5 DEF Owns
  <2>2. \A j : Owns(posted, j) \/ j = at => Owns(posted2, j)
    BY <1>2, <1>5 DEF Owns
  <2> QED
    BY <2>1, <2>2
<1>8. OthersStay(th, posted, th2, posted2)
  <2>1. \A j \in DOMAIN th : ~Owns(posted, j) => j \in DOMAIN th2 /\ ~Owns(posted2, j) /\ th2[j] = th[j]
    BY <1>3, <1>7
  <2>2. \A j \in DOMAIN th2 : ~Owns(posted2, j) => j \in DOMAIN th /\ ~Owns(posted, j)
    BY <1>3, <1>7
  <2>3. \A n \in DOMAIN posted2 : \/ n \in DOMAIN posted /\ posted2[n].at = posted[n].at
                                  \/ posted2[n].at \notin DOMAIN th
    BY <1>2, <1>3, <1>5
  <2> QED
    BY <2>1, <2>2, <2>3 DEF OthersStay
<1>9. \A n \in DOMAIN posted2 : posted2[n].shown = Parts(all)[n]
  <2>1. \A n \in DOMAIN posted : posted[n].shown = Parts(all)[n]
    BY <1>1, <1>2 DEF Partway
  <2> QED
    BY <1>2, <1>5, <2>1
<1>10. Len(posted2) <= Len(Parts(all))
  BY <1>2
<1>11. /\ Laid(th2, posted2, all, NextOf(Len(posted2), all))
       /\ \A n : Has(th, posted, all, n) => Has(th2, posted2, all, n)
  BY <1>6, <1>8, <1>9, <1>10, LaidOn
<1> QED
  BY <1>2, <1>11

(* Where no streams are hosted and nothing failed: nothing is written until *)
(* the first words turn the reply into whole messages; then those are laid  *)
(* in the thread and have all that was said, unless the first were cut.     *)
Unhosted(w, top) ==
  IF w.r.mode = "streaming"
    THEN Left(w, top) = 0 /\ ~w.f.cut /\ \A i \in DOMAIN w.th : SaidIn(w.th[i]) = {}
    ELSE /\ Laid(w.th, w.r.posted, w.r.all, w.j.part)
         /\ ~w.f.cut => Has(w.th, w.r.posted, w.r.all, Left(w, top))

LEMMA UnhostedSame ==
  ASSUME NEW w, NEW v, NEW top, NEW top2, Unhosted(w, top), Silent(w.th, v.th),
         v.r.mode = w.r.mode, v.r.posted = w.r.posted, v.r.all = w.r.all,
         v.j.part = w.j.part, v.f.cut = w.f.cut, Left(v, top2) = Left(w, top)
  PROVE  Unhosted(v, top2)
<1>1. CASE w.r.mode = "streaming"
  <2>1. \A i \in DOMAIN v.th : SaidIn(v.th[i]) # {} => i \in DOMAIN w.th
    BY SilentFacts
  <2>2. \A i \in DOMAIN w.th : SaidIn(v.th[i]) = SaidIn(w.th[i])
    BY SilentFacts
  <2> QED
    BY <1>1, <2>1, <2>2 DEF Unhosted
<1>2. CASE w.r.mode # "streaming"
  <2>1. Laid(w.th, w.r.posted, w.r.all, w.j.part)
    BY <1>2 DEF Unhosted
  <2>2. /\ Laid(v.th, w.r.posted, w.r.all, w.j.part)
        /\ \A n : Has(w.th, w.r.posted, w.r.all, n) => Has(v.th, w.r.posted, w.r.all, n)
    BY <2>1, SilentLaid
  <2> QED
    BY <1>2, <2>2 DEF Unhosted
<1> QED
  BY <1>1, <1>2

LEMMA SilentSame == ASSUME NEW th PROVE Silent(th, th)
BY DEF Silent

LEMMA NothingSaidYet ==
  ASSUME NEW th, \A i \in DOMAIN th : SaidIn(th[i]) = {}
  PROVE  /\ Ordered(th) /\ AllUnder(th, 0)
         /\ \A th2 : Quiet(th, th2) => \A i \in DOMAIN th2 : SaidIn(th2[i]) = {}
<1>1. Ordered(th) /\ AllUnder(th, 0)
  BY DEF Ordered, AllUnder
<1>2. \A th2 : Quiet(th, th2) => \A i \in DOMAIN th2 : SaidIn(th2[i]) = {}
  BY DEF Quiet
<1> QED
  BY <1>1, <1>2

LEMMA WorldTexts ==
  ASSUME NEW w \in Worlds
  PROVE  /\ w.th \in Thread /\ w.r.all \in Seq(Int) /\ w.r.posted \in Seq(Post)
         /\ w.r.pending \in Seq(Int) /\ w.r.broken \in BOOLEAN /\ w.j.rest \in Seq(Int)
         /\ w.f.count \in Nat /\ w.r.mode \in {"streaming", "buffered"}
<1>1. w.th \in Thread /\ w.r \in Fields /\ w.j \in Jobs /\ w.f \in FaultsSet
  BY WorldParts
<1> QED
  BY <1>1 DEF Fields, Jobs, FaultsSet

(* A message that was posted is left for one of its own. *)
LEMMA UnhostedAnew ==
  ASSUME NEW th \in Thread, NEW posted \in Seq(Post), NEW all \in Seq(Int),
         Laid(th, posted, all, 0), NEW part \in 0 .. 1
  PROVE  /\ Laid(th, <<>>, <<>>, part)
         /\ \A n : Has(th, posted, all, n) => Has(th, <<>>, <<>>, n)
<1>1. Ordered(th)
  BY DEF Laid
<1>2. /\ Laid(th, <<>>, <<>>, part)
      /\ \A k : Shown(th, k) => Has(th, <<>>, <<>>, k)
  BY <1>1, LaidAnew
<1>3. \A n : Has(th, posted, all, n) => Shown(th, n)
  BY LaidShown
<1> QED
  BY <1>2, <1>3

LEMMA UnhostedEmit ==
  ASSUME ~hosts, NEW w, NEW top, NEW tl, Good(hosts, w, top, tl), Unhosted(w, top),
         w.j.rest = <<>>, w.j.part = 0, w.j.then # "over",
         NEW cut \in 0 .. Len(w.r.pending), NEW v \in Emit(w, cut)
  PROVE  Unhosted(v, top) /\ v.f.count >= w.f.count
<1>1. Fitting(hosts, w) /\ w \in Worlds /\ Counted(w, top) /\ Under(w, top)
  BY DEF Good, Fitting
<1>2. /\ w.th \in Thread /\ w.r.all \in Seq(Int) /\ w.r.posted \in Seq(Post)
      /\ w.r.pending \in Seq(Int) /\ w.r.broken \in BOOLEAN /\ w.f.count \in Nat
  BY <1>1, WorldTexts
<1>3. CASE cut = 0
  <2>1. v = w
    BY <1>3 DEF Emit
  <2> QED
    BY <1>2, <2>1
<1>4. CASE cut # 0
  <2> DEFINE text == SubSeq(w.r.pending, 1, cut)
             n == Left(w, top)
  <2>1. cut \in 1 .. Len(w.r.pending)
    BY <1>4
  <2>2. /\ Fitting(hosts, v) /\ Worse(w.f, v.f) /\ Quiet(w.th, v.th)
        /\ v.r.mode = w.r.mode
        /\ v.r.pending = SubSeq(w.r.pending, cut + 1, Len(w.r.pending))
        /\ w.r.mode = "streaming" => v.j.rest = text
        /\ w.r.mode # "streaming" =>
             /\ v.j.rest = w.j.rest /\ v.j.part = 1 /\ v.th = w.th /\ v.f = w.f
             /\ IF w.r.placed THEN v.r.all = Joining(<<>>, FALSE, text) /\ v.r.posted = <<>>
                ELSE v.r.all = Joining(w.r.all, w.r.broken, text) /\ v.r.posted = w.r.posted
    BY <1>1, <2>1, EmitFacts
  <2>3. /\ n \in Nat /\ cut \in Nat /\ text \in Seq(Int) /\ Len(text) = cut
        /\ \A i \in 1 .. cut : text[i] = n + i
        /\ v.j.rest = text => Left(v, top) = n
        /\ v.j.rest = <<>> => Left(v, top) = n + cut
    BY <1>1, <2>1, <2>2, CountSplits
  <2>4. AllUnder(w.th, n) /\ \A p \in DOMAIN w.r.all : w.r.all[p] <= n
    BY <1>1 DEF Under
  <2> HIDE DEF text, n
  <2>5. v.f.count >= w.f.count
    BY <2>2 DEF Worse
  <2>6. CASE w.r.mode = "streaming"
    <3>1. n = 0 /\ ~w.f.cut /\ \A i \in DOMAIN w.th : SaidIn(w.th[i]) = {}
      BY <2>6 DEF Unhosted, n
    <3>2. \A i \in DOMAIN v.th : SaidIn(v.th[i]) = {}
      BY <2>2, <3>1, NothingSaidYet
    <3>3. ~v.f.cut
      BY <2>2, <3>1 DEF Worse
    <3>4. Left(v, top) = 0
      BY <2>2, <2>3, <2>6, <3>1
    <3>5. Unhosted(v, top)
      BY <2>2, <2>6, <3>2, <3>3, <3>4 DEF Unhosted
    <3> QED
      BY <2>5, <3>5
  <2>7. CASE w.r.mode # "streaming"
    <3>1. /\ Laid(w.th, w.r.posted, w.r.all, 0)
          /\ ~w.f.cut => Has(w.th, w.r.posted, w.r.all, n)
      BY <2>7 DEF Unhosted, n
    <3>2. /\ v.r.mode # "streaming" /\ v.th = w.th /\ v.f = w.f /\ v.j.part = 1
          /\ Left(v, top) = n + Len(text)
      BY <2>2, <2>3, <2>7
    <3>4. CASE w.r.placed
      <4>1. v.r.all = Joining(<<>>, FALSE, text) /\ v.r.posted = <<>>
        BY <2>2, <2>7, <3>4
      <4>0. 1 \in 0 .. 1
        OBVIOUS
      <4>2. /\ Laid(w.th, <<>>, <<>>, 1)
            /\ Has(w.th, w.r.posted, w.r.all, n) => Has(w.th, <<>>, <<>>, n)
        BY <1>2, <3>1, <4>0, UnhostedAnew
      <4>6. ~v.f.cut => Has(w.th, <<>>, <<>>, n)
        BY <3>1, <3>2, <4>2
      <4>3. \A p \in DOMAIN <<>> : <<>>[p] <= n
        BY Empties
      <4>4. <<>> \in Seq(Int) /\ <<>> \in Seq(Post)
        BY Empties
      <4>7. FALSE \in BOOLEAN /\ \A i \in 1 .. Len(text) : text[i] = n + i
        BY <2>3
      <4>8. /\ Laid(w.th, <<>>, Joining(<<>>, FALSE, text), 1)
            /\ Has(w.th, <<>>, <<>>, n) =>
                 Has(w.th, <<>>, Joining(<<>>, FALSE, text), n + Len(text))
        BY <1>2, <2>3, <2>4, <4>2, <4>3, <4>4, <4>7, LaidJoins
      <4>5. Unhosted(v, top)
        BY <3>2, <4>1, <4>6, <4>8 DEF Unhosted
      <4> QED
        BY <2>5, <4>5
    <3>5. CASE ~w.r.placed
      <4>1. v.r.all = Joining(w.r.all, w.r.broken, text) /\ v.r.posted = w.r.posted
        BY <2>2, <2>7, <3>5
      <4>3. ~v.f.cut => Has(w.th, w.r.posted, w.r.all, n)
        BY <3>1, <3>2
      <4>4. \A i \in 1 .. Len(text) : text[i] = n + i
        BY <2>3
      <4>5. /\ Laid(w.th, w.r.posted, Joining(w.r.all, w.r.broken, text), 1)
            /\ Has(w.th, w.r.posted, w.r.all, n) =>
                 Has(w.th, w.r.posted, Joining(w.r.all, w.r.broken, text), n + Len(text))
        BY <1>2, <2>3, <2>4, <3>1, <4>4, LaidJoins
      <4>2. Unhosted(v, top)
        BY <3>2, <4>1, <4>3, <4>5 DEF Unhosted
      <4> QED
        BY <2>5, <4>2
    <3> QED
      BY <3>4, <3>5
  <2> QED
    BY <2>6, <2>7
<1> QED
  BY <1>3, <1>4

LEMMA UnhostedPiece ==
  ASSUME ~hosts, NEW w, NEW top, NEW tl, Good(hosts, w, top, tl), Unhosted(w, top),
         w.j.rest # <<>>, w.j.part = 0, NEW u \in Pieces(w)
  PROVE  u.f.count >= w.f.count /\ (u.f.count = 0 => Unhosted(u, top))
<1> DEFINE cut   == Cut(w)
           piece == PieceOf(w)
           c     == Words(piece)
           left  == Left(w, top)
<1>1. w \in Worlds /\ Counted(w, top) /\ Fitting(hosts, w)
  BY DEF Good, Fitting
<1>2. /\ cut \in Nat /\ cut \in 0 .. Len(w.j.rest) /\ cut <= Len(w.j.rest)
      /\ piece \in Seq(Int) /\ Len(piece) = cut
      /\ \A p \in 1 .. Len(piece) : piece[p] = left + p
      /\ c \in Chunks /\ c.text = piece
  <2>1. /\ Cut(w) \in Nat /\ Cut(w) \in 0 .. Len(w.j.rest) /\ Cut(w) <= Len(w.j.rest)
        /\ Cut(w) + 2 <= MaxText
        /\ w.r.spent < Budget => w.r.spent + Cut(w) <= Budget
        /\ w.r.spent >= Budget => Cut(w) = 0
        /\ PieceOf(w) \in Seq(Int) /\ Len(PieceOf(w)) = Cut(w)
        /\ \A p \in 1 .. Len(PieceOf(w)) : PieceOf(w)[p] = Left(w, top) + p
        /\ Words(PieceOf(w)) \in Chunks /\ Words(PieceOf(w)).text = PieceOf(w)
        /\ Words(PieceOf(w)).lists = <<>>
    BY <1>1, PieceFacts
  <2> QED
    BY <2>1
<1>3. PICK v \in AppendChunk(w, c) :
        u = IF v.said = "ok" THEN Inked(v, cut, Consumed(FenceOf(v), piece)) ELSE GivenUp(v)
  BY DEF Pieces
<1>4. w.th \in Thread /\ w.f.count \in Nat /\ w.j.rest \in Seq(Int)
  BY <1>1, WorldTexts
<1> HIDE DEF cut, piece, c, left
<1>5. w.r.at = 0
  BY <1>1 DEF Fitting
<1>6. /\ v \in Worlds /\ v.th = w.th /\ Worse(w.f, v.f)
      /\ \/ /\ w.r.mode = "streaming" /\ v.said = "ok" /\ v.f = w.f
            /\ GoesOver(w.r, v.r, c.text)
            /\ v.j.part = 1 /\ v.j.rest = w.j.rest /\ v.j.then = w.j.then
         \/ /\ v.said = "failed" /\ v.r = w.r /\ v.j = w.j
            /\ w.r.mode = "streaming" => v.f.count # w.f.count
  BY <1>1, <1>2, <1>3, <1>5, AppendUnhosted
<1>7. v.f.count \in Nat
  BY <1>6, WorldTexts
<1>8. CASE v.said = "ok"
  <2>1. w.r.mode = "streaming" /\ v.f = w.f /\ GoesOver(w.r, v.r, piece) /\ v.j.part = 1 /\ v.j.rest = w.j.rest
    BY <1>2, <1>6, <1>8
  <2> DEFINE fence == Consumed(FenceOf(v), piece)
  <2>2. fence \in FenceSet /\ u = Inked(v, cut, fence)
    BY <1>2, <1>3, <1>6, <1>8, FenceTyped, ConsumedTyped
  <2> HIDE DEF fence
  <2> DEFINE z == Inked(v, cut, fence)
  <2>3. /\ z \in Worlds /\ z.th = v.th /\ z.f = v.f
        /\ z.j.rest = SubSeq(v.j.rest, cut + 1, Len(v.j.rest))
        /\ z.j.part = v.j.part /\ z.j.then = v.j.then
        /\ z.r.spent = IF v.r.mode = "streaming" THEN v.r.spent + cut ELSE 0
        /\ z.r.fenced = fence.fenced /\ z.r.partial = fence.partial
        /\ z.r.at = v.r.at /\ z.r.placed = v.r.placed /\ SameText(v.r, z.r)
    <3>1. v \in Worlds /\ cut \in Nat /\ cut <= Len(v.j.rest)
      BY <1>2, <1>6, <2>1
    <3> QED
      BY <2>2, <3>1, InkedFacts
  <2>4. /\ u.th = w.th /\ u.f = w.f /\ u.j.part = 1
        /\ u.j.rest = SubSeq(w.j.rest, cut + 1, Len(w.j.rest))
        /\ u.r.mode = "buffered" /\ u.r.all = piece /\ u.r.posted = <<>>
        /\ u.r.pending = w.r.pending
    BY <1>6, <2>1, <2>2, <2>3 DEF SameText, GoesOver
  <2>5. left = 0 /\ ~w.f.cut /\ \A i \in DOMAIN w.th : SaidIn(w.th[i]) = {}
    BY <2>1 DEF Unhosted, left
  <2>6. Left(u, top) = 0 + Len(piece)
    <3>1. Left(u, top) = Left(w, top) + cut
      BY <1>1, <1>2, <2>4, CountChops
    <3> QED
      BY <1>2, <2>5, <3>1 DEF left
  <2>7. Ordered(w.th) /\ AllUnder(w.th, 0)
    BY <2>5, NothingSaidYet
  <2>8. Laid(w.th, <<>>, <<>>, 1)
    <3>1. 1 \in 0 .. 1
      OBVIOUS
    <3> QED
      BY <2>7, <3>1, LaidAnew
  <2>9. Joining(<<>>, FALSE, piece) = piece
    <3>1. <<>> \o piece = piece
      BY <1>2
    <3> QED
      BY <3>1 DEF Joining
  <2>10. /\ <<>> \in Seq(Int) /\ <<>> \in Seq(Post) /\ FALSE \in BOOLEAN /\ 0 \in Nat
         /\ \A p \in DOMAIN <<>> : <<>>[p] <= 0
         /\ \A i \in 1 .. Len(piece) : piece[i] = 0 + i
    <3>1. \A i \in 1 .. Len(piece) : piece[i] = 0 + i
      BY <1>2, <2>5
    <3> QED
      BY <3>1, Empties
  <2>11. /\ Laid(w.th, <<>>, Joining(<<>>, FALSE, piece), 1)
         /\ Has(w.th, <<>>, <<>>, 0) => Has(w.th, <<>>, Joining(<<>>, FALSE, piece), 0 + Len(piece))
    BY <1>2, <1>4, <2>7, <2>8, <2>10, LaidJoins
  <2>12. Has(w.th, <<>>, <<>>, 0)
    BY DEF Has
  <2>13. Unhosted(u, top)
    BY <2>4, <2>6, <2>9, <2>11, <2>12 DEF Unhosted
  <2> QED
    BY <1>4, <2>4, <2>13
<1>9. CASE v.said # "ok"
  <2>1. v.r = w.r /\ v.j = w.j /\ (w.r.mode = "streaming" => v.f.count # w.f.count)
    BY <1>6, <1>9
  <2>2. u = GivenUp(v)
    BY <1>3, <1>9
  <2> DEFINE z == GivenUp(v)
  <2>3. /\ z.th = v.th /\ z.r = v.r
        /\ z.f.count = v.f.count
        /\ z.f.cut = (v.f.cut \/ v.r.mode = "buffered")
        /\ z.j.rest = <<>> /\ z.j.part = v.j.part
    BY <1>6, GivenUpFacts
  <2>4. /\ u.th = w.th /\ u.r = w.r /\ u.f.count = v.f.count /\ u.j.part = w.j.part
        /\ w.r.mode = "buffered" => u.f.cut
    BY <1>6, <2>1, <2>2, <2>3
  <2>5. v.f.count >= w.f.count
    BY <1>6 DEF Worse
  <2>6. CASE w.r.mode = "streaming"
    BY <1>4, <1>7, <2>1, <2>4, <2>5, <2>6
  <2>7. CASE w.r.mode # "streaming"
    <3>1. w.r.mode = "buffered"
      BY <1>1, <2>7, WorldTexts
    <3>2. Laid(w.th, w.r.posted, w.r.all, w.j.part)
      BY <2>7 DEF Unhosted
    <3>3. Unhosted(u, top)
      BY <2>4, <2>7, <3>1, <3>2 DEF Unhosted
    <3> QED
      BY <2>4, <2>5, <3>3
  <2> QED
    BY <2>6, <2>7
<1> QED
  BY <1>8, <1>9

LEMMA UnhostedDrawn ==
  ASSUME ~hosts, NEW w, NEW top, NEW tl, Good(hosts, w, top, tl), Unhosted(w, top),
         w.j.rest = <<>>, w.j.part = 0, NEW c \in Chunks, c.text = <<>>, NEW v \in AppendChunk(w, c)
  PROVE  v.f.count >= w.f.count /\ (v.f.count = 0 => Unhosted(Resting(v), top))
<1> DEFINE x == Resting(v)
<1>1. w \in Worlds /\ Fitting(hosts, w) /\ w.r.at = 0
  BY DEF Good, Fitting
<1>2. w.th \in Thread /\ w.f.count \in Nat
  BY <1>1, WorldTexts
<1>3. /\ v \in Worlds /\ v.th = w.th /\ Worse(w.f, v.f)
      /\ \/ /\ w.r.mode = "streaming" /\ v.said = "ok" /\ v.f = w.f
            /\ GoesOver(w.r, v.r, c.text)
            /\ v.j.part = 1 /\ v.j.rest = w.j.rest /\ v.j.then = w.j.then
         \/ /\ v.said = "failed" /\ v.r = w.r /\ v.j = w.j
            /\ w.r.mode = "streaming" => v.f.count # w.f.count
  BY <1>1, AppendUnhosted
<1>4. v.f.count \in Nat /\ v.f.count >= w.f.count /\ v.f.cut = w.f.cut
  BY <1>3, WorldTexts DEF Worse
<1>5. /\ x.th = v.th /\ x.r = v.r /\ x.f = v.f
      /\ x.j.rest = <<>> /\ x.j.part = 0
  BY <1>3, RestingFacts
<1> HIDE DEF x
<1>6. CASE w.r.mode = "streaming"
  <2> SUFFICES ASSUME v.f.count = 0 PROVE Unhosted(x, top)
    BY <1>4 DEF x
  <2>1. GoesOver(w.r, v.r, <<>>)
    BY <1>2, <1>3, <1>4, <1>6
  <2>2. Left(w, top) = 0 /\ ~w.f.cut /\ \A i \in DOMAIN w.th : SaidIn(w.th[i]) = {}
    BY <1>6 DEF Unhosted
  <2>3. x.r.mode = "buffered" /\ x.r.all = <<>> /\ x.r.posted = <<>> /\ x.r.pending = w.r.pending
    BY <1>5, <2>1 DEF GoesOver
  <2>4. Left(x, top) = 0
    BY <1>5, <2>2, <2>3 DEF Left
  <2>5. Ordered(w.th)
    BY <2>2, NothingSaidYet
  <2>6. 0 \in 0 .. 1
    OBVIOUS
  <2>7. Laid(w.th, <<>>, <<>>, 0)
    BY <2>5, <2>6, LaidAnew
  <2>8. Has(w.th, <<>>, <<>>, 0)
    BY DEF Has
  <2> QED
    BY <1>3, <1>5, <2>3, <2>4, <2>7, <2>8 DEF Unhosted
<1>7. CASE w.r.mode # "streaming"
  <2>1. v.r = w.r /\ v.j = w.j
    BY <1>3, <1>7
  <2>2. Left(x, top) = Left(w, top)
    BY <1>5, <2>1 DEF Left
  <2>3. Silent(w.th, x.th)
    BY <1>3, <1>5, SilentSame
  <2>4. Unhosted(x, top)
    BY <1>4, <1>5, <2>1, <2>2, <2>3, UnhostedSame
  <2> QED
    BY <1>4, <2>4 DEF x
<1> QED
  BY <1>6, <1>7

LEMMA UnhostedLeave ==
  ASSUME ~hosts, NEW w, NEW top, NEW tl, Good(hosts, w, top, tl), Unhosted(w, top),
         w.j.rest = <<>>, w.j.part = 0, NEW v \in LeavePlaced(w)
  PROVE  Unhosted(v, top) /\ v.f.count >= w.f.count
<1>1. w \in Worlds /\ Fitting(hosts, w)
  BY DEF Good, Fitting
<1>2. w.th \in Thread /\ w.f.count \in Nat /\ w.r.all \in Seq(Int) /\ w.r.posted \in Seq(Post)
  BY <1>1, WorldTexts
<1>3. /\ Fitting(hosts, v) /\ v.j = w.j /\ Worse(w.f, v.f) /\ Quiet(w.th, v.th)
      /\ ~w.r.placed => v = w
      /\ w.r.placed /\ w.r.mode = "streaming" => SameText(w.r, v.r)
      /\ w.r.placed /\ w.r.mode # "streaming" =>
           /\ v.th = w.th /\ v.f = w.f /\ v.r.all = <<>> /\ v.r.posted = <<>>
           /\ v.r.mode = w.r.mode /\ v.r.pending = w.r.pending
  BY <1>1, LeavePlacedFacts
<1>4. v.f.count >= w.f.count
  BY <1>3 DEF Worse
<1>5. CASE ~w.r.placed
  BY <1>3, <1>4, <1>5
<1>6. CASE w.r.placed /\ w.r.mode = "streaming"
  <2>1. Left(w, top) = 0 /\ ~w.f.cut /\ \A i \in DOMAIN w.th : SaidIn(w.th[i]) = {}
    BY <1>6 DEF Unhosted
  <2>2. v.r.mode = "streaming" /\ v.r.pending = w.r.pending
    BY <1>3, <1>6 DEF SameText
  <2>3. Left(v, top) = 0
    BY <1>3, <2>1, <2>2 DEF Left
  <2>4. \A i \in DOMAIN v.th : SaidIn(v.th[i]) = {}
    BY <1>3, <2>1, NothingSaidYet
  <2>5. ~v.f.cut
    BY <1>3, <2>1 DEF Worse
  <2>6. Unhosted(v, top)
    BY <2>2, <2>3, <2>4, <2>5 DEF Unhosted
  <2> QED
    BY <1>4, <2>6
<1>7. CASE w.r.placed /\ w.r.mode # "streaming"
  <2>1. /\ Laid(w.th, w.r.posted, w.r.all, 0)
        /\ ~w.f.cut => Has(w.th, w.r.posted, w.r.all, Left(w, top))
    BY <1>7 DEF Unhosted
  <2>2. 0 \in 0 .. 1
    OBVIOUS
  <2>3. /\ Laid(w.th, <<>>, <<>>, 0)
        /\ \A n : Has(w.th, w.r.posted, w.r.all, n) => Has(w.th, <<>>, <<>>, n)
    BY <1>2, <2>1, <2>2, UnhostedAnew
  <2>4. /\ v.th = w.th /\ v.f = w.f /\ v.r.all = <<>> /\ v.r.posted = <<>>
        /\ v.r.mode # "streaming" /\ v.r.pending = w.r.pending /\ v.j = w.j
    BY <1>3, <1>7
  <2>5. Left(v, top) = Left(w, top)
    BY <2>4 DEF Left
  <2>6. ~v.f.cut => Has(v.th, v.r.posted, v.r.all, Left(v, top))
    BY <2>1, <2>3, <2>4, <2>5
  <2>7. Laid(v.th, v.r.posted, v.r.all, v.j.part)
    BY <2>3, <2>4
  <2>8. Unhosted(v, top)
    BY <2>4, <2>6, <2>7 DEF Unhosted
  <2> QED
    BY <1>4, <2>8
<1> QED
  BY <1>5, <1>6, <1>7

NowUnhosted == ~hosts /\ faults.count = 0 => Unhosted(World, said)

LEMMA BecomesUnhosted ==
  ASSUME NEW w \in Worlds, Becomes(w), script' = script, Unhosted(w, said')
  PROVE  Unhosted(World, said)'
<1>1. World'.th = w.th /\ World'.r = w.r /\ World'.j = w.j /\ World'.f = w.f
  BY BecomesWorld
<1>2. thread' = w.th /\ reply' = w.r /\ job' = w.j /\ faults' = w.f
  BY DEF Becomes
<1>3. Parts(reply.all)' = Parts(w.r.all)
  BY <1>2 DEF Parts, PartEnd, NextPart, LastIndexOf, KindOf
<1>4. Partway(reply.posted, reply.all, job.part)' <=> Partway(w.r.posted, w.r.all, w.j.part)
  BY <1>2, <1>3 DEF Partway
<1>5. Rising(reply.all)' <=> Rising(w.r.all)
  BY <1>2 DEF Rising
<1>6. Filed(thread, reply.posted)' <=> Filed(w.th, w.r.posted)
  BY <1>2 DEF Filed
<1>7. Olders(thread, reply.posted, reply.all)' <=> Olders(w.th, w.r.posted, w.r.all)
  BY <1>2 DEF Olders, Owns, SaidIn, UnitsOf, Before, Ink
<1>8. Ordered(thread)' <=> Ordered(w.th)
  BY <1>2 DEF Ordered, SaidIn
<1>9. Left(World, said)' = Left(w, said')
  BY <1>1 DEF Left
<1>10. Has(thread, reply.posted, reply.all, Left(World, said))' <=> Has(w.th, w.r.posted, w.r.all, Left(w, said'))
  BY <1>2, <1>9 DEF Has, Owns, SaidIn, UnitsOf, Ink, KindOf
<1>11. (\A i \in DOMAIN thread : SaidIn(thread[i]) = {})' <=> \A i \in DOMAIN w.th : SaidIn(w.th[i]) = {}
  BY <1>2 DEF SaidIn
<1>12. Unhosted(World, said)' <=>
         IF reply'.mode = "streaming"
           THEN Left(World, said)' = 0 /\ ~faults'.cut /\ (\A i \in DOMAIN thread : SaidIn(thread[i]) = {})'
           ELSE /\ Laid(thread, reply.posted, reply.all, job.part)'
                /\ ~faults'.cut => Has(thread, reply.posted, reply.all, Left(World, said))'
  BY DEF Unhosted, World
<1>13. Laid(thread, reply.posted, reply.all, job.part)' <=> Laid(w.th, w.r.posted, w.r.all, w.j.part)
  BY <1>4, <1>5, <1>6, <1>7, <1>8 DEF Laid
<1> QED
  BY <1>2, <1>9, <1>10, <1>11, <1>12, <1>13 DEF Unhosted

(* A step that keeps the faults leaves none where there was none. *)
LEMMA StaysUnhosted ==
  ASSUME NowUnhosted, faults \in FaultsSet, NEW w \in Worlds, Becomes(w), script' = script, hosts' = hosts,
         w.f.count >= faults.count,
         ~hosts /\ faults.count = 0 /\ w.f.count = 0 /\ Unhosted(World, said) => Unhosted(w, said')
  PROVE  NowUnhosted'
<1>1. w.f \in FaultsSet /\ faults' = w.f
  BY WorldParts DEF Becomes
<1>2. w.f.count \in Nat /\ faults.count \in Nat
  BY <1>1, Bounds DEF FaultsSet
<1>3. NowUnhosted' <=> (~hosts' /\ faults'.count = 0 => Unhosted(World, said)')
  BY DEF NowUnhosted
<1> SUFFICES ASSUME ~hosts, w.f.count = 0 PROVE Unhosted(World, said)'
  BY <1>1, <1>3
<1>4. faults.count = 0
  BY <1>2
<1>5. Unhosted(w, said')
  BY <1>4 DEF NowUnhosted
<1> QED
  BY <1>5, BecomesUnhosted

LEMMA EmitMore ==
  ASSUME NEW w, NEW top, NEW tl, Good(hosts, w, top, tl),
         w.j.rest = <<>>, w.j.part = 0, w.j.then # "over",
         NEW cut \in 0 .. Len(w.r.pending), NEW v \in Emit(w, cut)
  PROVE  v \in Worlds /\ v.f.count >= w.f.count
<1>1. Fitting(hosts, w) /\ w \in Worlds
  BY DEF Good, Fitting
<1>2. w.f.count \in Nat /\ w.r.pending \in Seq(Int)
  BY <1>1, WorldTexts
<1>3. CASE cut = 0
  BY <1>1, <1>2, <1>3 DEF Emit
<1>4. CASE cut # 0
  <2>1. cut \in 1 .. Len(w.r.pending)
    BY <1>4
  <2>2. Fitting(hosts, v) /\ Worse(w.f, v.f)
    BY <1>1, <2>1, EmitFacts
  <2> QED
    BY <2>2 DEF Fitting, Worse
<1> QED
  BY <1>3, <1>4

(* What waits is written, in part, and the task goes on. *)
LEMMA UnhostedWrites ==
  ASSUME NEW r \in Fields, World \in Worlds, NEW tl, NEW top,
         NEW then \in Stages \cup Tasks \cup Tools, then # "over",
         Good(hosts, WithR(World, r), top, tl),
         At("read"),
         NEW cut \in 0 .. Len(r.pending),
         NEW w \in Emit([World EXCEPT !.r = r, !.j.then = then], cut)
  PROVE  /\ w \in Worlds /\ w.f.count >= faults.count
         /\ ~hosts /\ Unhosted(WithR(World, r), top) => Unhosted(w, top)
<1> DEFINE x == WithR(World, r)
           y == GoingOn(x, then)
<1>1. /\ x \in Worlds /\ x.th = thread /\ x.r = r /\ x.j = job /\ x.f = faults
  BY WithRFacts, WorldIs
<1>2. job.then = "read" /\ job.rest = <<>> /\ job.part = 0
  BY DEF At
<1>3. y = [World EXCEPT !.r = r, !.j.then = then]
  BY DEF GoingOn, WithR, WithJ, World
<1> HIDE DEF x
<1>4. Good(hosts, x, top, tl)
  BY DEF x
<1>5. /\ y \in Worlds /\ y.th = x.th /\ y.r = x.r /\ y.f = x.f
      /\ y.j.rest = x.j.rest /\ y.j.part = x.j.part /\ y.j.then = then
  BY <1>1, GoingOnFacts
<1>6. Good(hosts, y, top, tl)
  BY <1>1, <1>2, <1>4, GoodGoesOn
<1>7. w \in Emit(y, cut)
  BY <1>3
<1> HIDE DEF y
<1>8. Unhosted(x, top) => Unhosted(y, top)
  <2>1. Silent(x.th, y.th)
    BY <1>5, SilentSame
  <2>2. Left(y, top) = Left(x, top)
    BY <1>5 DEF Left
  <2> QED
    BY <1>5, <2>1, <2>2, UnhostedSame
<1>9. cut \in 0 .. Len(y.r.pending) /\ y.j.rest = <<>> /\ y.j.part = 0 /\ y.j.then # "over"
  BY <1>1, <1>2, <1>5
<1>10. w \in Worlds /\ w.f.count >= y.f.count
  BY <1>6, <1>7, <1>9, EmitMore
<1>11. ~hosts /\ Unhosted(y, top) => Unhosted(w, top)
  BY <1>6, <1>7, <1>9, UnhostedEmit
<1> QED
  BY <1>1, <1>5, <1>8, <1>10, <1>11 DEF x

LEMMA SaysUnhosted ==
  ASSUME IInv, NowUnhosted, NEW n \in 1 .. Len(script), Says(n)
  PROVE  NowUnhosted'
<1> DEFINE q == reply.pending \o [i \in 1 .. n |-> said + i]
           r == [reply EXCEPT !.pending = q]
           y == [World EXCEPT !.r = r, !.j.then = "read"]
<1>1. At("read") /\ said' = said + n /\ script' = script /\ hosts' = hosts
  BY DEF Says, Idle
<1>2. PICK cut \in Cuts(r) : \E w \in Emit(y, cut) : Becomes(w)
  BY DEF Says, Writes
<1>3. PICK w \in Emit(y, cut) : Becomes(w)
  BY <1>2
<1>4. /\ World \in Worlds /\ reply \in Fields /\ faults \in FaultsSet
      /\ Good(hosts, World, said, tool)
  BY <1>1, InvReads, WorldNow DEF IInv
<1>5. n \in Nat /\ said \in Nat /\ job.rest = <<>> /\ job.then = "read" /\ reply.pending \in Seq(Int)
  BY <1>1, <1>4 DEF IInv, Typed, At, Fields
<1>6. q \in Seq(Int) /\ Good(hosts, Waiting(World, q), said + n, tool)
  <2>1. World.j.rest = <<>> /\ World.j.then = "read" /\ World.r.pending = reply.pending
    BY <1>5, WorldIs
  <2>2. /\ World.r.pending \o [i \in 1 .. n |-> said + i] \in Seq(Int)
        /\ Good(hosts, Waiting(World, World.r.pending \o [i \in 1 .. n |-> said + i]), said + n, tool)
    BY <1>4, <1>5, <2>1, GoodMore
  <2> QED
    BY <2>1, <2>2
<1>7. r \in Fields /\ Len(q) = Len(reply.pending) + n
  <2> DEFINE e == [i \in 1 .. n |-> said + i]
  <2>1. r \in Fields
    BY <1>4, <1>6 DEF Fields
  <2>2. e \in Seq(Int) /\ Len(e) = n
    <3>1. \A i \in 1 .. n : said + i \in Int
      BY <1>5
    <3>2. e \in [1 .. n -> Int]
      BY <3>1
    <3> QED
      BY <1>5, <3>2
  <2> HIDE DEF e
  <2>3. Len(reply.pending \o e) = Len(reply.pending) + n
    BY <1>5, <2>2
  <2> QED
    BY <2>1, <2>3 DEF e
<1>8. Waiting(World, q) = WithR(World, r)
  BY WorldIs DEF Waiting
<1>9. r.pending = q
  BY <1>4, <1>6 DEF Fields
<1> HIDE DEF q, r
<1>10. cut \in 0 .. Len(r.pending)
  BY <1>2, <1>7, CutsFacts
<1>11. "read" \in Stages \cup Tasks \cup Tools /\ "read" # "over"
  BY DEF Stages
<1>12. /\ w \in Worlds /\ w.f.count >= faults.count
       /\ ~hosts /\ Unhosted(WithR(World, r), said + n) => Unhosted(w, said + n)
  <2>1. Good(hosts, WithR(World, r), said + n, tool)
    BY <1>6, <1>8
  <2>2. w \in Emit([World EXCEPT !.r = r, !.j.then = "read"], cut)
    BY <1>3
  <2> HIDE DEF y
  <2> QED
    BY <1>1, <1>4, <1>7, <1>10, <1>11, <2>1, <2>2, UnhostedWrites
<1>13. Unhosted(World, said) => Unhosted(WithR(World, r), said + n)
  <2> DEFINE x == WithR(World, r)
  <2>1. /\ x.th = thread /\ x.j = job /\ x.f = faults /\ x.r.pending = q
        /\ x.r.mode = reply.mode /\ x.r.posted = reply.posted /\ x.r.all = reply.all
    BY <1>4, <1>6, <1>8, WaitingFacts, WorldIs
  <2>2. Left(x, said + n) = Left(World, said)
    BY <1>5, <1>7, <2>1, WorldIs, Empties DEF Left
  <2>3. Silent(World.th, x.th)
    BY <2>1, WorldIs, SilentSame
  <2> HIDE DEF x
  <2>4. Unhosted(World, said) => Unhosted(x, said + n)
    BY <2>1, <2>2, <2>3, WorldIs, UnhostedSame
  <2> QED
    BY <2>4 DEF x
<1>14. ~hosts /\ faults.count = 0 /\ w.f.count = 0 /\ Unhosted(World, said) => Unhosted(w, said')
  BY <1>1, <1>12, <1>13
<1> QED
  BY <1>1, <1>3, <1>4, <1>12, <1>14, StaysUnhosted

(* Any other step that writes what waits *)
LEMMA WritingUnhosted ==
  ASSUME IInv, NowUnhosted, At("read"), NEW then \in Stages \cup Tasks \cup Tools, then # "over",
         NEW cut \in 0 .. Len(reply.pending), Writes(reply, cut, then),
         script' = script, hosts' = hosts, said' = said
  PROVE  NowUnhosted'
<1>1. PICK w \in Emit([World EXCEPT !.r = reply, !.j.then = then], cut) : Becomes(w)
  BY DEF Writes
<1>2. /\ World \in Worlds /\ reply \in Fields /\ WithR(World, reply) = World
      /\ Good(hosts, WithR(World, reply), said, tool)
  BY InvReads
<1>3. /\ w \in Worlds /\ w.f.count >= faults.count
      /\ ~hosts /\ Unhosted(WithR(World, reply), said) => Unhosted(w, said)
  BY <1>1, <1>2, UnhostedWrites
<1>4. ~hosts /\ faults.count = 0 /\ w.f.count = 0 /\ Unhosted(World, said) => Unhosted(w, said')
  BY <1>2, <1>3
<1> QED
  BY <1>1, <1>3, <1>4, StaysUnhosted, WorldNow

LEMMA FlushUnhosted ==
  ASSUME IInv, NowUnhosted, FlushDue
  PROVE  NowUnhosted'
<1>1. PICK cut \in WordCuts(reply.pending) : Writes(reply, cut, "read")
  BY DEF FlushDue
<1>2. At("read") /\ script' = script /\ hosts' = hosts /\ said' = said
  BY DEF FlushDue, Idle
<1>3. cut \in 0 .. Len(reply.pending)
  <2>1. reply.pending \in Seq(Int)
    BY <1>2, InvReads
  <2> QED
    BY <1>1, <2>1, WordCutsFacts
<1>4. "read" \in Stages \cup Tasks \cup Tools /\ "read" # "over"
  BY DEF Stages
<1> QED
  BY <1>1, <1>2, <1>3, <1>4, WritingUnhosted

LEMMA ReportsUnhosted ==
  ASSUME IInv, NowUnhosted, NEW t \in Tasks, NEW status \in Statuses, Reports(t, status)
  PROVE  NowUnhosted'
<1> DEFINE then == IF reply.mode = "streaming" THEN t ELSE "break"
           cut  == Len(reply.pending)
<1>1. /\ At("read") /\ Writes(reply, cut, then)
      /\ script' = script /\ hosts' = hosts /\ said' = said
  BY DEF Reports, Idle
<1>2. then \in Stages \cup Tasks \cup Tools /\ then # "over"
  BY NamesAssumption DEF Stages
<1>3. cut \in 0 .. Len(reply.pending)
  BY <1>1, InvReads
<1> HIDE DEF then, cut
<1> QED
  BY <1>1, <1>2, <1>3, WritingUnhosted

LEMMA TakesUnhosted ==
  ASSUME IInv, NowUnhosted, Takes
  PROVE  NowUnhosted'
<1> DEFINE then == Head(asked)
           cut  == Len(reply.pending)
<1>1. /\ At("read") /\ Writes(reply, cut, then) /\ asked # <<>>
      /\ script' = script /\ hosts' = hosts /\ said' = said
  BY DEF Takes, Idle
<1>2. asked \in Seq(Tools)
  BY DEF IInv, Typed
<1>3. then \in Tools
  BY <1>1, <1>2
<1>4. then \in Stages \cup Tasks \cup Tools /\ then # "over"
  BY <1>3, NamesAssumption DEF Stages
<1>5. cut \in 0 .. Len(reply.pending)
  BY <1>1, InvReads
<1> HIDE DEF then, cut
<1> QED
  BY <1>1, <1>4, <1>5, WritingUnhosted

LEMMA EndsUnhosted ==
  ASSUME IInv, NowUnhosted, StreamEnds
  PROVE  NowUnhosted'
<1> DEFINE cut  == Len(reply.pending)
<1>1. /\ At("read") /\ Writes(reply, cut, "finish")
      /\ script' = script /\ hosts' = hosts /\ said' = said
  BY DEF StreamEnds, Idle
<1>2. "finish" \in Stages \cup Tasks \cup Tools /\ "finish" # "over"
  BY DEF Stages
<1>3. cut \in 0 .. Len(reply.pending)
  BY <1>1, InvReads
<1> HIDE DEF cut
<1> QED
  BY <1>1, <1>2, <1>3, WritingUnhosted

(* Steps that say nothing *)
LEMMA QuietlyUnhosted ==
  ASSUME IInv, NowUnhosted, NEW w \in Worlds, Becomes(w),
         script' = script, hosts' = hosts, said' = said,
         Silent(thread, w.th),
         w.r.mode = reply.mode, w.r.posted = reply.posted, w.r.all = reply.all,
         w.r.pending = reply.pending, w.j.rest = job.rest, w.j.part = job.part,
         w.f.cut = faults.cut, w.f.count >= faults.count
  PROVE  NowUnhosted'
<1>1. World.th = thread /\ World.r = reply /\ World.j = job /\ World.f = faults /\ faults \in FaultsSet
  BY WorldNow
<1>2. Left(w, said) = Left(World, said)
  BY <1>1 DEF Left
<1>3. Unhosted(World, said) => Unhosted(w, said)
  BY <1>1, <1>2, UnhostedSame
<1> QED
  BY <1>1, <1>3, StaysUnhosted

LEMMA BreaksUnhosted ==
  ASSUME IInv, NowUnhosted, Breaks
  PROVE  NowUnhosted'
<1> DEFINE g == [reply EXCEPT !.broken = TRUE]
           x == WithR(World, g)
           w == WithJ(x, Reading)
<1>1. /\ job.rest = <<>> /\ job.part = 0
      /\ reply' = g /\ job' = Reading /\ thread' = thread /\ faults' = faults
      /\ script' = script /\ hosts' = hosts /\ said' = said
  BY DEF Breaks, At
<1>2. /\ World \in Worlds /\ reply \in Fields
      /\ faults.count \in Nat
      /\ World.th = thread /\ World.r = reply /\ World.j = job /\ World.f = faults
  BY WorldNow
<1>3. /\ g \in Fields /\ g.mode = reply.mode /\ g.pending = reply.pending /\ g.all = reply.all
      /\ g.posted = reply.posted
  BY <1>2 DEF Fields
<1> HIDE DEF g
<1>4. x \in Worlds /\ x.th = thread /\ x.r = g /\ x.f = faults
  BY <1>2, <1>3, WithRFacts
<1> HIDE DEF x
<1>5. w \in Worlds /\ w.th = thread /\ w.r = g /\ w.f = faults /\ w.j = Reading
  BY <1>4, WithJFacts, ReadingTyped
<1> HIDE DEF w
<1>6. Becomes(w)
  BY <1>1, <1>5 DEF Becomes
<1>7. w.f.count >= faults.count /\ Silent(thread, w.th)
  BY <1>2, <1>5, SilentSame
<1> QED
  BY <1>1, <1>3, <1>5, <1>6, <1>7, ReadingTyped, QuietlyUnhosted

LEMMA FinalizesUnhosted ==
  ASSUME IInv, NowUnhosted, NEW i \in DOMAIN thread, Finalizes(i)
  PROVE  NowUnhosted'
<1> DEFINE m == [thread[i] EXCEPT !.state = "finalized"]
           g == [faults EXCEPT !.ends = @ + 1]
           th2 == [thread EXCEPT ![i] = m]
           w == [th |-> th2, r |-> reply, j |-> job, f |-> g, said |-> "ok"]
<1>1. /\ thread' = th2 /\ faults' = g /\ faults.ends < MaxEnds
      /\ reply' = reply /\ job' = job
      /\ script' = script /\ hosts' = hosts /\ said' = said
  BY DEF Finalizes, Finalized
<1>2. /\ World \in Worlds /\ thread \in Thread /\ reply \in Fields /\ job \in Jobs
      /\ faults \in FaultsSet /\ faults.count \in Nat
  BY WorldNow
<1>3. thread[i] \in Message
  BY <1>2 DEF Thread
<1>4. m \in Message /\ m.kind = thread[i].kind /\ m.text = thread[i].text
  BY <1>3 DEF Message, States
<1>6. g \in FaultsSet /\ g.count = faults.count /\ g.cut = faults.cut
  BY <1>1, <1>2, Bounds DEF FaultsSet
<1> HIDE DEF m, g
<1>7. Silent(thread, th2) /\ th2 \in Thread
  BY <1>2, <1>4 DEF Silent, Thread
<1> HIDE DEF th2
<1>9. w \in Worlds /\ w.th = th2 /\ w.r = reply /\ w.j = job /\ w.f = g
  BY <1>2, <1>6, <1>7 DEF Worlds, Sayings
<1> HIDE DEF w
<1>10. Becomes(w)
  BY <1>1, <1>9 DEF Becomes
<1>11. w.f.count >= faults.count
  BY <1>2, <1>6, <1>9
<1> QED
  BY <1>1, <1>6, <1>7, <1>9, <1>10, <1>11, QuietlyUnhosted

LEMMA FinishesUnhosted ==
  ASSUME IInv, NowUnhosted, ~hosts, Finishes
  PROVE  NowUnhosted'
<1> DEFINE over == GoingOn(World, "over")
<1>1. /\ job.rest = <<>> /\ job.part = 0
      /\ script' = script /\ hosts' = hosts /\ said' = said
  BY DEF Finishes, At
<1>2. /\ World \in Worlds /\ faults.count \in Nat
      /\ World.th = thread /\ World.r = reply /\ World.j = job /\ World.f = faults
      /\ Fitting(hosts, World)
  BY WorldNow
<1>3. over = [World EXCEPT !.j.then = "over"]
  BY DEF GoingOn, WithJ
<1>4. reply.at = 0
  BY <1>2 DEF Fitting
<1>5. Becomes(over)
  BY <1>3, <1>4 DEF Finishes
<1>6. /\ over \in Worlds /\ over.th = thread /\ over.r = reply /\ over.f = faults
      /\ over.j.rest = job.rest /\ over.j.part = job.part
  <2>1. "over" \in Stages \cup Tasks \cup Tools
    BY DEF Stages
  <2> QED
    BY <1>1, <1>2, <2>1, GoingOnFacts
<1> HIDE DEF over
<1>7. over.f.count >= faults.count /\ Silent(thread, over.th)
  BY <1>2, <1>6, SilentSame
<1> QED
  BY <1>1, <1>5, <1>6, <1>7, QuietlyUnhosted

LEMMA StillUnhosted ==
  ASSUME IInv, NowUnhosted, script' = script, hosts' = hosts, said' = said,
         thread' = thread, reply' = reply, job' = job, faults' = faults
  PROVE  NowUnhosted'
<1>1. /\ World \in Worlds /\ faults.count \in Nat
      /\ World.th = thread /\ World.r = reply /\ World.j = job /\ World.f = faults
  BY WorldNow
<1>2. Becomes(World)
  BY <1>1 DEF Becomes
<1>3. World.f.count >= faults.count /\ Silent(thread, World.th)
  BY <1>1, SilentSame
<1> QED
  BY <1>1, <1>2, <1>3, QuietlyUnhosted

LEMMA PieceMore ==
  ASSUME ~hosts, NEW w, NEW top, NEW tl, Good(hosts, w, top, tl), w.j.rest # <<>>, w.j.part = 0,
         NEW u \in Pieces(w)
  PROVE  u \in Worlds /\ u.f.count >= w.f.count
<1> DEFINE cut   == Cut(w)
           piece == PieceOf(w)
           c     == Words(piece)
<1>1. w \in Worlds /\ Counted(w, top) /\ Fitting(hosts, w)
  BY DEF Good, Fitting
<1>2. /\ cut \in Nat /\ cut <= Len(w.j.rest) /\ piece \in Seq(Int) /\ c \in Chunks
  BY <1>1, PieceFacts
<1>3. PICK v \in AppendChunk(w, c) :
        u = IF v.said = "ok" THEN Inked(v, cut, Consumed(FenceOf(v), piece)) ELSE GivenUp(v)
  BY DEF Pieces
<1>4. u \in Worlds
  BY GoodPiece DEF Good, Fitting
<1> HIDE DEF cut, piece, c
<1>5. w.r.at = 0
  BY <1>1 DEF Fitting
<1>6. /\ v \in Worlds /\ Worse(w.f, v.f)
      /\ \/ v.j.rest = w.j.rest
         \/ v.j = w.j
  BY <1>1, <1>2, <1>3, <1>5, AppendUnhosted
<1>7. CASE v.said = "ok"
  <2> DEFINE fence == Consumed(FenceOf(v), piece)
  <2>1. fence \in FenceSet /\ u = Inked(v, cut, fence)
    BY <1>2, <1>3, <1>6, <1>7, FenceTyped, ConsumedTyped
  <2> HIDE DEF fence
  <2>2. cut <= Len(v.j.rest)
    BY <1>2, <1>6
  <2>3. u.f = v.f
    BY <1>2, <1>6, <2>1, <2>2, InkedFacts
  <2> QED
    BY <1>4, <1>6, <2>3 DEF Worse
<1>8. CASE v.said # "ok"
  <2>1. u.f.count = v.f.count
    BY <1>3, <1>6, <1>8, GivenUpFacts
  <2> QED
    BY <1>4, <1>6, <2>1 DEF Worse
<1> QED
  BY <1>7, <1>8

LEMMA PaintUnhosted ==
  ASSUME IInv, NowUnhosted, ~hosts, Paint
  PROVE  NowUnhosted'
<1>1. /\ job.rest # <<>> /\ job.part = 0
      /\ script' = script /\ hosts' = hosts /\ said' = said
  BY DEF Paint
<1>2. PICK u \in (IF Full(World) THEN Rollover(World) ELSE {World}) :
        \E w \in (IF Room(u) = 0 THEN Rollover(u) ELSE Pieces(u)) : Becomes(w)
  BY PaintIs
<1>3. /\ Good(hosts, World, said, tool) /\ World.r = reply /\ World.j = job /\ World.f = faults
      /\ faults \in FaultsSet /\ World \in Worlds /\ World.th = thread /\ faults.count \in Nat
  BY WorldNow
<1>4. reply.at = 0
  BY <1>3 DEF Good, Fitting
<1>5. Rollover(World) = {World}
  BY <1>3, <1>4 DEF Rollover
<1>6. u = World
  BY <1>2, <1>5
<1>7. PICK w \in (IF Room(World) = 0 THEN {World} ELSE Pieces(World)) : Becomes(w)
  BY <1>2, <1>5, <1>6
<1>8. CASE w = World
  <2>1. w.f.count >= faults.count /\ Silent(thread, w.th)
    BY <1>3, <1>8, SilentSame
  <2> QED
    BY <1>1, <1>3, <1>7, <1>8, <2>1, QuietlyUnhosted
<1>9. CASE w \in Pieces(World)
  <2>1. World.j.rest # <<>> /\ World.j.part = 0
    BY <1>1, <1>3
  <2>2. w \in Worlds /\ w.f.count >= faults.count
    BY <1>3, <1>9, <2>1, PieceMore
  <2>3. ~hosts /\ faults.count = 0 /\ w.f.count = 0 /\ Unhosted(World, said) => Unhosted(w, said')
    BY <1>1, <1>3, <1>9, <2>1, UnhostedPiece
  <2> QED
    BY <1>1, <1>3, <1>7, <2>2, <2>3, StaysUnhosted
<1> QED
  BY <1>7, <1>8, <1>9

LEMMA DrawsUnhosted ==
  ASSUME IInv, NowUnhosted, ~hosts, NEW t \in Tasks, Draws(t)
  PROVE  NowUnhosted'
<1> DEFINE b == BeatNo(t)
<1>1. /\ job.then = t /\ job.rest = <<>> /\ job.part = 0
      /\ script' = script /\ hosts' = hosts /\ said' = said
  BY DEF Draws, At
<1>2. PICK u \in LeavePlaced(World) \cup {World} :
               /\ Good(hosts, u, said, tool) /\ u.j = job
               /\ \E v \in DrawnFrom(u, t) : Becomes(v)
  BY DrawsIs
<1>3. PICK v \in DrawnFrom(u, t) : Becomes(v)
  BY <1>2
<1>4. /\ Good(hosts, World, said, tool) /\ World.r = reply /\ World.j = job /\ World.f = faults
      /\ faults \in FaultsSet /\ World \in Worlds /\ World.th = thread /\ faults.count \in Nat
      /\ Fitting(hosts, World)
  BY WorldNow
<1>5. t # "over"
  BY NamesAssumption DEF Stages
<1>6. u.f.count >= faults.count /\ (Unhosted(World, said) => Unhosted(u, said))
  <2>1. CASE u = World
    BY <1>4, <2>1
  <2>2. CASE u \in LeavePlaced(World)
    <3>1. Worse(World.f, u.f)
      BY <1>4, <2>2, LeavePlacedFacts
    <3>2. World.j.rest = <<>> /\ World.j.part = 0
      BY <1>1, <1>4
    <3>3. Unhosted(World, said) => Unhosted(u, said)
      BY <1>4, <2>2, <3>2, UnhostedLeave
    <3> QED
      BY <1>4, <3>1, <3>3 DEF Worse
  <2> QED
    BY <1>2, <2>1, <2>2
<1>7. /\ BeatNo(t) \in Nat /\ NewOpen(t) \in Nat
      /\ NewBeats(t) \in Seq(Beats)
      /\ BeatNo(t) \in DOMAIN NewBeats(t) /\ NewBeats(t)[BeatNo(t)] \in Beats
  BY BeatFacts
<1> DEFINE w == Listing(u, NewOpen(t), NewBeats(t))
           x == Drawing(w, b)
           c == List(b, w.r.beats[b])
<1>10. v \in {Resting(z) : z \in AppendChunk(x, c)} \cup {Resting(w)}
  BY <1>3 DEF DrawnFrom
<1>11. u \in Worlds
  BY <1>2 DEF Good, Fitting
<1>12. /\ w \in Worlds /\ w.th = u.th /\ w.j = u.j /\ w.f = u.f
       /\ w.r.beats = NewBeats(t) /\ w.r.mode = u.r.mode
       /\ w.r.pending = u.r.pending /\ w.r.all = u.r.all /\ w.r.posted = u.r.posted
       /\ w.r.placed = u.r.placed /\ w.r.at = u.r.at /\ w.r.spent = u.r.spent
  BY <1>7, <1>11, ListingFacts
<1> HIDE DEF w
<1>13. Good(hosts, w, said, tool)
  BY <1>1, <1>5, <1>2, <1>12, GoodPlain
<1>14. /\ x \in Worlds /\ x.th = w.th /\ x.j = w.j /\ x.f = w.f /\ x.r.mode = w.r.mode
       /\ x.r.pending = w.r.pending /\ x.r.all = w.r.all /\ x.r.posted = w.r.posted
       /\ x.r.placed = w.r.placed /\ x.r.at = w.r.at /\ x.r.spent = w.r.spent
  BY <1>7, <1>12, DrawingFacts
<1>15. c \in Chunks /\ c.text = <<>>
  BY <1>7, <1>12, ListTyped
<1> HIDE DEF x, c
<1>16. Good(hosts, x, said, tool)
  BY <1>1, <1>5, <1>2, <1>12, <1>13, <1>14, GoodPlain
<1>17. x.j.rest = <<>> /\ x.j.part = 0 /\ x.j.then # "over"
       /\ w.j.rest = <<>> /\ w.j.part = 0
  BY <1>1, <1>5, <1>2, <1>12, <1>14
<1>18. Unhosted(u, said) => Unhosted(w, said) /\ Unhosted(x, said)
  <2>1. Silent(u.th, w.th) /\ Silent(u.th, x.th)
    BY <1>12, <1>14, SilentSame
  <2>2. Left(w, said) = Left(u, said) /\ Left(x, said) = Left(u, said)
    BY <1>12, <1>14 DEF Left
  <2>3. Unhosted(u, said) => Unhosted(w, said)
    BY <1>12, <2>1, <2>2, UnhostedSame
  <2>4. Unhosted(u, said) => Unhosted(x, said)
    BY <1>12, <1>14, <2>1, <2>2, UnhostedSame
  <2> QED
    BY <2>3, <2>4
<1>19. v \in Worlds /\ v.f.count >= u.f.count
       /\ (v.f.count = 0 /\ Unhosted(u, said) => Unhosted(v, said))
  <2>1. CASE v = Resting(w)
    <3>1. /\ v \in Worlds /\ v.th = w.th /\ v.r = w.r /\ v.f = w.f
          /\ v.j.rest = <<>> /\ v.j.part = 0
      BY <1>12, <2>1, RestingFacts
    <3>2. Silent(w.th, v.th) /\ Left(v, said) = Left(w, said)
      BY <1>17, <3>1, SilentSame DEF Left
    <3>3. Unhosted(w, said) => Unhosted(v, said)
      BY <1>17, <3>1, <3>2, UnhostedSame
    <3>4. u.f.count \in Nat
      BY <1>11, WorldTexts
    <3> QED
      BY <1>12, <1>18, <3>1, <3>3, <3>4
  <2>2. CASE v \in {Resting(z) : z \in AppendChunk(x, c)}
    <3>1. PICK z \in AppendChunk(x, c) : v = Resting(z)
      BY <2>2
    <3>2. Fitting(hosts, x) /\ x.r.at = 0
      BY <1>16 DEF Good, Fitting
    <3>3. z \in Worlds /\ Worse(x.f, z.f)
      BY <1>14, <1>15, <3>1, <3>2, AppendUnhosted
    <3>4. v \in Worlds /\ v.f = z.f
      BY <3>1, <3>3, RestingFacts
    <3>5. z.f.count = 0 /\ Unhosted(x, said) => Unhosted(Resting(z), said)
      BY <1>15, <1>16, <1>17, <3>1, UnhostedDrawn
    <3>6. v.f.count >= u.f.count
      BY <1>12, <1>14, <3>3, <3>4 DEF Worse
    <3>7. v.f.count = 0 /\ Unhosted(u, said) => Unhosted(v, said)
      BY <1>18, <3>1, <3>4, <3>5
    <3> QED
      BY <3>4, <3>6, <3>7
  <2> QED
    BY <1>10, <2>1, <2>2
<1>20. v.f.count >= faults.count
  <2>1. v.f.count \in Nat /\ u.f.count \in Nat
    BY <1>11, <1>19, WorldTexts
  <2> QED
    BY <1>4, <1>6, <1>19, <2>1
<1>21. ~hosts /\ faults.count = 0 /\ v.f.count = 0 /\ Unhosted(World, said) => Unhosted(v, said')
  BY <1>1, <1>6, <1>19
<1> QED
  BY <1>1, <1>3, <1>4, <1>19, <1>20, <1>21, StaysUnhosted

LEMMA ReshownPart ==
  ASSUME NEW w \in Worlds, NEW i \in DOMAIN w.r.posted, NEW part \in Seq(Int)
  PROVE  \E posted \in Seq(Post) :
           /\ PostedAs(w, Reshown(w, i, part), posted)
           /\ DOMAIN posted = DOMAIN w.r.posted
           /\ \A n \in DOMAIN w.r.posted : posted[n].at = w.r.posted[n].at
           /\ \A n \in DOMAIN w.r.posted : n # i => posted[n].shown = w.r.posted[n].shown
           /\ posted[i].shown = part
<1> DEFINE old  == w.r.posted
           one  == [old[i] EXCEPT !.shown = part]
           new  == [old EXCEPT ![i] = one]
<1>1. old \in Seq(Post)
  <2>1. w.r \in Fields
    BY WorldParts
  <2> QED
    BY <2>1 DEF Fields
<1>2. old[i] \in Post
  BY <1>1
<1>3. one \in Post /\ one.at = old[i].at /\ one.shown = part
  BY <1>2 DEF Post
<1>4. Reshown(w, i, part) = [w EXCEPT !.r = [w.r EXCEPT !.posted = new]]
  BY DEF Reshown
<1>5. Reshown(w, i, part) = WithR(w, [w.r EXCEPT !.posted = new])
  BY <1>4 DEF WithR
<1> HIDE DEF one, old
<1>6. /\ new \in Seq(Post) /\ DOMAIN new = DOMAIN old
      /\ new[i] = one /\ \A n \in DOMAIN old : n # i => new[n] = old[n]
  BY <1>1, <1>3 DEF old
<1> HIDE DEF new
<1>7. PostedAs(w, Reshown(w, i, part), new)
  BY <1>5, <1>6, PostedFacts
<1>8. \A n \in DOMAIN old : new[n].at = old[n].at
  BY <1>3, <1>6
<1> QED
  BY <1>3, <1>6, <1>7, <1>8 DEF old

LEMMA ShownTooPart ==
  ASSUME NEW w \in Worlds, NEW part \in Seq(Int)
  PROVE  \E posted \in Seq(Post) :
           /\ PostedAs(w, ShownToo(w, part), posted)
           /\ Len(posted) = Len(w.r.posted) + 1
           /\ \A n \in DOMAIN w.r.posted : posted[n] = w.r.posted[n]
           /\ posted[Len(w.r.posted) + 1].at = Len(w.th)
           /\ posted[Len(w.r.posted) + 1].shown = part
<1> DEFINE old  == w.r.posted
           one  == [at |-> Len(w.th), shown |-> part]
           new  == Append(old, one)
<1>1. old \in Seq(Post) /\ w.th \in Thread
  <2>1. w.r \in Fields
    BY WorldParts
  <2> QED
    BY <2>1, WorldParts DEF Fields
<1>2. one \in Post /\ one.at = Len(w.th) /\ one.shown = part
  BY <1>1 DEF Post, Thread
<1>3. ShownToo(w, part) = WithR(w, [w.r EXCEPT !.posted = new])
  BY DEF ShownToo, WithR
<1> HIDE DEF one
<1>4. /\ new \in Seq(Post) /\ Len(new) = Len(old) + 1
      /\ new[Len(old) + 1] = one
      /\ \A n \in DOMAIN old : new[n] = old[n]
  BY <1>1, <1>2
<1> HIDE DEF new, old
<1>5. PostedAs(w, ShownToo(w, part), new)
  BY <1>3, <1>4, PostedFacts
<1> QED
  BY <1>2, <1>4, <1>5 DEF old

(* A call that nothing went wrong with was answered. *)
LEMMA CalledWell ==
  ASSUME NEW x \in Worlds, NEW a \in Answers, NEW c \in Called(x, a)
  PROVE  /\ c \in Worlds /\ c.r = x.r /\ c.j = x.j /\ c.f.cut = x.f.cut
         /\ c.f.count >= x.f.count /\ c.f.count \in Nat /\ x.f.count \in Nat
         /\ c.f.count = 0 => c.th = a.th /\ c.said = a.said /\ c.f = x.f
<1>1. /\ c \in Worlds
      /\ c.r = x.r /\ c.j = x.j
      /\ c.f.cut = x.f.cut
      /\ c.f.count >= x.f.count
      /\ \/ c.th = a.th /\ c.said = a.said /\ c.f = x.f
         \/ c.f.count > x.f.count /\ c.f.count # x.f.count /\ c.said = "failed"
  BY CalledFacts
<1>2. c.f.count \in Nat /\ x.f.count \in Nat
  BY <1>1, WorldTexts
<1> QED
  BY <1>1, <1>2

(* What is posted of a text is words, and where it has none Slack says so. *)
LEMMA PartIsWords ==
  ASSUME NEW all \in Seq(Int), Rising(all), NEW i \in 1 .. Len(Parts(all))
  PROVE  /\ all # <<>> => Parts(all)[i] # <<>>
         /\ all = <<>> => Parts(all)[i] = <<>> /\ i = 1
<1>1. CASE all # <<>>
  BY <1>1, PartsRise
<1>2. CASE all = <<>>
  <2>1. Len(Parts(all)) = 1 /\ Parts(all)[1] = <<>>
    BY <1>2, PartsOfNothing
  <2>2. i = 1
    BY <2>1
  <2> QED
    BY <1>2, <2>1, <2>2
<1> QED
  BY <1>1, <1>2

StaysLaid(x, v, top) ==
  /\ v.f = x.f /\ v.r.mode = x.r.mode /\ Left(v, top) = Left(x, top)
  /\ Laid(v.th, v.r.posted, v.r.all, v.j.part)
  /\ \A n : Has(x.th, x.r.posted, x.r.all, n) => Has(v.th, v.r.posted, v.r.all, n)

(* One part is posted again with new words. *)
LEMMA UpdateUnhosted ==
  ASSUME NEW x \in Worlds, NEW i \in DOMAIN x.r.posted, i \in 1 .. Len(Parts(x.r.all)),
         x.r.posted[i].shown # Parts(x.r.all)[i],
         Laid(x.th, x.r.posted, x.r.all, i), x.j.part = NextOf(i, x.r.all),
         NEW c \in Called(x, UpdateMessage(x.th, x.r.posted[i].at, Parts(x.r.all)[i])), c.f.count = 0,
         NEW top
  PROVE  StaysLaid(x, IF c.said = "ok" THEN Reshown(c, i, Parts(x.r.all)[i]) ELSE c, top)
<1> DEFINE posted == x.r.posted
           all == x.r.all
           part == Parts(all)[i]
           at == posted[i].at
           m  == Rewritten(x.th[at], part)
           an == UpdateMessage(x.th, at, part)
           th2 == [x.th EXCEPT ![at] = m]
<1>1. x.th \in Thread /\ posted \in Seq(Post) /\ all \in Seq(Int)
  BY WorldTexts
<1>0. /\ i \in DOMAIN posted /\ posted[i].shown # part /\ i \in 1 .. Len(Parts(all))
      /\ Laid(x.th, posted, all, i) /\ x.j.part = NextOf(i, all)
      /\ x.r.posted = posted /\ x.r.all = all
  OBVIOUS
<1>01. c \in Called(x, UpdateMessage(x.th, at, part))
  OBVIOUS
<1> HIDE DEF posted, all, part, at
<1>2. Rising(all) /\ Filed(x.th, posted)
  BY <1>0 DEF Laid
<1>3. at \in DOMAIN x.th /\ x.th[at].kind = "post"
  BY <1>0, <1>2 DEF Filed, at
<1>4. all # <<>>
  <2>1. posted # <<>>
    BY <1>0, Empties
  <2> QED
    BY <1>0, <2>1 DEF Laid, Partway
<1>5. part # <<>> /\ part \in Seq(Int)
  BY <1>0, <1>1, <1>2, <1>4, PartIsWords, PartsFacts DEF Within, part
<1>6. /\ an \in Answers
      /\ m \in Message /\ m.kind = "post" /\ m.text = part
  <2>1. an = UpdateMessage(x.th, at, part) /\ m = Rewritten(x.th[at], part)
    OBVIOUS
  <2> HIDE DEF an, m
  <2>2. an \in Answers
    BY <1>1, <1>3, <1>5, <2>1, UpdateAnswer
  <2>3. m \in Message /\ m.kind = "post" /\ m.text = part
    <3>1. x.th[at] \in Message /\ part \in Seq(Int \cup Tools)
      BY <1>1, <1>3, <1>5 DEF Thread
    <3> QED
      BY <1>3, <1>5, <2>1, <3>1 DEF Message, Rewritten
  <2> QED
    BY <2>2, <2>3
<1>7. an.th = th2 /\ an.said = "ok"
  BY <1>5 DEF UpdateMessage, Answer, Rewritten
<1> HIDE DEF an, m
<1>8. /\ c \in Worlds /\ c.r = x.r /\ c.j = x.j /\ c.f.cut = x.f.cut
      /\ c.th = th2 /\ c.said = "ok" /\ c.f = x.f
  <2>1. c \in Called(x, an)
    BY <1>01 DEF an
  <2>2. /\ c \in Worlds /\ c.r = x.r /\ c.j = x.j /\ c.f.cut = x.f.cut
        /\ c.f.count = 0 => c.th = an.th /\ c.said = an.said /\ c.f = x.f
    BY <1>6, <2>1, CalledWell
  <2> QED
    BY <1>7, <2>2
<1>9. PICK posted2 \in Seq(Post) :
           /\ PostedAs(c, Reshown(c, i, part), posted2)
           /\ DOMAIN posted2 = DOMAIN c.r.posted
           /\ \A n \in DOMAIN c.r.posted : posted2[n].at = c.r.posted[n].at
           /\ \A n \in DOMAIN c.r.posted : n # i => posted2[n].shown = c.r.posted[n].shown
           /\ posted2[i].shown = part
  <2>1. i \in DOMAIN c.r.posted /\ c \in Worlds /\ part \in Seq(Int)
    BY <1>0, <1>5, <1>8
  <2> QED
    BY <2>1, ReshownPart
<1> DEFINE v == Reshown(c, i, part)
<1>10. /\ v.th = th2 /\ v.j = x.j /\ v.f = x.f /\ v.r.posted = posted2
       /\ v.r.mode = x.r.mode /\ v.r.pending = x.r.pending /\ v.r.all = all
  BY <1>0, <1>8, <1>9 DEF PostedAs
<1>11. /\ th2 \in Thread /\ DOMAIN th2 = DOMAIN x.th
       /\ \A j \in DOMAIN x.th : j # at => th2[j] = x.th[j]
       /\ th2[at].kind = "post" /\ th2[at].text = Parts(all)[i]
  BY <1>1, <1>3, <1>6 DEF Thread, part
<1>12. /\ DOMAIN posted2 = DOMAIN posted
       /\ \A n \in DOMAIN posted : posted2[n].at = posted[n].at
       /\ \A n \in DOMAIN posted : n # i => posted2[n].shown = posted[n].shown
       /\ posted2[i].shown = Parts(all)[i]
  BY <1>0, <1>8, <1>9 DEF part
<1> HIDE DEF th2, v
<1>13. /\ th2[posted[i].at].kind = "post" /\ th2[posted[i].at].text = Parts(all)[i]
       /\ \A j \in DOMAIN x.th : j # posted[i].at => th2[j] = x.th[j]
  BY <1>11 DEF at
<1>14. /\ Laid(th2, posted2, all, NextOf(i, all))
       /\ \A n : Has(x.th, posted, all, n) => Has(th2, posted2, all, n)
  <2>1. posted[i].shown # Parts(all)[i]
    BY <1>0 DEF part
  <2> DEFINE th == x.th
  <2>2. /\ th \in Thread /\ th2 \in Thread /\ posted \in Seq(Post) /\ posted2 \in Seq(Post)
        /\ all \in Seq(Int) /\ i \in DOMAIN posted /\ Laid(th, posted, all, i)
        /\ DOMAIN th2 = DOMAIN th /\ \A j \in DOMAIN th : j # posted[i].at => th2[j] = th[j]
    BY <1>0, <1>1, <1>9, <1>11, <1>13
  <2> HIDE DEF th
  <2>3. /\ Laid(th2, posted2, all, NextOf(i, all))
        /\ \A n : Has(th, posted, all, n) => Has(th2, posted2, all, n)
    BY <1>12, <1>13, <2>1, <2>2, LaidUpdates
  <2> QED
    BY <2>3 DEF th
<1>15. Left(v, top) = Left(x, top)
  BY <1>10 DEF Left
<1>16. StaysLaid(x, v, top)
  BY <1>0, <1>10, <1>14, <1>15 DEF StaysLaid
<1> QED
  BY <1>8, <1>16 DEF v, part, all

(* A new part is posted under the others, or there is none to post. *)
LEMMA PostUnhosted ==
  ASSUME NEW x \in Worlds, NEW i \in 1 .. Len(Parts(x.r.all)), i \notin DOMAIN x.r.posted,
         Laid(x.th, x.r.posted, x.r.all, i), x.j.part = NextOf(i, x.r.all),
         NEW c \in Called(x, PostMessage(x.th, "post", Parts(x.r.all)[i])), c.f.count = 0,
         NEW top
  PROVE  StaysLaid(x, IF c.said = "ok" THEN ShownToo(c, Parts(x.r.all)[i]) ELSE TurnTo(c, 0), top)
<1> DEFINE posted == x.r.posted
           all == x.r.all
           part == Parts(all)[i]
           m   == NewMessage("post", part)
           an  == PostMessage(x.th, "post", part)
           th2 == Append(x.th, m)
<1>1. x.th \in Thread /\ posted \in Seq(Post) /\ all \in Seq(Int)
  BY WorldTexts
<1>0. /\ i \notin DOMAIN posted /\ i \in 1 .. Len(Parts(all))
      /\ Laid(x.th, posted, all, i) /\ x.j.part = NextOf(i, all)
      /\ x.r.posted = posted /\ x.r.all = all
  OBVIOUS
<1>01. c \in Called(x, PostMessage(x.th, "post", part))
  OBVIOUS
<1> HIDE DEF posted, all, part
<1>2. Rising(all) /\ Ordered(x.th) /\ Partway(posted, all, i)
  BY <1>0 DEF Laid
<1>3. i = Len(posted) + 1 /\ i \in Nat
  <2>1. i <= Len(posted) + 1 /\ i \in Nat /\ i >= 1 /\ Len(posted) \in Nat /\ DOMAIN posted = 1 .. Len(posted)
    BY <1>0, <1>1, <1>2, PartsFacts DEF Partway
  <2> QED
    BY <1>0, <2>1
<1>4. part \in Seq(Int) /\ (all # <<>> => part # <<>>) /\ (all = <<>> => part = <<>>)
  BY <1>0, <1>1, <1>2, PartIsWords, PartsFacts DEF Within, part
<1>5. an \in Answers /\ (part # <<>> => an.th = th2 /\ an.said = "ok")
                     /\ (part = <<>> => an.th = x.th /\ an.said = "no_text")
  <2>1. an \in Answers
    BY <1>1, <1>4, PostAnswer
  <2>2. an = IF part = <<>> THEN Answer(x.th, "no_text") ELSE Answer(th2, "ok")
    BY DEF PostMessage
  <2> QED
    BY <2>1, <2>2 DEF Answer
<1> HIDE DEF an
<1>6. /\ c \in Worlds /\ c.r = x.r /\ c.j = x.j
      /\ c.th = an.th /\ c.said = an.said /\ c.f = x.f
  <2>1. c \in Called(x, an)
    BY <1>01 DEF an
  <2>2. /\ c \in Worlds /\ c.r = x.r /\ c.j = x.j
        /\ c.f.count = 0 => c.th = an.th /\ c.said = an.said /\ c.f = x.f
    BY <1>5, <2>1, CalledWell
  <2> QED
    BY <2>2
<1>7. CASE all = <<>>
  <2>1. c.said # "ok" /\ c.th = x.th /\ posted = <<>>
    BY <1>2, <1>4, <1>5, <1>6, <1>7 DEF Partway
  <2> DEFINE v == TurnTo(c, 0)
  <2>2. /\ v.th = x.th /\ v.r = x.r /\ v.f = x.f
        /\ v.j.rest = x.j.rest /\ v.j.part = 0
    <3>1. 0 \in Nat /\ c \in Worlds
      BY <1>6
    <3>2. /\ v.th = c.th /\ v.r = c.r /\ v.f = c.f
          /\ v.j.rest = c.j.rest /\ v.j.part = 0
      BY <3>1, TurnToFacts
    <3> QED
      BY <1>6, <2>1, <3>2
  <2> HIDE DEF v
  <2>3. 0 \in 0 .. 1
    OBVIOUS
  <2>4. Laid(x.th, <<>>, <<>>, 0)
    BY <1>2, <2>3, LaidAnew
  <2>5. Left(v, top) = Left(x, top)
    BY <2>2 DEF Left
  <2>6. StaysLaid(x, v, top)
    BY <1>0, <1>7, <2>1, <2>2, <2>4, <2>5 DEF StaysLaid
  <2> QED
    BY <2>1, <2>6 DEF v, part, all
<1>8. CASE all # <<>>
  <2>1. c.said = "ok" /\ c.th = th2
    BY <1>4, <1>5, <1>6, <1>8
  <2>2. m \in Message /\ m.kind = "post" /\ m.text = part
    BY <1>4, NewMessageTyped
  <2> HIDE DEF m
  <2>3. /\ th2 \in Thread /\ Len(th2) = Len(x.th) + 1 /\ \A j \in DOMAIN x.th : th2[j] = x.th[j]
        /\ th2[Len(x.th) + 1] = m
    BY <1>1, <2>2 DEF Thread
  <2> HIDE DEF th2
  <2>4. PICK posted2 \in Seq(Post) :
           /\ PostedAs(c, ShownToo(c, part), posted2)
           /\ Len(posted2) = Len(c.r.posted) + 1
           /\ \A n \in DOMAIN c.r.posted : posted2[n] = c.r.posted[n]
           /\ posted2[Len(c.r.posted) + 1].at = Len(c.th)
           /\ posted2[Len(c.r.posted) + 1].shown = part
    BY <1>4, <1>6, ShownTooPart
  <2> DEFINE v == ShownToo(c, part)
  <2>5. /\ v.th = th2 /\ v.j = x.j /\ v.f = x.f /\ v.r.posted = posted2
        /\ v.r.mode = x.r.mode /\ v.r.pending = x.r.pending /\ v.r.all = all
    BY <1>0, <1>6, <2>1, <2>4 DEF PostedAs
  <2> HIDE DEF v
  <2>6. /\ Len(posted2) = i /\ \A n \in DOMAIN posted : posted2[n] = posted[n]
        /\ posted2[i].at = Len(x.th) + 1 /\ posted2[i].shown = Parts(all)[i]
    BY <1>0, <1>3, <1>6, <2>1, <2>3, <2>4 DEF part
  <2>7. /\ th2[Len(x.th) + 1].kind = "post" /\ th2[Len(x.th) + 1].text = Parts(all)[i]
        /\ i <= Len(Parts(all))
    BY <1>0, <1>1, <2>2, <2>3, PartsFacts DEF part
  <2>8. /\ Laid(th2, posted2, all, NextOf(i, all))
        /\ \A n : Has(x.th, posted, all, n) => Has(th2, posted2, all, n)
    <3> DEFINE th == x.th
    <3>1. /\ th \in Thread /\ th2 \in Thread /\ posted \in Seq(Post) /\ posted2 \in Seq(Post)
          /\ all \in Seq(Int) /\ i = Len(posted) + 1 /\ Laid(th, posted, all, i)
          /\ Len(th2) = Len(th) + 1 /\ \A j \in DOMAIN th : th2[j] = th[j]
          /\ th2[Len(th) + 1].kind = "post" /\ th2[Len(th) + 1].text = Parts(all)[i]
          /\ posted2[i].at = Len(th) + 1
      BY <1>0, <1>1, <1>3, <2>3, <2>4, <2>6, <2>7
    <3> HIDE DEF th
    <3>2. /\ Laid(th2, posted2, all, NextOf(i, all))
          /\ \A n : Has(th, posted, all, n) => Has(th2, posted2, all, n)
      BY <1>8, <2>6, <2>7, <3>1, LaidPosts
    <3> QED
      BY <3>2 DEF th
  <2>9. Left(v, top) = Left(x, top)
    BY <2>5 DEF Left
  <2>10. StaysLaid(x, v, top)
    BY <1>0, <2>5, <2>8, <2>9 DEF StaysLaid
  <2> QED
    BY <2>1, <2>10 DEF v, part, all
<1> QED
  BY <1>7, <1>8

LEMMA LaidStays ==
  ASSUME NEW x \in Worlds, NEW v, NEW top, Unhosted(World, top), World.r.mode # "streaming",
         x.th = World.th, x.r = World.r, x.f = World.f, Left(x, top) = Left(World, top),
         StaysLaid(x, v, top)
  PROVE  Unhosted(v, top)
<1>1. v.r.mode # "streaming" /\ v.f = World.f /\ Left(v, top) = Left(World, top)
  BY DEF StaysLaid
<1>2. Laid(v.th, v.r.posted, v.r.all, v.j.part)
  BY DEF StaysLaid
<1>3. \A n : Has(World.th, World.r.posted, World.r.all, n) => Has(v.th, v.r.posted, v.r.all, n)
  BY DEF StaysLaid
<1> QED
  BY <1>1, <1>2, <1>3 DEF Unhosted

LEMMA RepostUnhosted ==
  ASSUME IInv, NowUnhosted, Repost
  PROVE  NowUnhosted'
<1> DEFINE i     == job.part
           part  == Parts(reply.all)[i]
           known == i \in DOMAIN reply.posted
           next  == TurnTo(World, NextOf(i, reply.all))
           Shown2(c) == IF c.said = "ok" THEN Reshown(c, i, part) ELSE c
           Added(c) == IF c.said = "ok" THEN ShownToo(c, part) ELSE TurnTo(c, 0)
<1>1. i # 0 /\ script' = script /\ hosts' = hosts /\ said' = said
  BY DEF Repost
<1>2. PICK w \in IF known /\ reply.posted[i].shown = part THEN {next}
                 ELSE IF known
                   THEN {Shown2(c) : c \in Called(next, UpdateMessage(thread, reply.posted[i].at, part))}
                 ELSE {Added(c) : c \in Called(next, PostMessage(thread, "post", part))} :
           Becomes(w)
  BY DEF Repost, TurnTo, WithJ, Reshown, ShownToo, NextOf
<1>3. /\ World \in Worlds /\ thread \in Thread /\ reply \in Fields /\ job \in Jobs
      /\ Fitting(hosts, World) /\ Shaped(World) /\ Steady(World)
      /\ World.th = thread /\ World.r = reply /\ World.j = job /\ World.f = faults
      /\ faults \in FaultsSet /\ faults.count \in Nat
  BY WorldNow
<1>4. reply.mode # "streaming"
  BY <1>1, <1>3 DEF Shaped
<1>5. reply.all \in Seq(Int) /\ reply.posted \in Seq(Post)
  BY <1>3 DEF Fields
<1>6. Len(Parts(reply.all)) \in Nat /\ Len(Parts(reply.all)) >= 1
  BY <1>5, PartsFacts
<1>7. i \in 1 .. Len(Parts(reply.all)) /\ i \in Nat
  <2>1. i \in Nat
    BY <1>3 DEF Jobs
  <2>2. i <= Len(Parts(reply.all))
    BY <1>1, <1>3 DEF Steady
  <2> QED
    BY <1>1, <1>6, <2>1, <2>2
<1>8. NextOf(i, reply.all) \in Nat
  BY <1>6, <1>7 DEF NextOf
<1>9. /\ next \in Worlds /\ next.th = thread /\ next.r = reply /\ next.f = faults
      /\ next.j.rest = job.rest /\ next.j.part = NextOf(i, reply.all)
  BY <1>3, <1>8, TurnToFacts
<1> HIDE DEF next
<1>10. part \in Seq(Int)
  BY <1>5, <1>7, PartsFacts DEF Within
<1>11. Left(next, said) = Left(World, said)
  BY <1>3, <1>9 DEF Left
<1>12. ASSUME NEW v, StaysLaid(next, v, said), Unhosted(World, said)
       PROVE  Unhosted(v, said')
  <2>1. World.r.mode # "streaming" /\ next.th = World.th /\ next.r = World.r /\ next.f = World.f
    BY <1>3, <1>4, <1>9
  <2>2. Unhosted(v, said)
    BY <1>9, <1>11, <1>12, <2>1, LaidStays
  <2> QED
    BY <1>1, <2>2
<1>13. ASSUME Unhosted(World, said) PROVE Laid(next.th, next.r.posted, next.r.all, i)
  <2>1. Laid(World.th, World.r.posted, World.r.all, World.j.part)
    BY <1>3, <1>4, <1>13 DEF Unhosted
  <2> QED
    BY <1>3, <1>9, <2>1
<1>14. w \in Worlds /\ w.f.count >= faults.count
  <2>1. CASE known /\ reply.posted[i].shown = part
    BY <1>2, <1>3, <1>9, <2>1
  <2>2. CASE known /\ reply.posted[i].shown # part
    <3>1. PICK c \in Called(next, UpdateMessage(thread, reply.posted[i].at, part)) : w = Shown2(c)
      BY <1>2, <2>2
    <3>2. reply.posted[i].at \in DOMAIN thread /\ thread[reply.posted[i].at].kind = "post"
      BY <1>3, <2>2 DEF Shaped
    <3> DEFINE an == UpdateMessage(thread, reply.posted[i].at, part)
    <3>3. an \in Answers
      BY <1>3, <1>10, <3>2, UpdateAnswer
    <3> HIDE DEF an
    <3>4. c \in Worlds /\ c.r = reply /\ c.f.count >= faults.count
      <4>1. c \in Called(next, an)
        BY <3>1 DEF an
      <4> QED
        BY <1>9, <3>3, <4>1, CalledWell
    <3>5. CASE c.said = "ok"
      <4>1. w = Reshown(c, i, part)
        BY <3>1, <3>5
      <4>2. i \in DOMAIN c.r.posted
        BY <2>2, <3>4
      <4> HIDE DEF part
      <4>3. PICK posted \in Seq(Post) : PostedAs(c, Reshown(c, i, part), posted)
        BY <1>10, <3>4, <4>2, ReshownFacts
      <4> QED
        BY <3>4, <4>1, <4>3 DEF PostedAs
    <3>6. CASE c.said # "ok"
      BY <3>1, <3>4, <3>6
    <3> QED
      BY <3>5, <3>6
  <2>3. CASE ~known
    <3>1. PICK c \in Called(next, PostMessage(thread, "post", part)) : w = Added(c)
      BY <1>2, <2>3
    <3> DEFINE an == PostMessage(thread, "post", part)
    <3>3. an \in Answers
      BY <1>3, <1>10, PostAnswer
    <3> HIDE DEF an
    <3>4. c \in Worlds /\ c.f.count >= faults.count
      <4>1. c \in Called(next, an)
        BY <3>1 DEF an
      <4> QED
        BY <1>9, <3>3, <4>1, CalledWell
    <3>5. CASE c.said = "ok"
      <4>1. w = ShownToo(c, part)
        BY <3>1, <3>5
      <4> HIDE DEF part
      <4>3. PICK posted \in Seq(Post) : PostedAs(c, ShownToo(c, part), posted)
        BY <1>10, <3>4, ShownTooFacts
      <4> QED
        BY <3>4, <4>1, <4>3 DEF PostedAs
    <3>6. CASE c.said # "ok"
      <4>1. w = TurnTo(c, 0) /\ 0 \in Nat
        BY <3>1, <3>6
      <4> QED
        BY <3>4, <4>1, TurnToFacts
    <3> QED
      BY <3>5, <3>6
  <2> QED
    BY <2>1, <2>2, <2>3
<1>15. ASSUME ~hosts, faults.count = 0, w.f.count = 0, Unhosted(World, said)
       PROVE  Unhosted(w, said')
  <2>1. CASE known /\ reply.posted[i].shown = part
    <3>1. Laid(World.th, World.r.posted, World.r.all, i)
      BY <1>3, <1>9, <1>13, <1>15
    <3>2. Laid(thread, reply.posted, reply.all, NextOf(i, reply.all))
      BY <1>3, <1>5, <1>7, <2>1, <3>1, LaidPasses
    <3>3. w = next /\ Left(w, said) = Left(next, said)
      BY <1>2, <2>1
    <3>4. StaysLaid(next, w, said)
      BY <1>9, <3>2, <3>3 DEF StaysLaid
    <3> QED
      BY <1>12, <1>15, <3>4
  <2>2. CASE known /\ reply.posted[i].shown # part
    <3>1. PICK c \in Called(next, UpdateMessage(thread, reply.posted[i].at, part)) : w = Shown2(c)
      BY <1>2, <2>2
    <3>2. /\ i \in DOMAIN next.r.posted /\ i \in 1 .. Len(Parts(next.r.all))
          /\ next.r.posted[i].shown # Parts(next.r.all)[i]
          /\ next.j.part = NextOf(i, next.r.all)
          /\ c \in Called(next, UpdateMessage(next.th, next.r.posted[i].at, Parts(next.r.all)[i]))
          /\ part = Parts(next.r.all)[i]
      BY <1>7, <1>9, <2>2, <3>1
    <3>3. c.f.count = 0
      <4> DEFINE an == UpdateMessage(thread, reply.posted[i].at, part)
      <4>1. reply.posted[i].at \in DOMAIN thread /\ thread[reply.posted[i].at].kind = "post"
        BY <1>3, <2>2 DEF Shaped
      <4>2. an \in Answers
        BY <1>3, <1>10, <4>1, UpdateAnswer
      <4> HIDE DEF an
      <4>3. c \in Called(next, an)
        BY <3>1 DEF an
      <4>4. c \in Worlds /\ c.r = reply
        BY <1>9, <4>2, <4>3, CalledWell
      <4>5. CASE c.said = "ok"
        <5>1. w = Reshown(c, i, part) /\ i \in DOMAIN c.r.posted
          BY <2>2, <3>1, <4>4, <4>5
        <5> HIDE DEF part
        <5>2. PICK posted \in Seq(Post) : PostedAs(c, Reshown(c, i, part), posted)
          BY <1>10, <4>4, <5>1, ReshownFacts
        <5> QED
          BY <1>15, <5>1, <5>2 DEF PostedAs
      <4>6. CASE c.said # "ok"
        BY <1>15, <3>1, <4>6
      <4> QED
        BY <4>5, <4>6
    <3>4. Laid(next.th, next.r.posted, next.r.all, i)
      BY <1>13, <1>15
    <3>5. StaysLaid(next, IF c.said = "ok" THEN Reshown(c, i, Parts(next.r.all)[i]) ELSE c, said)
      BY <1>9, <3>2, <3>3, <3>4, UpdateUnhosted
    <3>6. StaysLaid(next, w, said)
      BY <3>1, <3>2, <3>5
    <3> QED
      BY <1>12, <1>15, <3>6
  <2>3. CASE ~known
    <3>1. PICK c \in Called(next, PostMessage(thread, "post", part)) : w = Added(c)
      BY <1>2, <2>3
    <3>2. /\ i \in 1 .. Len(Parts(next.r.all)) /\ i \notin DOMAIN next.r.posted
          /\ next.j.part = NextOf(i, next.r.all)
          /\ c \in Called(next, PostMessage(next.th, "post", Parts(next.r.all)[i]))
          /\ part = Parts(next.r.all)[i]
      BY <1>7, <1>9, <2>3, <3>1
    <3>3. c.f.count = 0
      <4> DEFINE an == PostMessage(thread, "post", part)
      <4>2. an \in Answers
        BY <1>3, <1>10, PostAnswer
      <4> HIDE DEF an
      <4>3. c \in Called(next, an)
        BY <3>1 DEF an
      <4>4. c \in Worlds
        BY <1>9, <4>2, <4>3, CalledWell
      <4>5. CASE c.said = "ok"
        <5>1. w = ShownToo(c, part)
          BY <3>1, <4>5
        <5> HIDE DEF part
        <5>2. PICK posted \in Seq(Post) : PostedAs(c, ShownToo(c, part), posted)
          BY <1>10, <4>4, ShownTooFacts
        <5> QED
          BY <1>15, <5>1, <5>2 DEF PostedAs
      <4>6. CASE c.said # "ok"
        <5>1. w = TurnTo(c, 0) /\ 0 \in Nat
          BY <3>1, <4>6
        <5> QED
          BY <1>15, <4>4, <5>1, TurnToFacts
      <4> QED
        BY <4>5, <4>6
    <3>4. Laid(next.th, next.r.posted, next.r.all, i)
      BY <1>13, <1>15
    <3>5. StaysLaid(next, IF c.said = "ok" THEN ShownToo(c, Parts(next.r.all)[i]) ELSE TurnTo(c, 0), said)
      BY <1>9, <3>2, <3>3, <3>4, PostUnhosted
    <3>6. StaysLaid(next, w, said)
      BY <3>1, <3>2, <3>5
    <3> QED
      BY <1>12, <1>15, <3>6
  <2> QED
    BY <2>1, <2>2, <2>3
<1>16. Becomes(w)
  BY <1>2
<1>17. ~hosts /\ faults.count = 0 /\ w.f.count = 0 /\ Unhosted(World, said) => Unhosted(w, said')
  BY <1>15
<1> QED
  BY <1>1, <1>3, <1>14, <1>16, <1>17, StaysUnhosted

LEMMA PlacedSilent ==
  ASSUME NEW x \in Worlds, NEW k \in Tools,
         NEW v \in Called(x, PostMessage(x.th, "placed", <<k>>))
  PROVE  /\ v \in Worlds /\ v.r = x.r /\ v.j = x.j /\ Silent(x.th, v.th)
         /\ v.f.cut = x.f.cut /\ v.f.count >= x.f.count
<1>1. /\ v \in Worlds /\ v.r = x.r /\ v.j = x.j /\ Worse(x.f, v.f)
      /\ v.said = "ok" => v.th = Append(x.th, Placing(k))
      /\ v.said # "ok" /\ v.th # x.th => v.th = Append(x.th, Placing(k))
  BY PlacedCall
<1>2. x.th \in Thread
  BY WorldParts
<1> DEFINE th  == x.th
           th2 == Append(th, Placing(k))
<1>3. /\ Len(th) \in Nat /\ DOMAIN th2 = 1 .. Len(th) + 1
      /\ DOMAIN th = 1 .. Len(th)
      /\ \A j \in DOMAIN th : th2[j] = th[j]
      /\ th2[Len(th) + 1] = Placing(k)
      /\ SaidIn(Placing(k)) = {}
  BY <1>2, PlacingFacts
<1>4. v.th = th \/ v.th = th2
  BY <1>1
<1> HIDE DEF th2, th
<1>5. Silent(th, th2)
  <2>1. DOMAIN th \subseteq DOMAIN th2
    BY <1>3
  <2>2. \A i \in DOMAIN th2 \ DOMAIN th : i = Len(th) + 1
    BY <1>3
  <2>3. \A i \in DOMAIN th2 \ DOMAIN th : SaidIn(th2[i]) = {}
    BY <1>3, <2>2
  <2> QED
    BY <1>3, <2>1, <2>3 DEF Silent
<1>6. Silent(th, v.th)
  BY <1>4, <1>5, SilentSame
<1> QED
  BY <1>1, <1>6 DEF Worse, th

LEMMA PlacesUnhosted ==
  ASSUME IInv, NowUnhosted, NEW k \in Tools, Places(k)
  PROVE  NowUnhosted'
<1> DEFINE x == Resting(World)
<1>1. /\ job.rest = <<>> /\ job.part = 0
      /\ script' = script /\ hosts' = hosts /\ said' = said
  BY DEF Places, At
<1>2. PICK v \in Called(x, PostMessage(thread, "placed", <<k>>)) :
        Becomes(IF v.said = "ok" THEN Landed(v) ELSE v)
  BY DEF Places, Resting, Landed
<1>3. /\ World \in Worlds
      /\ World.th = thread /\ World.r = reply /\ World.j = job /\ World.f = faults
  BY WorldNow
<1>4. /\ x \in Worlds /\ x.th = thread /\ x.r = reply /\ x.f = faults
      /\ x.j.rest = <<>> /\ x.j.part = 0
  BY <1>3, RestingFacts
<1> HIDE DEF x
<1>5. v \in Called(x, PostMessage(x.th, "placed", <<k>>))
  BY <1>2, <1>4
<1>6. /\ v \in Worlds /\ v.r = reply /\ v.j = x.j /\ Silent(thread, v.th)
      /\ v.f.cut = faults.cut /\ v.f.count >= faults.count
  BY <1>4, <1>5, PlacedSilent
<1> DEFINE u == IF v.said = "ok" THEN Landed(v) ELSE v
<1>7. /\ u \in Worlds /\ u.th = v.th /\ u.j = v.j /\ u.f = v.f
      /\ u.r.mode = v.r.mode /\ u.r.pending = v.r.pending /\ u.r.all = v.r.all
      /\ u.r.posted = v.r.posted
  BY <1>6, LandedFacts
<1>8. Becomes(u)
  BY <1>2
<1> HIDE DEF u
<1> QED
  BY <1>1, <1>4, <1>6, <1>7, <1>8, QuietlyUnhosted

LEMMA DirectUnhosted ==
  ASSUME IInv, NowUnhosted, NEW k \in Tools, PostsDirectly(k)
  PROVE  NowUnhosted'
<1>1. script' = script /\ hosts' = hosts /\ said' = said
  BY DEF PostsDirectly
<1>2. PICK v \in Called(World, PostMessage(thread, "placed", <<k>>)) : Becomes(v)
  BY DEF PostsDirectly
<1>3. /\ World \in Worlds
      /\ World.th = thread /\ World.r = reply /\ World.j = job /\ World.f = faults
  BY WorldNow
<1>4. v \in Called(World, PostMessage(World.th, "placed", <<k>>))
  BY <1>2, <1>3
<1>5. /\ v \in Worlds /\ v.r = reply /\ v.j = job /\ Silent(thread, v.th)
      /\ v.f.cut = faults.cut /\ v.f.count >= faults.count
  BY <1>3, <1>4, PlacedSilent
<1> QED
  BY <1>1, <1>2, <1>5, QuietlyUnhosted

LEMMA InitUnhosted ==
  ASSUME Init
  PROVE  NowUnhosted
<1>1. /\ said = 0 /\ thread = <<>> /\ reply = NewReply /\ job = Reading
      /\ faults = [count |-> 0, lost |-> FALSE, ends |-> 0, cut |-> FALSE]
  BY DEF Init
<1>2. reply.mode = "streaming" /\ reply.pending = <<>> /\ DOMAIN thread = {} /\ ~faults.cut
  BY <1>1, Empties DEF NewReply
<1>3. job.rest = <<>>
  BY <1>1, ReadingTyped
<1>4. World.th = thread /\ World.r = reply /\ World.j = job /\ World.f = faults
  BY WorldIs
<1>5. Left(World, said) = 0
  BY <1>1, <1>2, <1>3, <1>4, Empties DEF Left
<1> QED
  BY <1>2, <1>4, <1>5 DEF NowUnhosted, Unhosted

(* No step brings streams to the surface or takes them away. *)
LEMMA SurfaceStays ==
  ASSUME [Next]_vars
  PROVE  hosts' = hosts
<1>1. CASE UNCHANGED vars
  BY <1>1 DEF vars
<1>2. CASE Next
  BY <1>2 DEF Next, Says, FlushDue, Reports, Asks, Paint, Repost, Breaks, Draws, Takes, Places,
     PostsDirectly, StreamEnds, Finishes, Finalizes
<1> QED
  BY <1>1, <1>2

LEMMA NextUnhosted ==
  ASSUME IInv, NowUnhosted, [Next]_vars
  PROVE  NowUnhosted'
<1>1. CASE hosts
  <2>1. hosts' = hosts
    BY SurfaceStays
  <2> QED
    BY <1>1, <2>1 DEF NowUnhosted
<1>2. CASE ~hosts /\ UNCHANGED vars
  <2>1. /\ script' = script /\ hosts' = hosts /\ said' = said
        /\ thread' = thread /\ reply' = reply /\ job' = job /\ faults' = faults
    BY <1>2 DEF vars
  <2> QED
    BY <2>1, StillUnhosted
<1>3. CASE ~hosts /\ Next
  <2>1. ASSUME NEW n \in 1 .. Len(script), Says(n) PROVE NowUnhosted'
    BY <2>1, SaysUnhosted
  <2>2. CASE FlushDue
    BY <2>2, FlushUnhosted
  <2>3. ASSUME NEW t \in Tasks, NEW status \in Statuses, Reports(t, status) PROVE NowUnhosted'
    BY <2>3, ReportsUnhosted
  <2>4. ASSUME NEW k \in Tools, Asks(k) PROVE NowUnhosted'
    <3>1. /\ script' = script /\ hosts' = hosts /\ said' = said
          /\ thread' = thread /\ reply' = reply /\ job' = job /\ faults' = faults
      BY <2>4 DEF Asks
    <3> QED
      BY <3>1, StillUnhosted
  <2>5. CASE Paint
    BY <1>3, <2>5, PaintUnhosted
  <2>6. CASE Repost
    BY <2>6, RepostUnhosted
  <2>7. CASE Breaks
    BY <2>7, BreaksUnhosted
  <2>8. ASSUME NEW t \in Tasks, Draws(t) PROVE NowUnhosted'
    BY <1>3, <2>8, DrawsUnhosted
  <2>9. CASE Takes
    BY <2>9, TakesUnhosted
  <2>10. ASSUME NEW k \in Tools, Places(k) \/ PostsDirectly(k) PROVE NowUnhosted'
    BY <2>10, PlacesUnhosted, DirectUnhosted
  <2>11. CASE StreamEnds
    BY <2>11, EndsUnhosted
  <2>12. CASE Finishes
    BY <1>3, <2>12, FinishesUnhosted
  <2>13. ASSUME NEW i \in DOMAIN thread, Finalizes(i) PROVE NowUnhosted'
    BY <2>13, FinalizesUnhosted
  <2> QED
    BY <1>3, <2>1, <2>2, <2>3, <2>4, <2>5, <2>6, <2>7, <2>8, <2>9, <2>10, <2>11, <2>12, <2>13 DEF Next
<1> QED
  BY <1>1, <1>2, <1>3

LEMMA InvUnhosted ==
  ASSUME IInv, NowUnhosted, ~hosts
  PROVE  InOrder /\ EverythingSaid
<1>1. /\ Good(hosts, World, said, tool) /\ Steady(World) /\ faults \in FaultsSet
      /\ World \in Worlds
      /\ World.th = thread /\ World.r = reply /\ World.j = job /\ World.f = faults
  BY WorldNow
<1>2. faults.count \in Nat
  BY <1>1, Bounds DEF FaultsSet
<1>3. faults.count = 0 => Unhosted(World, said)
  BY DEF NowUnhosted
<1>4. InOrder
  <2>1. CASE faults.count = 0
    <3>1. Ordered(thread)
      <4>1. CASE reply.mode = "streaming"
        <5>1. \A i \in DOMAIN thread : SaidIn(thread[i]) = {}
          BY <1>1, <1>3, <2>1, <4>1 DEF Unhosted
        <5> QED
          BY <5>1, NothingSaidYet
      <4>2. CASE reply.mode # "streaming"
        <5>1. Laid(thread, reply.posted, reply.all, job.part)
          BY <1>1, <1>3, <2>1, <4>2 DEF Unhosted
        <5> QED
          BY <5>1 DEF Laid
      <4> QED
        BY <4>1, <4>2
    <3> QED
      BY <3>1 DEF Ordered, InOrder
  <2>2. CASE faults.count # 0
    BY <1>2, <2>2 DEF InOrder, WentWrong
  <2> QED
    BY <2>1, <2>2
<1>5. ASSUME Ended, ~WentWrong, ~faults.cut PROVE Whole
  <2>1. Unhosted(World, said)
    BY <1>2, <1>3, <1>5 DEF WentWrong
  <2>2. job.rest = <<>> /\ job.part = 0 /\ reply.pending = <<>> /\ said \in Nat
    BY <1>1, <1>5, SaidNat DEF Good, Shaped, Steady, Ended
  <2>3. Left(World, said) = said
    BY <1>1, <2>2, Empties DEF Left
  <2>4. CASE reply.mode = "streaming"
    <3>1. said = 0
      BY <1>1, <2>1, <2>3, <2>4 DEF Unhosted
    <3> QED
      BY <3>1 DEF Whole
  <2>5. CASE reply.mode # "streaming"
    <3>1. Laid(thread, reply.posted, reply.all, 0) /\ Has(thread, reply.posted, reply.all, said)
      BY <1>1, <1>5, <2>1, <2>2, <2>3, <2>5 DEF Unhosted
    <3>2. thread \in Thread /\ reply.posted \in Seq(Post) /\ reply.all \in Seq(Int)
      BY <1>1, WorldTexts
    <3>3. Shown(thread, said)
      BY <3>1, <3>2, LaidShown
    <3>4. ASSUME NEW u \in 1 .. said, script[u] # "nl" PROVE \E i \in DOMAIN thread : u \in UnitsOf(thread[i])
      <4>1. u > 0
        BY <2>2
      <4>2. KindOf(u) # "nl"
        BY <3>4, <4>1 DEF KindOf, NL, MARK
      <4> QED
        BY <3>3, <4>2 DEF Shown
    <3> QED
      BY <3>4 DEF Whole
  <2> QED
    BY <2>4, <2>5
<1> QED
  BY <1>4, <1>5 DEF EverythingSaid

LEMMA WholeInvariant == Spec => [](IInv /\ OnceNow /\ NowUnhosted)
<1>1. Init => IInv /\ OnceNow /\ NowUnhosted
  BY InitSound, InitUnhosted
<1>2. (IInv /\ OnceNow /\ NowUnhosted) /\ [Next]_vars => (IInv /\ OnceNow /\ NowUnhosted)'
  BY NextKeeps, NextUnhosted
<1> QED
  BY <1>1, <1>2, PTL DEF Spec

(* What the agent said is read in the thread as it said it, on a surface   *)
(* with streams and on one without: in order and once whatever calls fail, *)
(* and all of it, but for newlines at a seam, if none does and the first   *)
(* words are not cut (`paint`, `append`, `rollover` and `repost` of        *)
(* reply.rs, `split` of render.rs).                                        *)
THEOREM ReadsAsItSaid == Spec => []ReadsAsSaid
<1>1. IInv /\ OnceNow /\ NowUnhosted => ReadsAsSaid
  BY InvType, InvReadsAsSaid, InvUnhosted DEF ReadsAsSaid
<1> QED
  BY <1>1, WholeInvariant, PTL

----------------------------------------------------------------------------
(* Each message stands alone: its stream is ended, its fences are closed,  *)
(* and a tool's newest list tells how the tool ended.  While no call has   *)
(* failed, what the reply holds of its stream - what is spent, the fence,  *)
(* where in a line it stands - is what the stream's text gives, and only   *)
(* the card of the tool at hand is behind the lists that are drawn.        *)

----------------------------------------------------------------------------
(* How a fence is read over a text that goes on *)

NoFence == [fenced |-> FALSE, partial |-> "empty"]

Steps(a, fence, text) ==
  /\ a[0] = fence
  /\ \A n \in 1 .. Len(text) : a[n] = Consume(a[n - 1], text[n])

LEMMA RunSteps ==
  ASSUME NEW fence, NEW text \in Seq(Int), NEW a, Run(a, fence, text)
  PROVE  Steps(a, fence, text)
<1>1. a = [n \in 0 .. Len(text) |-> IF n = 0 THEN fence ELSE Consume(a[n - 1], text[n])]
  BY DEF Run
<1>2. a[0] = fence
  BY <1>1
<1>3. ASSUME NEW n \in 1 .. Len(text) PROVE a[n] = Consume(a[n - 1], text[n])
  <2>1. n \in 0 .. Len(text) /\ n # 0
    OBVIOUS
  <2> QED
    BY <1>1, <2>1
<1> QED
  BY <1>2, <1>3 DEF Steps

LEMMA ConsumedSteps ==
  ASSUME NEW fence, NEW text \in Seq(Int)
  PROVE  \E a : Steps(a, fence, text) /\ Consumed(fence, text) = a[Len(text)]
<1>1. PICK a : Run(a, fence, text) /\ Consumed(fence, text) = a[Len(text)]
  BY ConsumedRun
<1>2. Steps(a, fence, text)
  BY <1>1, RunSteps
<1> QED
  BY <1>1, <1>2

(* Two texts are read as one.                                              *)
LEMMA ConsumedOn ==
  ASSUME NEW fence, NEW s \in Seq(Int), NEW t \in Seq(Int)
  PROVE  Consumed(fence, s \o t) = Consumed(Consumed(fence, s), t)
<1> DEFINE st  == s \o t
           mid == Consumed(fence, s)
<1>1. /\ st \in Seq(Int) /\ Len(st) = Len(s) + Len(t) /\ Len(s) \in Nat /\ Len(t) \in Nat
      /\ \A n \in 1 .. Len(s) : st[n] = s[n]
      /\ \A n \in 1 .. Len(t) : st[Len(s) + n] = t[n]
  OBVIOUS
<1> HIDE DEF st
<1>2. PICK a : Steps(a, fence, s) /\ mid = a[Len(s)]
  BY ConsumedSteps
<1> HIDE DEF mid
<1>3. PICK b : Steps(b, mid, t) /\ Consumed(mid, t) = b[Len(t)]
  BY ConsumedSteps
<1>4. PICK c : Steps(c, fence, st) /\ Consumed(fence, st) = c[Len(st)]
  BY <1>1, ConsumedSteps
<1>5. /\ a[0] = fence /\ \A n \in 1 .. Len(s) : a[n] = Consume(a[n - 1], s[n])
      /\ b[0] = mid /\ \A n \in 1 .. Len(t) : b[n] = Consume(b[n - 1], t[n])
      /\ c[0] = fence /\ \A n \in 1 .. Len(st) : c[n] = Consume(c[n - 1], st[n])
  BY <1>2, <1>3, <1>4 DEF Steps
<1> DEFINE First == {n \in Nat : n <= Len(s) => c[n] = a[n]}
           Then  == {n \in Nat : n <= Len(t) => c[Len(s) + n] = b[n]}
<1>6. First = Nat
  <2>1. 0 \in First
    BY <1>5
  <2>2. ASSUME NEW n \in Nat, n \in First PROVE n + 1 \in First
    <3> SUFFICES ASSUME n + 1 <= Len(s) PROVE c[n + 1] = a[n + 1]
      OBVIOUS
    <3>1. c[n] = a[n]
      BY <1>1, <2>2
    <3>2. n + 1 \in 1 .. Len(s) /\ n + 1 \in 1 .. Len(st) /\ (n + 1) - 1 = n
      BY <1>1
    <3>3. c[n + 1] = Consume(c[n], st[n + 1]) /\ a[n + 1] = Consume(a[n], s[n + 1])
          /\ st[n + 1] = s[n + 1]
      BY <1>1, <1>5, <3>2
    <3> QED
      BY <3>1, <3>3
  <2>3. First \in SUBSET Nat
    OBVIOUS
  <2> HIDE DEF First
  <2> QED
    BY <2>1, <2>2, <2>3, Induct
<1>7. c[Len(s)] = mid
  <2>1. Len(s) \in First
    BY <1>1, <1>6
  <2> QED
    BY <1>1, <1>2, <2>1
<1>8. Then = Nat
  <2>1. 0 \in Then
    BY <1>1, <1>5, <1>7
  <2>2. ASSUME NEW n \in Nat, n \in Then PROVE n + 1 \in Then
    <3> SUFFICES ASSUME n + 1 <= Len(t) PROVE c[Len(s) + (n + 1)] = b[n + 1]
      OBVIOUS
    <3>1. c[Len(s) + n] = b[n]
      BY <1>1, <2>2
    <3>2. n + 1 \in 1 .. Len(t) /\ Len(s) + (n + 1) \in 1 .. Len(st) /\ (n + 1) - 1 = n
          /\ (Len(s) + (n + 1)) - 1 = Len(s) + n
      BY <1>1
    <3>3. c[Len(s) + (n + 1)] = Consume(c[Len(s) + n], st[Len(s) + (n + 1)])
          /\ b[n + 1] = Consume(b[n], t[n + 1]) /\ st[Len(s) + (n + 1)] = t[n + 1]
      BY <1>1, <1>5, <3>2
    <3> QED
      BY <3>1, <3>3
  <2>3. Then \in SUBSET Nat
    OBVIOUS
  <2> HIDE DEF Then
  <2> QED
    BY <2>1, <2>2, <2>3, Induct
<1>9. c[Len(st)] = b[Len(t)]
  <2>1. Len(t) \in Then
    BY <1>1, <1>8
  <2>2. c[Len(s) + Len(t)] = b[Len(t)]
    BY <1>1, <2>1
  <2> QED
    BY <1>1, <2>2
<1> QED
  BY <1>3, <1>4, <1>9 DEF st, mid

LEMMA ConsumedNone == \A fence : Consumed(fence, <<>>) = fence
<1> TAKE fence
<1>1. <<>> \in Seq(Int) /\ Len(<<>>) = 0
  BY Empties
<1>2. PICK a : Steps(a, fence, <<>>) /\ Consumed(fence, <<>>) = a[Len(<<>>)]
  BY <1>1, ConsumedSteps
<1> QED
  BY <1>2 DEF Steps

LEMMA ConsumedFirst ==
  ASSUME NEW fence, NEW text \in Seq(Int), Len(text) = 1
  PROVE  Consumed(fence, text) = Consume(fence, text[1])
<1>1. PICK a : Steps(a, fence, text) /\ Consumed(fence, text) = a[Len(text)]
  BY ConsumedSteps
<1>2. a[0] = fence /\ \A n \in 1 .. Len(text) : a[n] = Consume(a[n - 1], text[n])
  BY <1>1 DEF Steps
<1>3. 1 \in 1 .. Len(text) /\ 1 - 1 = 0
  OBVIOUS
<1>4. a[1] = Consume(a[0], text[1])
  BY <1>2, <1>3
<1> QED
  BY <1>1, <1>2, <1>4

LEMMA OwnKinds == KindOf(NL) = "nl" /\ KindOf(MARK) = "mark"
BY DEF KindOf, NL, MARK

(* The opener opens a fence.                                               *)
LEMMA OpenerOpens == Consumed(NoFence, Opener) = [fenced |-> TRUE, partial |-> "empty"]
<1>1. Opener \in Seq(Int) /\ Len(Opener) = 2 /\ Opener[1] = MARK /\ Opener[2] = NL
  BY DEF Opener, MARK, NL
<1>2. PICK a : Steps(a, NoFence, Opener) /\ Consumed(NoFence, Opener) = a[Len(Opener)]
  BY <1>1, ConsumedSteps
<1>3. a[0] = NoFence /\ \A n \in 1 .. Len(Opener) : a[n] = Consume(a[n - 1], Opener[n])
  BY <1>2 DEF Steps
<1>4. a[1] = Consume(NoFence, MARK) /\ a[2] = Consume(a[1], NL)
  <2>1. 1 \in 1 .. Len(Opener) /\ 2 \in 1 .. Len(Opener) /\ 1 - 1 = 0 /\ 2 - 1 = 1
    BY <1>1
  <2> QED
    BY <1>1, <1>3, <2>1
<1>5. Consume(NoFence, MARK) = [fenced |-> FALSE, partial |-> "mark"]
  BY OwnKinds DEF Consume, NoFence
<1>6. Consume([fenced |-> FALSE, partial |-> "mark"], NL) = [fenced |-> TRUE, partial |-> "empty"]
  BY OwnKinds DEF Consume
<1> QED
  BY <1>1, <1>2, <1>4, <1>5, <1>6

(* The closer closes one, unless it stands in a line that does.            *)
LEMMA CloserCloses ==
  ASSUME NEW fence \in FenceSet, fence.fenced, fence.partial # "mark"
  PROVE  ~Consumed(fence, Closer).fenced
<1>1. Closer \in Seq(Int) /\ Len(Closer) = 3 /\ Closer[1] = NL /\ Closer[2] = MARK /\ Closer[3] = NL
  BY DEF Closer, MARK, NL
<1>2. PICK a : Steps(a, fence, Closer) /\ Consumed(fence, Closer) = a[Len(Closer)]
  BY <1>1, ConsumedSteps
<1>3. a[0] = fence /\ \A n \in 1 .. Len(Closer) : a[n] = Consume(a[n - 1], Closer[n])
  BY <1>2 DEF Steps
<1>4. a[1] = Consume(fence, NL) /\ a[2] = Consume(a[1], MARK) /\ a[3] = Consume(a[2], NL)
  <2>1. 1 \in 1 .. Len(Closer) /\ 2 \in 1 .. Len(Closer) /\ 3 \in 1 .. Len(Closer)
        /\ 1 - 1 = 0 /\ 2 - 1 = 1 /\ 3 - 1 = 2
    BY <1>1
  <2> QED
    BY <1>1, <1>3, <2>1
<1>5. Consume(fence, NL) = [fenced |-> TRUE, partial |-> "empty"]
  <2>1. Consume(fence, NL) = [fenced |-> (fence.partial = "mark") # fence.fenced, partial |-> "empty"]
    BY OwnKinds DEF Consume
  <2>2. fence.fenced \in BOOLEAN
    BY DEF FenceSet
  <2>3. ((fence.partial = "mark") # fence.fenced) = TRUE
    BY <2>2
  <2> QED
    BY <2>1, <2>3
<1>6. Consume([fenced |-> TRUE, partial |-> "empty"], MARK) = [fenced |-> TRUE, partial |-> "mark"]
  BY OwnKinds DEF Consume
<1>7. Consume([fenced |-> TRUE, partial |-> "mark"], NL) = [fenced |-> FALSE, partial |-> "empty"]
  BY OwnKinds DEF Consume
<1> QED
  BY <1>1, <1>2, <1>4, <1>5, <1>6, <1>7

(* No fence is opened in less than a line.                                 *)
LEMMA FencedLong ==
  ASSUME NEW text \in Seq(Int), Len(text) < 2
  PROVE  Consumed(NoFence, text).fenced = FALSE
<1>0. Len(text) = 0 \/ Len(text) = 1
  <2>1. Len(text) \in Nat /\ Len(text) < 2
    OBVIOUS
  <2>2. \A n \in Nat : n < 2 => n = 0 \/ n = 1
    OBVIOUS
  <2> QED
    BY <2>1, <2>2
<1>1. CASE Len(text) = 0
  <2>1. text = <<>>
    BY <1>1
  <2> QED
    BY <2>1, ConsumedNone DEF NoFence
<1>2. CASE Len(text) = 1
  <2>1. Consumed(NoFence, text) = Consume(NoFence, text[1])
    BY <1>2, ConsumedFirst
  <2>2. Consume(NoFence, text[1]).fenced = FALSE
    <3>1. CASE KindOf(text[1]) = "nl"
      BY <3>1 DEF Consume, NoFence
    <3>2. CASE KindOf(text[1]) # "nl"
      BY <3>2 DEF Consume, NoFence
    <3> QED
      BY <3>1, <3>2
  <2> QED
    BY <2>1, <2>2
<1> QED
  BY <1>0, <1>1, <1>2

(* A line that starts with a marker, when it is the last of a text: it     *)
(* starts in the text, or the text stays in the line.                      *)
LastMark(text, p) ==
  /\ p \in 1 .. Len(text) /\ KindOf(text[p]) = "mark"
  /\ \A q \in 1 .. Len(text) : q > p => KindOf(text[q]) # "nl"

LEMMA MarkLine ==
  ASSUME NEW fence \in FenceSet, NEW text \in Seq(Int), Consumed(fence, text).partial = "mark"
  PROVE  \/ fence.partial = "mark" /\ \A q \in 1 .. Len(text) : KindOf(text[q]) # "nl"
         \/ \E p \in 1 .. Len(text) : LastMark(text, p)
<1>1. PICK a : Steps(a, fence, text) /\ Consumed(fence, text) = a[Len(text)]
  BY ConsumedSteps
<1>2. a[0] = fence /\ \A n \in 1 .. Len(text) : a[n] = Consume(a[n - 1], text[n])
  BY <1>1 DEF Steps
<1> DEFINE Lined(n) == \/ fence.partial = "mark" /\ \A q \in 1 .. n : KindOf(text[q]) # "nl"
                       \/ \E p \in 1 .. n : /\ KindOf(text[p]) = "mark"
                                            /\ \A q \in 1 .. n : q > p => KindOf(text[q]) # "nl"
           Holds == {n \in Nat : n <= Len(text) => a[n] \in FenceSet /\ (a[n].partial = "mark" => Lined(n))}
<1>3. 0 \in Holds
  BY <1>2
<1>4. ASSUME NEW n \in Nat, n \in Holds PROVE n + 1 \in Holds
  <2>0. n <= Len(text) => a[n] \in FenceSet /\ (a[n].partial = "mark" => Lined(n))
    BY <1>4
  <2>2. ASSUME n + 1 <= Len(text) PROVE a[n + 1] = Consume(a[n], text[n + 1]) /\ a[n + 1] \in FenceSet
    <3>1. n + 1 \in 1 .. Len(text) /\ (n + 1) - 1 = n /\ n <= Len(text)
      BY <2>2
    <3>2. a[n + 1] = Consume(a[n], text[n + 1])
      BY <1>2, <3>1
    <3> HIDE DEF Lined
    <3> QED
      BY <2>0, <3>1, <3>2, ConsumeTyped
  <2>1. ASSUME n + 1 <= Len(text), a[n + 1].partial = "mark" PROVE Lined(n + 1)
    <3>1. a[n + 1] = Consume(a[n], text[n + 1]) /\ n <= Len(text) /\ a[n] \in FenceSet
      <4> HIDE DEF Lined
      <4> QED
        BY <2>0, <2>1, <2>2
    <3>2. KindOf(text[n + 1]) # "nl"
      <4> SUFFICES ASSUME KindOf(text[n + 1]) = "nl" PROVE FALSE
        OBVIOUS
      <4>1. Consume(a[n], text[n + 1]).partial = "empty"
        BY DEF Consume
      <4> QED
        BY <2>1, <3>1, <4>1
    <3>3. CASE a[n].partial = "empty"
      <4>1. Consume(a[n], text[n + 1]) = [a[n] EXCEPT !.partial = IF KindOf(text[n + 1]) = "mark" THEN "mark" ELSE "plain"]
        BY <3>2, <3>3 DEF Consume
      <4>2. KindOf(text[n + 1]) = "mark"
        <5> SUFFICES ASSUME KindOf(text[n + 1]) # "mark" PROVE FALSE
          OBVIOUS
        <5>1. a[n + 1] = [a[n] EXCEPT !.partial = "plain"]
          BY <3>1, <4>1
        <5>2. a[n + 1].partial = "plain"
          BY <3>1, <5>1 DEF FenceSet
        <5> QED
          BY <2>1, <5>2
      <4>3. n + 1 \in 1 .. n + 1 /\ \A q \in 1 .. n + 1 : q > n + 1 => FALSE
        OBVIOUS
      <4> QED
        BY <4>2, <4>3
    <3>4. CASE a[n].partial # "empty"
      <4>1. a[n + 1] = a[n]
        BY <3>1, <3>2, <3>4 DEF Consume
      <4>2. Lined(n)
        BY <2>0, <2>1, <4>1
      <4>3. \A q \in 1 .. n + 1 : q \in 1 .. n \/ q = n + 1
        OBVIOUS
      <4>4. CASE fence.partial = "mark" /\ \A q \in 1 .. n : KindOf(text[q]) # "nl"
        BY <3>2, <4>3, <4>4
      <4>5. CASE \E p \in 1 .. n : /\ KindOf(text[p]) = "mark"
                                   /\ \A q \in 1 .. n : q > p => KindOf(text[q]) # "nl"
        <5>1. PICK p \in 1 .. n : /\ KindOf(text[p]) = "mark"
                                  /\ \A q \in 1 .. n : q > p => KindOf(text[q]) # "nl"
          BY <4>5
        <5>2. p \in 1 .. n + 1 /\ \A q \in 1 .. n + 1 : q > p => KindOf(text[q]) # "nl"
          BY <3>2, <4>3, <5>1
        <5> QED
          BY <5>1, <5>2
      <4> QED
        BY <4>2, <4>4, <4>5
    <3> QED
      BY <3>3, <3>4
  <2> HIDE DEF Lined
  <2> QED
    BY <2>1, <2>2
<1>5. Holds \in SUBSET Nat
  OBVIOUS
<1>6. Holds = Nat
  <2> HIDE DEF Holds
  <2> QED
    BY <1>3, <1>4, <1>5, Induct
<1>7. Len(text) \in Holds /\ Len(text) \in Nat
  <2> HIDE DEF Holds
  <2> QED
    BY <1>6
<1>8. Lined(Len(text))
  BY <1>1, <1>7
<1> QED
  BY <1>8 DEF LastMark

----------------------------------------------------------------------------
(* A message that can be read on its own *)

FenceIn(m) == Consumed(NoFence, m.text)

(* The last line of the agent's in it starts with a marker.                *)
MarkLeft(m) ==
  \E p \in SaidIn(m) : /\ KindOf(m.text[p]) = "mark"
                       /\ \A q \in SaidIn(m) : q > p => KindOf(m.text[q]) # "nl"

WellShut(m) == MarkLeft(m) \/ FenceIn(m).fenced = FALSE

(* The reply knows how full it is, and whether it stands in a fence.       *)
InStep(m, spent, fence) ==
  /\ Len(m.text) <= spent
  /\ FenceIn(m) = fence
  /\ fence.partial = "mark" => MarkLeft(m)

LEMMA TextOf ==
  ASSUME NEW m \in Message, m.kind # "placed"
  PROVE  m.text \in Seq(Int) /\ Len(m.text) \in Nat /\ FenceIn(m) \in FenceSet
<1>1. m.text \in Seq(Int)
  BY DEF Message
<1>2. NoFence \in FenceSet
  BY DEF NoFence, FenceSet, Partials
<1> QED
  BY <1>1, <1>2, ConsumedTyped DEF FenceIn

LEMMA MarkStays ==
  ASSUME NEW m \in Message, m.kind # "placed", NEW s \in Seq(Int), NEW n \in Message,
         n.kind # "placed", n.text = m.text \o s, \A p \in DOMAIN s : s[p] <= 0, MarkLeft(m)
  PROVE  MarkLeft(n)
<1>1. SaidIn(n) = SaidIn(m) /\ \A p \in SaidIn(n) : n.text[p] = m.text[p]
  BY NothingSaid
<1> QED
  BY <1>1 DEF MarkLeft

LEMMA MarkGrows ==
  ASSUME NEW m \in Message, m.kind # "placed", NEW s \in Seq(Int), NEW n \in Message,
         n.kind # "placed", n.text = m.text \o s, \A p \in 1 .. Len(s) : s[p] > 0,
         NEW fence \in FenceSet, fence.partial = "mark" => MarkLeft(m),
         Consumed(fence, s).partial = "mark"
  PROVE  MarkLeft(n)
<1> DEFINE k == Len(m.text)
<1>1. /\ SaidIn(m) \subseteq 1 .. k /\ k \in Nat
      /\ \A p \in 1 .. k : n.text[p] = m.text[p] /\ (p \in SaidIn(n) <=> p \in SaidIn(m))
      /\ \A p \in 1 .. Len(s) : n.text[k + p] = s[p] /\ (k + p \in SaidIn(n) <=> s[p] > 0)
      /\ \A q \in SaidIn(n) : q \in SaidIn(m) \/ \E p \in 1 .. Len(s) : q = k + p /\ s[p] > 0
  BY SaidInText
<1> HIDE DEF k
<1>2. CASE fence.partial = "mark" /\ \A q \in 1 .. Len(s) : KindOf(s[q]) # "nl"
  <2>1. PICK p \in SaidIn(m) : /\ KindOf(m.text[p]) = "mark"
                               /\ \A q \in SaidIn(m) : q > p => KindOf(m.text[q]) # "nl"
    BY <1>2 DEF MarkLeft
  <2>2. p \in SaidIn(n) /\ n.text[p] = m.text[p]
    BY <1>1
  <2>3. ASSUME NEW q \in SaidIn(n), q > p PROVE KindOf(n.text[q]) # "nl"
    <3>1. CASE q \in SaidIn(m)
      BY <1>1, <2>1, <2>3, <3>1
    <3>2. CASE \E x \in 1 .. Len(s) : q = k + x /\ s[x] > 0
      <4>1. PICK x \in 1 .. Len(s) : q = k + x
        BY <3>2
      <4>2. n.text[q] = s[x]
        BY <1>1, <4>1
      <4> QED
        BY <1>2, <4>1, <4>2
    <3> QED
      BY <1>1, <3>1, <3>2
  <2> QED
    BY <2>1, <2>2, <2>3 DEF MarkLeft
<1>3. CASE \E p \in 1 .. Len(s) : LastMark(s, p)
  <2>1. PICK p \in 1 .. Len(s) : KindOf(s[p]) = "mark" /\ \A q \in 1 .. Len(s) : q > p => KindOf(s[q]) # "nl"
    BY <1>3 DEF LastMark
  <2>2. k + p \in SaidIn(n) /\ n.text[k + p] = s[p]
    BY <1>1, <2>1
  <2>3. ASSUME NEW q \in SaidIn(n), q > k + p PROVE KindOf(n.text[q]) # "nl"
    <3>1. q \notin SaidIn(m)
      <4>1. q \in SaidIn(m) => q \in 1 .. k
        BY <1>1
      <4> QED
        BY <1>1, <2>3, <4>1
    <3>2. PICK x \in 1 .. Len(s) : q = k + x
      BY <1>1, <3>1
    <3>3. x > p
      BY <1>1, <2>3, <3>2
    <3>4. n.text[q] = s[x]
      BY <1>1, <3>2
    <3> QED
      BY <2>1, <3>3, <3>4
  <2> QED
    BY <2>1, <2>2, <2>3 DEF MarkLeft
<1> QED
  BY <1>2, <1>3, MarkLine

LEMMA RedrawnNone == ASSUME NEW l \in Lists PROVE Redrawn(<<>>, l) = l
<1>1. PICK B \in SUBSET Nat : l \in [B -> Beats]
  BY DEF Lists
<1>2. DOMAIN l = B /\ l = [b \in B |-> l[b]]
  BY <1>1
<1>3. Redrawn(<<>>, l) = [b \in B |-> l[b]]
  BY <1>2, NoLists DEF Redrawn
<1> QED
  BY <1>2, <1>3

(* A stream stopped by the reply is closed.                                *)
LEMMA ShutWell ==
  ASSUME NEW m \in Message, m.kind = "stream", m.state = "open",
         NEW spent \in Nat, spent <= Budget, NEW fence \in FenceSet, InStep(m, spent, fence)
  PROVE  /\ Shut(m, fence.fenced) \in Message
         /\ Shut(m, fence.fenced).state = "stopped"
         /\ Shut(m, fence.fenced).lists = m.lists
         /\ WellShut(Shut(m, fence.fenced))
<1>1. /\ m.text \in Seq(Int) /\ Len(m.text) \in Nat /\ Len(m.text) <= spent /\ FenceIn(m) = fence
      /\ fence.partial = "mark" => MarkLeft(m)
  BY TextOf DEF InStep
<1>2. /\ Words(Closer) \in Chunks /\ Words(Closer).text = Closer /\ Words(Closer).lists = <<>>
      /\ Closer \in Seq(Int) /\ Len(Closer) = 3
      /\ \A p \in DOMAIN Closer : Closer[p] <= 0
  BY OpenerCloser DEF Words, Closer, Chunks, NL, MARK
<1>3. fence.fenced \in BOOLEAN
  BY DEF FenceSet
<1>4. CASE fence.fenced = TRUE
  <2> DEFINE n == Apply(m, Words(Closer))
  <2>1. Fits(m, Words(Closer))
    <3>1. Len(m.text \o Closer) = Len(m.text) + 3
      BY <1>1, <1>2, LenConcat
    <3>2. Len(m.text) + 3 <= MaxText
      BY <1>1, Bounds
    <3> QED
      BY <1>2, <3>1, <3>2 DEF Fits
  <2>2. /\ n \in Message /\ n.kind = "stream" /\ n.text = m.text \o Closer /\ n.lists = m.lists
    <3> DEFINE c == Words(Closer)
    <3>1. c \in Chunks /\ c.text = Closer /\ c.lists = <<>> /\ m.kind # "placed"
      BY <1>2
    <3> HIDE DEF c
    <3>2. /\ Apply(m, c) \in Message /\ Apply(m, c).kind = m.kind
          /\ Apply(m, c).text = m.text \o c.text /\ Apply(m, c).lists = Redrawn(c.lists, m.lists)
      BY <3>1, ApplyTyped
    <3>3. m.lists \in Lists
      BY DEF Message
    <3> QED
      BY <3>1, <3>2, <3>3, RedrawnNone DEF c
  <2>3. Shut(m, fence.fenced) = Stopped(n)
    BY <1>4, <2>1 DEF Shut
  <2> HIDE DEF n
  <2>4. /\ Stopped(n) \in Message /\ Stopped(n).kind = "stream" /\ Stopped(n).text = m.text \o Closer
        /\ Stopped(n).lists = n.lists /\ Stopped(n).state = "stopped"
    BY <2>2, StoppedFacts
  <2>6. FenceIn(Stopped(n)) = Consumed(fence, Closer)
    <3>1. Consumed(NoFence, m.text \o Closer) = Consumed(Consumed(NoFence, m.text), Closer)
      BY <1>1, <1>2, ConsumedOn
    <3> QED
      BY <1>1, <2>4, <3>1 DEF FenceIn
  <2>7. WellShut(Stopped(n))
    <3>1. CASE fence.partial = "mark"
      <4>2. MarkLeft(m)
        BY <1>1, <3>1
      <4>3. MarkLeft(Stopped(n))
        BY <1>1, <1>2, <2>4, <4>2, MarkStays
      <4> QED
        BY <4>3 DEF WellShut
    <3>2. CASE fence.partial # "mark"
      <4>1. ~Consumed(fence, Closer).fenced
        BY <1>4, <3>2, CloserCloses
      <4>2. Consumed(fence, Closer) \in FenceSet
        BY <1>2, ConsumedTyped
      <4>3. Consumed(fence, Closer).fenced = FALSE
        BY <4>1, <4>2 DEF FenceSet
      <4> QED
        BY <2>6, <4>3 DEF WellShut
    <3> QED
      BY <3>1, <3>2
  <2> QED
    BY <2>2, <2>3, <2>4, <2>7
<1>5. CASE fence.fenced = FALSE
  <2>1. Shut(m, fence.fenced) = Stopped(m)
    BY <1>5 DEF Shut
  <2>2. Stopped(m) \in Message /\ Stopped(m).text = m.text /\ Stopped(m).lists = m.lists
        /\ Stopped(m).state = "stopped"
    BY StoppedFacts
  <2>3. FenceIn(Stopped(m)) = fence
    BY <1>1, <2>2 DEF FenceIn
  <2> QED
    BY <1>5, <2>1, <2>2, <2>3 DEF WellShut
<1> QED
  BY <1>3, <1>4, <1>5

(* What is written into it keeps it in step.                               *)
LEMMA GrowsInStep ==
  ASSUME NEW m \in Message, m.kind = "stream", NEW spent \in Nat, NEW fence \in FenceSet,
         InStep(m, spent, fence), NEW c \in Chunks, \A p \in 1 .. Len(c.text) : c.text[p] > 0
  PROVE  InStep(Apply(m, c), spent + Len(c.text), Consumed(fence, c.text))
<1>1. /\ m.text \in Seq(Int) /\ Len(m.text) \in Nat /\ Len(m.text) <= spent /\ FenceIn(m) = fence
      /\ fence.partial = "mark" => MarkLeft(m)
  BY TextOf DEF InStep
<1>2. c.text \in Seq(Int) /\ Len(c.text) \in Nat
  BY DEF Chunks
<1> DEFINE n == Apply(m, c)
<1>3. n \in Message /\ n.kind = "stream" /\ n.text = m.text \o c.text
  BY ApplyTyped
<1> HIDE DEF n
<1>4. Len(n.text) = Len(m.text) + Len(c.text)
  BY <1>1, <1>2, <1>3, LenConcat
<1>5. Len(n.text) <= spent + Len(c.text)
  BY <1>1, <1>2, <1>4
<1>6. FenceIn(n) = Consumed(fence, c.text)
  BY <1>1, <1>2, <1>3, ConsumedOn DEF FenceIn
<1>7. Consumed(fence, c.text).partial = "mark" => MarkLeft(n)
  BY <1>1, <1>2, <1>3, MarkGrows
<1> QED
  BY <1>5, <1>6, <1>7 DEF InStep, n

LEMMA EmptyInStep ==
  /\ NewMessage("stream", <<>>) \in Message /\ NewMessage("stream", <<>>).kind = "stream"
  /\ NewMessage("stream", <<>>).state = "open" /\ NewMessage("stream", <<>>).lists = <<>>
  /\ InStep(NewMessage("stream", <<>>), 0, NoFence)
  /\ NoFence \in FenceSet
<1> DEFINE m == NewMessage("stream", <<>>)
<1>1. m \in Message /\ m.kind = "stream" /\ m.text = <<>> /\ m.state = "open" /\ m.lists = <<>>
  BY NewMessageTyped
<1> HIDE DEF m
<1>2. FenceIn(m) = NoFence /\ Len(m.text) = 0
  BY <1>1, ConsumedNone, Empties DEF FenceIn
<1>3. NoFence \in FenceSet /\ NoFence.partial = "empty"
  BY DEF NoFence, FenceSet, Partials
<1> QED
  BY <1>1, <1>2, <1>3 DEF InStep, m

(* A stream that goes on with a fence *)
LEMMA OpenerInStep ==
  LET m == Fresh(Words(Opener))
  IN  /\ m \in Message /\ m.kind = "stream" /\ m.state = "open" /\ DOMAIN m.lists = {}
      /\ InStep(m, 2, [fenced |-> TRUE, partial |-> "empty"])
<1> DEFINE m == Fresh(Words(Opener))
<1>1. /\ Words(Opener) \in Chunks /\ Words(Opener).text = Opener /\ Words(Opener).lists = <<>>
      /\ Len(Opener) = 2
  BY OpenerCloser DEF Words, Opener
<1>2. m \in Message /\ m.kind = "stream" /\ m.state = "open" /\ m.text = Opener /\ m.lists = Redrawn(<<>>, <<>>)
  BY <1>1, FreshFacts
<1> HIDE DEF m
<1>3. DOMAIN m.lists = {}
  BY <1>2, NoLists, RedrawnTyped
<1>4. FenceIn(m) = [fenced |-> TRUE, partial |-> "empty"]
  BY <1>2, OpenerOpens DEF FenceIn
<1>5. InStep(m, 2, [fenced |-> TRUE, partial |-> "empty"])
  <2>1. Len(m.text) <= 2
    BY <1>1, <1>2
  <2>2. [fenced |-> TRUE, partial |-> "empty"].partial # "mark"
    OBVIOUS
  <2> QED
    BY <1>4, <2>1, <2>2 DEF InStep
<1> QED
  BY <1>2, <1>3, <1>5 DEF m

----------------------------------------------------------------------------
(* The streams of a thread: only the one being written is open, and those  *)
(* the reply stopped are closed.                                           *)

SoleOpen(th, at, over) ==
  \A i \in DOMAIN th : th[i].state = "open" => i = at /\ ~over

AllShut(th, at, over) ==
  \A i \in DOMAIN th : th[i].state = "stopped" => (over /\ i = at) \/ WellShut(th[i])

Streams(th, at, spent, fence, over) ==
  /\ SoleOpen(th, at, over) /\ AllShut(th, at, over)
  /\ spent <= Budget
  /\ at = 0 => fence = NoFence
  /\ at # 0 => InStep(th[at], spent, fence)

(* One message changes, or a new one comes.                                *)
LEMMA ExceptAt ==
  ASSUME NEW th \in Thread, NEW i \in DOMAIN th, NEW n \in Message
  PROVE  /\ [th EXCEPT ![i] = n] \in Thread /\ DOMAIN [th EXCEPT ![i] = n] = DOMAIN th
         /\ Len([th EXCEPT ![i] = n]) = Len(th)
         /\ [th EXCEPT ![i] = n][i] = n
         /\ \A j \in DOMAIN th : j # i => [th EXCEPT ![i] = n][j] = th[j]
BY DEF Thread

LEMMA AppendAt ==
  ASSUME NEW th \in Thread, NEW n \in Message
  PROVE  /\ Append(th, n) \in Thread /\ Len(th) \in Nat /\ Len(Append(th, n)) = Len(th) + 1
         /\ DOMAIN th = 1 .. Len(th)
         /\ DOMAIN Append(th, n) = 1 .. Len(th) + 1
         /\ Append(th, n)[Len(th) + 1] = n
         /\ \A j \in DOMAIN th : Append(th, n)[j] = th[j]
         /\ \A j \in DOMAIN Append(th, n) : j \in DOMAIN th \/ j = Len(th) + 1
BY DEF Thread

LEMMA StreamsChange ==
  ASSUME NEW th \in Thread, NEW at \in DOMAIN th, NEW spent, NEW fence, Streams(th, at, spent, fence, FALSE),
         NEW n \in Message, n.state # "open",
         n.state = "stopped" => WellShut(n)
  PROVE  Streams([th EXCEPT ![at] = n], 0, 0, NoFence, FALSE)
<1> DEFINE th2 == [th EXCEPT ![at] = n]
<1>1. /\ DOMAIN th2 = DOMAIN th /\ th2[at] = n
      /\ \A j \in DOMAIN th : j # at => th2[j] = th[j]
  BY ExceptAt
<1> HIDE DEF th2
<1>2. SoleOpen(th, at, FALSE) /\ AllShut(th, at, FALSE)
  BY DEF Streams
<1>3. SoleOpen(th2, 0, FALSE)
  BY <1>1, <1>2 DEF SoleOpen
<1>4. AllShut(th2, 0, FALSE)
  BY <1>1, <1>2 DEF AllShut
<1>5. 0 <= Budget
  BY Bounds
<1>6. Streams(th2, 0, 0, NoFence, FALSE)
  BY <1>3, <1>4, <1>5 DEF Streams
<1> QED
  BY <1>6 DEF th2

LEMMA StreamsShut ==
  ASSUME NEW th \in Thread, NEW at \in DOMAIN th, th[at].kind = "stream", NEW spent \in Nat,
         NEW fence \in FenceSet, Streams(th, at, spent, fence, FALSE), at # 0
  PROVE  Streams(ShutAt(th, at, fence.fenced), 0, 0, NoFence, FALSE)
<1>1. th[at] \in Message /\ fence.fenced \in BOOLEAN
  BY DEF Thread, FenceSet
<1>2. InStep(th[at], spent, fence) /\ spent <= Budget /\ AllShut(th, at, FALSE)
  BY DEF Streams
<1> DEFINE n == Shut(th[at], fence.fenced)
<1>3. CASE th[at].state = "open"
  <2>1. n \in Message /\ n.state = "stopped" /\ WellShut(n)
    BY <1>1, <1>2, <1>3, ShutWell
  <2> HIDE DEF n
  <2>2. Streams([th EXCEPT ![at] = n], 0, 0, NoFence, FALSE)
    BY <2>1, StreamsChange
  <2> QED
    BY <2>2 DEF ShutAt, n
<1>4. CASE th[at].state # "open"
  <2>1. n = th[at]
    BY <1>4 DEF Shut
  <2> HIDE DEF n
  <2>2. n.state = "stopped" => WellShut(n)
    BY <1>2, <2>1 DEF AllShut
  <2>3. Streams([th EXCEPT ![at] = n], 0, 0, NoFence, FALSE)
    BY <1>1, <1>4, <2>1, <2>2, StreamsChange
  <2> QED
    BY <2>3 DEF ShutAt, n
<1> QED
  BY <1>3, <1>4

LEMMA StreamsStart ==
  ASSUME NEW th \in Thread, NEW spent, NEW fence, Streams(th, 0, spent, fence, FALSE),
         NEW m \in Message, m.state = "open", NEW n \in Nat, n <= Budget, NEW fence2,
         InStep(m, n, fence2)
  PROVE  Streams(Append(th, m), Len(th) + 1, n, fence2, FALSE)
<1> DEFINE th2 == Append(th, m)
           at  == Len(th) + 1
<1>1. /\ Len(th) \in Nat /\ DOMAIN th = 1 .. Len(th) /\ th2[at] = m
      /\ \A j \in DOMAIN th : th2[j] = th[j]
      /\ \A j \in DOMAIN th2 : j \in DOMAIN th \/ j = at
  BY AppendAt
<1>0. at # 0
  BY <1>1
<1> HIDE DEF th2, at
<1>2. SoleOpen(th, 0, FALSE) /\ AllShut(th, 0, FALSE)
  BY DEF Streams
<1>3. SoleOpen(th2, at, FALSE)
  <2>1. \A j \in DOMAIN th : th[j].state # "open"
    BY <1>1, <1>2 DEF SoleOpen
  <2> QED
    BY <1>1, <2>1 DEF SoleOpen
<1>4. AllShut(th2, at, FALSE)
  BY <1>1, <1>2 DEF AllShut
<1> QED
  BY <1>0, <1>1, <1>3, <1>4 DEF Streams, th2, at

LEMMA StreamsGrow ==
  ASSUME NEW th \in Thread, NEW at \in DOMAIN th, at # 0, th[at].kind = "stream", th[at].state = "open",
         NEW spent \in Nat, NEW fence \in FenceSet, Streams(th, at, spent, fence, FALSE),
         NEW c \in Chunks, \A p \in 1 .. Len(c.text) : c.text[p] > 0, spent + Len(c.text) <= Budget
  PROVE  Streams([th EXCEPT ![at] = Apply(th[at], c)], at, spent + Len(c.text),
                 Consumed(fence, c.text), FALSE)
<1> DEFINE n   == Apply(th[at], c)
           th2 == [th EXCEPT ![at] = n]
<1>1. th[at] \in Message
  BY DEF Thread
<1>2. n \in Message /\ n.state = "open"
  BY <1>1, ApplyTyped
<1>3. InStep(n, spent + Len(c.text), Consumed(fence, c.text))
  <2>1. InStep(th[at], spent, fence)
    BY DEF Streams
  <2> QED
    BY <1>1, <2>1, GrowsInStep
<1> HIDE DEF n
<1>4. /\ DOMAIN th2 = DOMAIN th /\ th2[at] = n
      /\ \A j \in DOMAIN th : j # at => th2[j] = th[j]
  BY <1>2, ExceptAt
<1> HIDE DEF th2
<1>5. SoleOpen(th, at, FALSE) /\ AllShut(th, at, FALSE)
  BY DEF Streams
<1>6. SoleOpen(th2, at, FALSE)
  BY <1>4, <1>5 DEF SoleOpen
<1>7. AllShut(th2, at, FALSE)
  BY <1>2, <1>4, <1>5 DEF AllShut
<1>8. Streams(th2, at, spent + Len(c.text), Consumed(fence, c.text), FALSE)
  BY <1>3, <1>4, <1>6, <1>7 DEF Streams
<1> QED
  BY <1>8 DEF th2, n

LEMMA StreamsWhole ==
  ASSUME NEW th \in Thread, NEW at \in Nat, at # 0 => at \in DOMAIN th, NEW spent, NEW fence, NEW over,
         Streams(th, at, spent, fence, over), NEW m \in Message, m.state = "whole"
  PROVE  Streams(Append(th, m), at, spent, fence, over)
<1> DEFINE th2 == Append(th, m)
<1>1. /\ \A j \in DOMAIN th : th2[j] = th[j]
      /\ \A j \in DOMAIN th2 : j \in DOMAIN th \/ th2[j] = m
  BY AppendAt
<1> HIDE DEF th2
<1>2. SoleOpen(th, at, over) /\ AllShut(th, at, over)
  BY DEF Streams
<1>3. SoleOpen(th2, at, over)
  BY <1>1, <1>2 DEF SoleOpen
<1>4. AllShut(th2, at, over)
  BY <1>1, <1>2 DEF AllShut
<1> QED
  BY <1>1, <1>3, <1>4 DEF Streams, th2

(* Slack ends a stream.                                                    *)
LEMMA StreamsEnd ==
  ASSUME NEW th \in Thread, NEW at, NEW spent, NEW fence, NEW over,
         Streams(th, at, spent, fence, over), NEW i \in DOMAIN th, NEW m \in Message,
         m.state = "finalized", m.kind = th[i].kind, m.text = th[i].text
  PROVE  Streams([th EXCEPT ![i] = m], at, spent, fence, over)
<1> DEFINE th2 == [th EXCEPT ![i] = m]
<1>1. /\ DOMAIN th2 = DOMAIN th /\ th2[i] = m
      /\ \A j \in DOMAIN th : j # i => th2[j] = th[j]
  BY ExceptAt
<1> HIDE DEF th2
<1>2. SoleOpen(th, at, over) /\ AllShut(th, at, over)
  BY DEF Streams
<1>3. SoleOpen(th2, at, over)
  BY <1>1, <1>2 DEF SoleOpen
<1>4. AllShut(th2, at, over)
  BY <1>1, <1>2 DEF AllShut
<1>5. at # 0 => InStep(th2[at], spent, fence)
  <2> SUFFICES ASSUME at # 0 PROVE InStep(th2[at], spent, fence)
    OBVIOUS
  <2>1. InStep(th[at], spent, fence)
    BY DEF Streams
  <2>2. InStep(m, spent, fence) <=> InStep(th[i], spent, fence)
    BY DEF InStep, FenceIn, MarkLeft, SaidIn
  <2>3. th2[at] = th[at] \/ at = i
    BY <1>1 DEF th2
  <2> QED
    BY <1>1, <2>1, <2>2, <2>3
<1> QED
  BY <1>3, <1>4, <1>5 DEF Streams, th2

(* The reply ends.                                                         *)
LEMMA StreamsFinish ==
  ASSUME NEW th \in Thread, NEW at \in Nat, at # 0 => at \in DOMAIN th, NEW spent, NEW fence,
         Streams(th, at, spent, fence, FALSE)
  PROVE  /\ at = 0 \/ th[at].state # "open" => Streams(th, at, spent, fence, TRUE)
         /\ at # 0 => Streams([th EXCEPT ![at] = Stopped(th[at])], at, spent, fence, TRUE)
<1>1. SoleOpen(th, at, FALSE) /\ AllShut(th, at, FALSE)
  BY DEF Streams
<1>0. 0 \notin DOMAIN th
  BY DEF Thread
<1>2. ASSUME at = 0 \/ th[at].state # "open" PROVE Streams(th, at, spent, fence, TRUE)
  <2>1. SoleOpen(th, at, TRUE)
    BY <1>0, <1>1, <1>2 DEF SoleOpen
  <2>2. AllShut(th, at, TRUE)
    BY <1>1 DEF AllShut
  <2> QED
    BY <2>1, <2>2 DEF Streams
<1>3. ASSUME at # 0 PROVE Streams([th EXCEPT ![at] = Stopped(th[at])], at, spent, fence, TRUE)
  <2> DEFINE m   == Stopped(th[at])
             th2 == [th EXCEPT ![at] = m]
  <2>1. /\ m \in Message /\ m.kind = th[at].kind /\ m.text = th[at].text /\ m.state = "stopped"
    BY <1>3, StoppedFacts DEF Thread
  <2> HIDE DEF m
  <2>2. /\ DOMAIN th2 = DOMAIN th /\ th2[at] = m
        /\ \A j \in DOMAIN th : j # at => th2[j] = th[j]
    BY <1>3, <2>1, ExceptAt
  <2> HIDE DEF th2
  <2>3. SoleOpen(th2, at, TRUE)
    BY <1>1, <2>1, <2>2 DEF SoleOpen
  <2>4. AllShut(th2, at, TRUE)
    BY <1>1, <2>2 DEF AllShut
  <2>5. InStep(m, spent, fence)
    <3>1. InStep(th[at], spent, fence)
      BY <1>3 DEF Streams
    <3> QED
      BY <2>1, <3>1 DEF InStep, FenceIn, MarkLeft, SaidIn
  <2>6. Streams(th2, at, spent, fence, TRUE)
    BY <1>3, <2>2, <2>3, <2>4, <2>5 DEF Streams
  <2> QED
    BY <2>6 DEF th2, m
<1> QED
  BY <1>2, <1>3

----------------------------------------------------------------------------
(* The lists of tools in a thread: none is below the stream being written, *)
(* a tool is on one list, and the newest copy of it tells how a settled    *)
(* tool ended - but for the tool whose card is being drawn.                *)

ListsKnown(th, at, beats) ==
  \A i \in DOMAIN th : \A b \in DOMAIN th[i].lists :
    /\ at = 0 \/ i <= at
    /\ b \in DOMAIN beats /\ DOMAIN th[i].lists[b] \subseteq DOMAIN beats[b]

BeatsTell(beats, then, bt) ==
  /\ \A b \in DOMAIN beats : \A t \in DOMAIN beats[b] : then # t => beats[b][t] = bt[t]
  /\ \A b, c \in DOMAIN beats : \A t \in DOMAIN beats[b] : t \in DOMAIN beats[c] => b = c

ToldBy(th, t, status) ==
  \E i \in DOMAIN th : \E b \in DOMAIN th[i].lists :
    /\ t \in DOMAIN th[i].lists[b]
    /\ th[i].lists[b][t] = status
    /\ \A j \in DOMAIN th : b \in DOMAIN th[j].lists => j <= i

ListsTell(th, then, bt) ==
  \A t \in Tasks : Settled(bt[t]) /\ then # t => ToldBy(th, t, bt[t])

Cards(th, at, beats, then, bt) ==
  ListsKnown(th, at, beats) /\ BeatsTell(beats, then, bt) /\ ListsTell(th, then, bt)

SameLists(th, th2) ==
  /\ DOMAIN th \subseteq DOMAIN th2
  /\ \A i \in DOMAIN th : th2[i].lists = th[i].lists
  /\ \A i \in DOMAIN th2 \ DOMAIN th : DOMAIN th2[i].lists = {}

LEMMA SameListsTwice ==
  ASSUME NEW a, NEW b, NEW c, SameLists(a, b), SameLists(b, c)
  PROVE  SameLists(a, c)
BY DEF SameLists

LEMMA SameListsSelf == ASSUME NEW a PROVE SameLists(a, a)
BY DEF SameLists

LEMMA SameListsAppend ==
  ASSUME NEW th \in Thread, NEW m \in Message, DOMAIN m.lists = {}
  PROVE  SameLists(th, Append(th, m))
<1> DEFINE th2 == Append(th, m)
<1>1. /\ DOMAIN th \subseteq DOMAIN th2
      /\ \A j \in DOMAIN th : th2[j] = th[j]
      /\ \A j \in DOMAIN th2 : j \in DOMAIN th \/ th2[j] = m
  BY AppendAt
<1> HIDE DEF th2
<1> QED
  BY <1>1 DEF SameLists, th2

LEMMA SameListsExcept ==
  ASSUME NEW th \in Thread, NEW i \in DOMAIN th, NEW m \in Message, m.lists = th[i].lists
  PROVE  SameLists(th, [th EXCEPT ![i] = m])
<1> DEFINE th2 == [th EXCEPT ![i] = m]
<1>1. /\ DOMAIN th2 = DOMAIN th /\ th2[i] = m
      /\ \A j \in DOMAIN th : j # i => th2[j] = th[j]
  BY ExceptAt
<1> HIDE DEF th2
<1> QED
  BY <1>1 DEF SameLists, th2

LEMMA ToldStill ==
  ASSUME NEW th, NEW th2, SameLists(th, th2), NEW t, NEW status, ToldBy(th, t, status)
  PROVE  ToldBy(th2, t, status)
<1>0. PICK i \in DOMAIN th : \E b \in DOMAIN th[i].lists :
        /\ t \in DOMAIN th[i].lists[b]
        /\ th[i].lists[b][t] = status
        /\ \A j \in DOMAIN th : b \in DOMAIN th[j].lists => j <= i
  BY DEF ToldBy
<1>1. PICK b \in DOMAIN th[i].lists :
        /\ t \in DOMAIN th[i].lists[b]
        /\ th[i].lists[b][t] = status
        /\ \A j \in DOMAIN th : b \in DOMAIN th[j].lists => j <= i
  BY <1>0
<1>2. i \in DOMAIN th2 /\ th2[i].lists = th[i].lists
  BY DEF SameLists
<1>3. \A j \in DOMAIN th2 : b \in DOMAIN th2[j].lists => j <= i
  BY <1>1 DEF SameLists
<1> QED
  BY <1>1, <1>2, <1>3 DEF ToldBy

LEMMA CardsSame ==
  ASSUME NEW th \in Thread, NEW th2, SameLists(th, th2), NEW at, NEW at2 \in Nat,
         at2 = at \/ at2 = 0 \/ at2 > Len(th), NEW beats, NEW then, NEW bt,
         Cards(th, at, beats, then, bt)
  PROVE  Cards(th2, at2, beats, then, bt)
<1>1. ListsKnown(th, at, beats) /\ BeatsTell(beats, then, bt) /\ ListsTell(th, then, bt)
  BY DEF Cards
<1>2. ListsKnown(th2, at2, beats)
  <2> SUFFICES ASSUME NEW i \in DOMAIN th2, NEW b \in DOMAIN th2[i].lists
               PROVE  /\ at2 = 0 \/ i <= at2
                      /\ b \in DOMAIN beats /\ DOMAIN th2[i].lists[b] \subseteq DOMAIN beats[b]
    BY DEF ListsKnown
  <2>1. i \in DOMAIN th /\ th2[i].lists = th[i].lists
    BY DEF SameLists
  <2>2. /\ at = 0 \/ i <= at
        /\ b \in DOMAIN beats /\ DOMAIN th[i].lists[b] \subseteq DOMAIN beats[b]
    BY <1>1, <2>1 DEF ListsKnown
  <2>3. i \in 1 .. Len(th) /\ Len(th) \in Nat
    BY <2>1 DEF Thread
  <2>4. at2 = 0 \/ i <= at2
    BY <2>2, <2>3
  <2> QED
    BY <2>1, <2>2, <2>4
<1>3. ListsTell(th2, then, bt)
  BY <1>1, ToldStill DEF ListsTell
<1> QED
  BY <1>1, <1>2, <1>3 DEF Cards

(* A tool is reported on, or another thing is to be done.                  *)
LEMMA CardsTurn ==
  ASSUME NEW th, NEW at, NEW beats, NEW then, then \notin Tasks, NEW bt, Cards(th, at, beats, then, bt),
         \A b \in DOMAIN beats : DOMAIN beats[b] \subseteq Tasks,
         NEW then2, NEW bt2, \A t \in Tasks : t # then2 => bt2[t] = bt[t]
  PROVE  Cards(th, at, beats, then2, bt2)
<1>1. ListsKnown(th, at, beats) /\ BeatsTell(beats, then, bt) /\ ListsTell(th, then, bt)
  BY DEF Cards
<1>2. BeatsTell(beats, then2, bt2)
  BY <1>1 DEF BeatsTell
<1>3. ListsTell(th, then2, bt2)
  <2> SUFFICES ASSUME NEW t \in Tasks, Settled(bt2[t]), then2 # t PROVE ToldBy(th, t, bt2[t])
    BY DEF ListsTell
  <2>1. bt2[t] = bt[t] /\ then # t
    OBVIOUS
  <2> QED
    BY <1>1, <2>1 DEF ListsTell
<1> QED
  BY <1>1, <1>2, <1>3 DEF Cards

(* A tool joins a list.                                                    *)
Joins(beats, beats2, b, t, status) ==
  /\ DOMAIN beats2 = DOMAIN beats \cup {b}
  /\ \A c \in DOMAIN beats : c # b => beats2[c] = beats[c]
  /\ t \in DOMAIN beats2[b] /\ beats2[b][t] = status
  /\ b \in DOMAIN beats => /\ DOMAIN beats2[b] = DOMAIN beats[b] \cup {t}
                           /\ \A x \in DOMAIN beats[b] : x # t => beats2[b][x] = beats[b][x]
  /\ b \notin DOMAIN beats => DOMAIN beats2[b] = {t}
  /\ \A c \in DOMAIN beats : t \in DOMAIN beats[c] => c = b

LEMMA BeatsJoined ==
  ASSUME NEW beats, NEW beats2, NEW b, NEW t, NEW bt, Joins(beats, beats2, b, t, bt[t]),
         BeatsTell(beats, t, bt), NEW then2
  PROVE  /\ BeatsTell(beats2, then2, bt)
         /\ \A c \in DOMAIN beats : c \in DOMAIN beats2 /\ DOMAIN beats[c] \subseteq DOMAIN beats2[c]
<1>1. ASSUME NEW c \in DOMAIN beats2, NEW x \in DOMAIN beats2[c]
      PROVE  beats2[c][x] = bt[x] /\ (x = t => c = b)
             /\ (x # t => c \in DOMAIN beats /\ x \in DOMAIN beats[c])
  <2>1. CASE c = b
    <3>1. CASE b \in DOMAIN beats
      BY <2>1, <3>1 DEF Joins, BeatsTell
    <3>2. CASE b \notin DOMAIN beats
      BY <2>1, <3>2 DEF Joins
    <3> QED
      BY <3>1, <3>2
  <2>2. CASE c # b
    BY <2>2 DEF Joins, BeatsTell
  <2> QED
    BY <2>1, <2>2
<1>2. \A c, d \in DOMAIN beats2 : \A x \in DOMAIN beats2[c] : x \in DOMAIN beats2[d] => c = d
  BY <1>1 DEF BeatsTell
<1>3. \A c \in DOMAIN beats : c \in DOMAIN beats2 /\ DOMAIN beats[c] \subseteq DOMAIN beats2[c]
  <2> SUFFICES ASSUME NEW c \in DOMAIN beats PROVE c \in DOMAIN beats2 /\ DOMAIN beats[c] \subseteq DOMAIN beats2[c]
    OBVIOUS
  <2> QED
    BY DEF Joins
<1> QED
  BY <1>1, <1>2, <1>3 DEF BeatsTell

(* Its list is left as it was drawn: the tool is not done.                 *)
LEMMA CardsHeld ==
  ASSUME NEW th, NEW at, NEW beats, NEW beats2, NEW b, NEW t, NEW bt, Joins(beats, beats2, b, t, bt[t]),
         Cards(th, at, beats, t, bt), ~Settled(bt[t]), NEW then2
  PROVE  Cards(th, at, beats2, then2, bt)
<1>1. ListsKnown(th, at, beats) /\ BeatsTell(beats, t, bt) /\ ListsTell(th, t, bt)
  BY DEF Cards
<1>2. /\ BeatsTell(beats2, then2, bt)
      /\ \A c \in DOMAIN beats : c \in DOMAIN beats2 /\ DOMAIN beats[c] \subseteq DOMAIN beats2[c]
  BY <1>1, BeatsJoined
<1>3. ListsKnown(th, at, beats2)
  <2> SUFFICES ASSUME NEW i \in DOMAIN th, NEW c \in DOMAIN th[i].lists
               PROVE  /\ at = 0 \/ i <= at
                      /\ c \in DOMAIN beats2 /\ DOMAIN th[i].lists[c] \subseteq DOMAIN beats2[c]
    BY DEF ListsKnown
  <2>1. /\ at = 0 \/ i <= at
        /\ c \in DOMAIN beats /\ DOMAIN th[i].lists[c] \subseteq DOMAIN beats[c]
    BY <1>1 DEF ListsKnown
  <2> QED
    BY <1>2, <2>1
<1>4. ListsTell(th, then2, bt)
  BY <1>1 DEF ListsTell
<1> QED
  BY <1>2, <1>3, <1>4 DEF Cards

(* It is drawn into the stream being written.                              *)
DrawnAt(th, th2, i, b, beat) ==
  \E th1 \in Thread :
    /\ SameLists(th, th1)
    /\ i \in DOMAIN th1 /\ DOMAIN th2 = DOMAIN th1
    /\ \A j \in DOMAIN th1 : j # i => th2[j].lists = th1[j].lists
    /\ DOMAIN th2[i].lists = DOMAIN th1[i].lists \cup {b}
    /\ th2[i].lists[b] = beat
    /\ \A c \in DOMAIN th1[i].lists : c # b => th2[i].lists[c] = th1[i].lists[c]

LEMMA CardsDrawn ==
  ASSUME NEW th \in Thread, NEW th2, NEW at, NEW at2 \in Nat \ {0}, at2 = at \/ at2 > Len(th),
         NEW beats, NEW beats2, NEW b, NEW t, NEW bt, Joins(beats, beats2, b, t, bt[t]),
         DrawnAt(th, th2, at2, b, beats2[b]),
         Cards(th, at, beats, t, bt), NEW then2
  PROVE  Cards(th2, at2, beats2, then2, bt)
<1>0. PICK th1 \in Thread :
    /\ SameLists(th, th1)
    /\ at2 \in DOMAIN th1 /\ DOMAIN th2 = DOMAIN th1
    /\ \A j \in DOMAIN th1 : j # at2 => th2[j].lists = th1[j].lists
    /\ DOMAIN th2[at2].lists = DOMAIN th1[at2].lists \cup {b}
    /\ th2[at2].lists[b] = beats2[b]
    /\ \A c \in DOMAIN th1[at2].lists : c # b => th2[at2].lists[c] = th1[at2].lists[c]
  BY DEF DrawnAt
<1>1. ListsKnown(th1, at2, beats) /\ BeatsTell(beats, t, bt) /\ ListsTell(th1, t, bt)
  <2>1. Cards(th1, at2, beats, t, bt)
    BY <1>0, CardsSame
  <2> QED
    BY <2>1 DEF Cards
<1>2. /\ BeatsTell(beats2, then2, bt)
      /\ \A c \in DOMAIN beats : c \in DOMAIN beats2 /\ DOMAIN beats[c] \subseteq DOMAIN beats2[c]
      /\ b \in DOMAIN beats2
  <2>1. b \in DOMAIN beats2
    BY DEF Joins
  <2>2. BeatsTell(beats, t, bt)
    BY <1>1
  <2> QED
    BY <2>1, <2>2, BeatsJoined
<1>3. \A i \in DOMAIN th1 : DOMAIN th1[i].lists # {} => i <= at2
  BY <1>1 DEF ListsKnown
<1>4. \A i \in DOMAIN th2 : i # at2 => i \in DOMAIN th1 /\ th2[i].lists = th1[i].lists
  BY <1>0
<1>5. \A i \in DOMAIN th2 : \A c \in DOMAIN th2[i].lists : i <= at2
  BY <1>3, <1>4
<1>6. ListsKnown(th2, at2, beats2)
  <2> SUFFICES ASSUME NEW i \in DOMAIN th2, NEW c \in DOMAIN th2[i].lists
               PROVE  c \in DOMAIN beats2 /\ DOMAIN th2[i].lists[c] \subseteq DOMAIN beats2[c]
    BY <1>5 DEF ListsKnown
  <2>1. CASE i = at2 /\ c = b
    BY <1>0, <1>2, <2>1
  <2>2. CASE ~(i = at2 /\ c = b)
    <3>1. i \in DOMAIN th1 /\ c \in DOMAIN th1[i].lists /\ th2[i].lists[c] = th1[i].lists[c]
      BY <1>0, <1>4, <2>2
    <3>2. c \in DOMAIN beats /\ DOMAIN th1[i].lists[c] \subseteq DOMAIN beats[c]
      BY <1>1, <3>1 DEF ListsKnown
    <3> QED
      BY <1>2, <3>1, <3>2
  <2> QED
    BY <2>1, <2>2
<1>7. ASSUME NEW x \in Tasks, x \in DOMAIN beats2[b] PROVE ToldBy(th2, x, bt[x])
  <2>1. beats2[b][x] = bt[x]
    <3>1. BeatsTell(beats2, "read", bt) /\ BeatsTell(beats2, "over", bt)
      BY <1>1, BeatsJoined
    <3>2. "read" # x \/ "over" # x
      OBVIOUS
    <3> QED
      BY <1>2, <1>7, <3>1, <3>2 DEF BeatsTell
  <2>2. at2 \in DOMAIN th2 /\ b \in DOMAIN th2[at2].lists
    BY <1>0
  <2>3. \A j \in DOMAIN th2 : b \in DOMAIN th2[j].lists => j <= at2
    BY <1>5
  <2> QED
    BY <1>0, <1>7, <2>1, <2>2, <2>3 DEF ToldBy
<1>8. ListsTell(th2, then2, bt)
  <2> SUFFICES ASSUME NEW x \in Tasks, Settled(bt[x]) PROVE ToldBy(th2, x, bt[x])
    BY DEF ListsTell
  <2>1. CASE x = t
    BY <1>7, <2>1 DEF Joins
  <2>2. CASE x # t
    <3>1. ToldBy(th1, x, bt[x])
      BY <1>1, <2>2 DEF ListsTell
    <3>0. PICK i \in DOMAIN th1 : \E c \in DOMAIN th1[i].lists :
            /\ x \in DOMAIN th1[i].lists[c]
            /\ th1[i].lists[c][x] = bt[x]
            /\ \A j \in DOMAIN th1 : c \in DOMAIN th1[j].lists => j <= i
      BY <3>1 DEF ToldBy
    <3>2. PICK c \in DOMAIN th1[i].lists :
            /\ x \in DOMAIN th1[i].lists[c]
            /\ th1[i].lists[c][x] = bt[x]
            /\ \A j \in DOMAIN th1 : c \in DOMAIN th1[j].lists => j <= i
      BY <3>0
    <3>3. CASE c = b
      <4>1. c \in DOMAIN beats /\ DOMAIN th1[i].lists[c] \subseteq DOMAIN beats[c]
        BY <1>1 DEF ListsKnown
      <4>2. x \in DOMAIN beats2[b]
        BY <1>2, <3>2, <3>3, <4>1
      <4> QED
        BY <1>7, <4>2
    <3>4. CASE c # b
      <4>1. \A j \in DOMAIN th1 : c \in DOMAIN th2[j].lists <=> c \in DOMAIN th1[j].lists
        BY <1>0, <3>4
      <4>2. i \in DOMAIN th2 /\ c \in DOMAIN th2[i].lists /\ th2[i].lists[c] = th1[i].lists[c]
        BY <1>0, <3>4
      <4>3. \A j \in DOMAIN th2 : c \in DOMAIN th2[j].lists => j <= i
        BY <1>0, <3>2, <4>1
      <4> QED
        BY <3>2, <4>2, <4>3 DEF ToldBy
    <3> QED
      BY <3>3, <3>4
  <2> QED
    BY <2>1, <2>2
<1> QED
  BY <1>2, <1>6, <1>8 DEF Cards

----------------------------------------------------------------------------
(* Each message stands alone, as long as no call fails                     *)

Alone(w, bt) ==
  /\ Streams(w.th, w.r.at, w.r.spent, FenceOf(w), w.j.then = "over")
  /\ Cards(w.th, w.r.at, w.r.beats, w.j.then, bt)

(* A surface that hosts no streams has whole messages only.                *)
AllWhole(th) == \A i \in DOMAIN th : th[i].state = "whole"

AloneOn(w, bt) == IF hosts THEN Alone(w, bt) ELSE AllWhole(w.th)

LEMMA AloneParts ==
  ASSUME NEW w, NEW bt, w.j.then # "over"
  PROVE  Alone(w, bt) <=> /\ Streams(w.th, w.r.at, w.r.spent, FenceOf(w), FALSE)
                          /\ Cards(w.th, w.r.at, w.r.beats, w.j.then, bt)
<1>1. (w.j.then = "over") = FALSE
  OBVIOUS
<1> QED
  BY <1>1 DEF Alone

LEMMA ShutLists ==
  ASSUME NEW th \in Thread, NEW at \in DOMAIN th, at # 0, th[at].kind = "stream", NEW spent \in Nat,
         NEW fence \in FenceSet, Streams(th, at, spent, fence, FALSE)
  PROVE  /\ ShutAt(th, at, fence.fenced) \in Thread /\ Len(ShutAt(th, at, fence.fenced)) = Len(th)
         /\ DOMAIN ShutAt(th, at, fence.fenced) = DOMAIN th
         /\ SameLists(th, ShutAt(th, at, fence.fenced))
         /\ Streams(ShutAt(th, at, fence.fenced), 0, 0, NoFence, FALSE)
<1>1. th[at] \in Message /\ fence.fenced \in BOOLEAN
  BY DEF Thread, FenceSet
<1>2. InStep(th[at], spent, fence) /\ spent <= Budget
  BY DEF Streams
<1> DEFINE n == Shut(th[at], fence.fenced)
<1>3. n \in Message /\ n.lists = th[at].lists
  <2>1. CASE th[at].state = "open"
    BY <1>1, <1>2, <2>1, ShutWell
  <2>2. CASE th[at].state # "open"
    BY <1>1, <2>2 DEF Shut
  <2> QED
    BY <2>1, <2>2
<1>4. ShutAt(th, at, fence.fenced) = [th EXCEPT ![at] = n]
  BY DEF ShutAt
<1> HIDE DEF n
<1>5. SameLists(th, [th EXCEPT ![at] = n])
  BY <1>3, SameListsExcept
<1> QED
  BY <1>1, <1>4, <1>5, ShutAtTyped, StreamsShut

LEMMA RolledAlone ==
  ASSUME NEW w, Fitting(hosts, w), NEW bt, AloneOn(w, bt), w.j.then # "over",
         NEW v \in Rollover(w), v.f.count = 0
  PROVE  AloneOn(v, bt)
<1>1. /\ w \in Worlds /\ StreamAt(w.th, w.r.at)
      /\ hosts => w.r.mode = "streaming"
      /\ ~hosts => w.r.at = 0
  BY DEF Fitting
<1>2. CASE w.r.at = 0
  <2>1. v = w
    BY <1>2 DEF Rollover
  <2> QED
    BY <2>1
<1>3. CASE w.r.at # 0
  <2> DEFINE th2 == ShutAt(w.th, w.r.at, FenceOf(w).fenced)
  <2>1. hosts /\ w.r.mode = "streaming" /\ w.r.at \in DOMAIN w.th /\ w.th[w.r.at].kind = "stream"
    BY <1>1, <1>3 DEF StreamAt
  <2>2. /\ v \in Worlds /\ SameWords(w.r, v.r) /\ v.j = w.j /\ Worse(w.f, v.f)
        /\ v.r.partial = "empty"
        /\ v.f.count = w.f.count =>
              /\ IF w.r.fenced
                 THEN /\ v.th = Append(ShutAt(w.th, w.r.at, TRUE), Fresh(Words(Opener)))
                      /\ v.r.at = Len(w.th) + 1 /\ v.r.spent = 2
                 ELSE /\ v.th = ShutAt(w.th, w.r.at, FALSE)
                      /\ v.r.at = 0 /\ v.r.spent = 0
    BY <1>1, <1>3, <2>1, RolloverHosted
  <2>3. v.f.count = w.f.count
    <3>1. w.f.count \in Nat /\ v.f.count >= w.f.count
      BY <1>1, <2>2, WorldTexts DEF Worse
    <3> QED
      BY <3>1
  <2>4. /\ w.th \in Thread /\ w.r.spent \in Nat /\ w.r.at \in Nat /\ w.r.fenced \in BOOLEAN
    BY <1>1, WorldParts DEF Fields
  <2>5. FenceOf(w) \in FenceSet /\ FenceOf(w).fenced = w.r.fenced
    BY <1>1, FenceTyped
  <2>6. /\ Streams(w.th, w.r.at, w.r.spent, FenceOf(w), FALSE)
        /\ Cards(w.th, w.r.at, w.r.beats, w.j.then, bt)
    BY <2>1, AloneParts DEF AloneOn
  <2>7. /\ th2 \in Thread /\ Len(th2) = Len(w.th) /\ DOMAIN th2 = DOMAIN w.th
        /\ SameLists(w.th, th2) /\ Streams(th2, 0, 0, NoFence, FALSE)
    BY <1>3, <2>1, <2>4, <2>5, <2>6, ShutLists
  <2>8. v.r.beats = w.r.beats /\ v.j.then = w.j.then /\ v.r.fenced = w.r.fenced
    BY <2>2 DEF SameWords
  <2>9. CASE w.r.fenced = TRUE
    <3> DEFINE m == Fresh(Words(Opener))
    <3>1. v.th = Append(th2, m) /\ v.r.at = Len(th2) + 1 /\ v.r.spent = 2
      BY <2>2, <2>3, <2>5, <2>7, <2>9
    <3>2. FenceOf(v) = [fenced |-> TRUE, partial |-> "empty"]
      BY <2>2, <2>8, <2>9 DEF FenceOf
    <3>3. /\ m \in Message /\ m.state = "open" /\ DOMAIN m.lists = {}
          /\ InStep(m, 2, [fenced |-> TRUE, partial |-> "empty"])
      BY OpenerInStep
    <3> HIDE DEF m, th2
    <3>4. 2 <= Budget /\ 2 \in Nat /\ Len(th2) + 1 > Len(w.th) /\ Len(th2) + 1 \in Nat
      BY <2>4, <2>7, Bounds DEF Thread
    <3>5. Streams(v.th, v.r.at, v.r.spent, FenceOf(v), FALSE)
      BY <2>7, <3>1, <3>2, <3>3, <3>4, StreamsStart
    <3>6. SameLists(w.th, v.th)
      BY <2>7, <3>1, <3>3, SameListsAppend, SameListsTwice
    <3>7. Cards(v.th, v.r.at, v.r.beats, v.j.then, bt)
      BY <2>4, <2>6, <2>8, <3>1, <3>4, <3>6, CardsSame
    <3> QED
      BY <2>1, <2>8, <3>5, <3>7, AloneParts DEF AloneOn
  <2>10. CASE w.r.fenced = FALSE
    <3>1. v.th = th2 /\ v.r.at = 0 /\ v.r.spent = 0
      BY <2>2, <2>3, <2>5, <2>10
    <3>2. FenceOf(v) = NoFence
      BY <2>2, <2>8, <2>10 DEF FenceOf, NoFence
    <3> HIDE DEF th2
    <3>3. Streams(v.th, v.r.at, v.r.spent, FenceOf(v), FALSE)
      BY <2>7, <3>1, <3>2
    <3>4. Cards(v.th, v.r.at, v.r.beats, v.j.then, bt)
      BY <2>4, <2>6, <2>7, <2>8, <3>1, CardsSame
    <3> QED
      BY <2>1, <2>8, <3>3, <3>4, AloneParts DEF AloneOn
  <2> QED
    BY <2>4, <2>9, <2>10
<1> QED
  BY <1>2, <1>3

(* A chunk is written into stream i.                                       *)
Rewrites(th, th2, i, c) ==
  \E th1 \in Thread : /\ SameLists(th, th1)
                      /\ i \in DOMAIN th1 /\ th1[i].kind = "stream"
                      /\ th2 = [th1 EXCEPT ![i] = Apply(th1[i], c)]

LEMMA GrowsAt ==
  ASSUME NEW th, NEW th1 \in Thread, SameLists(th, th1), NEW i \in DOMAIN th1, i # 0,
         th1[i].kind = "stream", th1[i].state = "open",
         NEW spent \in Nat, NEW fence \in FenceSet, Streams(th1, i, spent, fence, FALSE),
         NEW c \in Chunks, \A p \in 1 .. Len(c.text) : c.text[p] > 0, spent + Len(c.text) <= Budget,
         NEW th2, th2 = [th1 EXCEPT ![i] = Apply(th1[i], c)]
  PROVE  /\ Rewrites(th, th2, i, c)
         /\ Streams(th2, i, spent + Len(c.text), Consumed(fence, c.text), FALSE)
<1>1. Rewrites(th, th2, i, c)
  BY DEF Rewrites
<1>2. Streams([th1 EXCEPT ![i] = Apply(th1[i], c)], i, spent + Len(c.text), Consumed(fence, c.text), FALSE)
  BY StreamsGrow
<1> QED
  BY <1>1, <1>2

(* A new stream, with what is written into it first                        *)
LEMMA StartsAt ==
  ASSUME NEW th, NEW th0 \in Thread, SameLists(th, th0), NEW s, NEW f, Streams(th0, 0, s, f, FALSE),
         NEW m \in Message, m.kind = "stream", m.state = "open", DOMAIN m.lists = {},
         NEW spent \in Nat, NEW fence \in FenceSet, InStep(m, spent, fence),
         NEW c \in Chunks, \A p \in 1 .. Len(c.text) : c.text[p] > 0, spent + Len(c.text) <= Budget,
         NEW th2, th2 = Append(th0, Apply(m, c))
  PROVE  /\ Rewrites(th, th2, Len(th0) + 1, c)
         /\ Streams(th2, Len(th0) + 1, spent + Len(c.text), Consumed(fence, c.text), FALSE)
<1> DEFINE th1 == Append(th0, m)
           i   == Len(th0) + 1
<1>1. Len(c.text) \in Nat
  BY DEF Chunks
<1>2. /\ th1 \in Thread /\ Len(th0) \in Nat /\ i \in DOMAIN th1 /\ th1[i] = m
  BY AppendAt
<1>3. SameLists(th, th1)
  BY SameListsAppend, SameListsTwice
<1>4. spent <= Budget
  BY <1>1, Bounds
<1>5. Streams(th1, i, spent, fence, FALSE)
  BY <1>4, StreamsStart
<1>6. Apply(m, c) \in Message
  BY ApplyTyped
<1>7. [th1 EXCEPT ![i] = Apply(m, c)] = Append(th0, Apply(m, c))
  BY <1>6, AppendExcept
<1>8. i # 0
  BY <1>2
<1> HIDE DEF th1, i
<1>9. th2 = [th1 EXCEPT ![i] = Apply(th1[i], c)]
  BY <1>2, <1>7
<1>10. /\ Rewrites(th, th2, i, c)
       /\ Streams(th2, i, spent + Len(c.text), Consumed(fence, c.text), FALSE)
  BY <1>2, <1>3, <1>5, <1>8, <1>9, GrowsAt
<1> QED
  BY <1>10 DEF i

LEMMA StartsAnew ==
  ASSUME NEW th, NEW th0 \in Thread, SameLists(th, th0), NEW s, NEW f, Streams(th0, 0, s, f, FALSE),
         NEW c \in Chunks, \A p \in 1 .. Len(c.text) : c.text[p] > 0, Len(c.text) <= Budget,
         NEW th2, th2 = Append(th0, Fresh(c))
  PROVE  /\ Rewrites(th, th2, Len(th0) + 1, c)
         /\ Streams(th2, Len(th0) + 1, Len(c.text), Consumed(NoFence, c.text), FALSE)
<1> DEFINE m == NewMessage("stream", <<>>)
<1>1. /\ m \in Message /\ m.kind = "stream" /\ m.state = "open" /\ m.lists = <<>>
      /\ InStep(m, 0, NoFence) /\ NoFence \in FenceSet
  BY EmptyInStep
<1>2. th2 = Append(th0, Apply(m, c))
  BY DEF Fresh
<1> HIDE DEF m
<1>3. DOMAIN m.lists = {}
  BY <1>1, NoLists
<1>4. Len(c.text) \in Nat /\ 0 \in Nat /\ 0 + Len(c.text) = Len(c.text)
  BY DEF Chunks
<1>5. 0 + Len(c.text) <= Budget
  BY <1>4
<1>6. /\ Rewrites(th, th2, Len(th0) + 1, c)
      /\ Streams(th2, Len(th0) + 1, 0 + Len(c.text), Consumed(NoFence, c.text), FALSE)
  BY <1>1, <1>2, <1>3, <1>4, <1>5, StartsAt
<1> QED
  BY <1>4, <1>6

(* What `append` leaves, when no call fails                                *)
Writing(w, v, c) ==
  /\ Rewrites(w.th, v.th, v.r.at, c)
  /\ v.r.at = w.r.at \/ v.r.at > Len(w.th)
  /\ v.r.at # 0
  /\ Streams(v.th, v.r.at, v.r.spent + Len(c.text), Consumed(FenceOf(v), c.text), FALSE)

LEMMA AppendAlone ==
  ASSUME hosts, NEW w, Fitting(hosts, w), Streams(w.th, w.r.at, w.r.spent, FenceOf(w), FALSE),
         NEW c \in Chunks, \A p \in 1 .. Len(c.text) : c.text[p] > 0,
         Len(c.text) + 2 <= MaxText, w.r.spent + Len(c.text) <= Budget,
         NEW v \in AppendChunk(w, c), v.f.count = 0
  PROVE  /\ v \in Worlds /\ SameWords(w.r, v.r) /\ v.j = w.j /\ v.said = "ok"
         /\ Writing(w, v, c)
<1>1. /\ w \in Worlds /\ StreamAt(w.th, w.r.at) /\ w.r.mode = "streaming"
  BY DEF Fitting
<1>2. /\ v \in Worlds /\ SameWords(w.r, v.r) /\ v.j = w.j /\ Worse(w.f, v.f)
      /\ v.f.count = w.f.count /\ Len(c.text) + 2 <= MaxText =>
              v.said = "ok" /\ v.f = w.f /\ CalmAppend(w, v, c)
  BY <1>1, AppendHosted
<1>3. v.f.count = w.f.count
  <2>1. w.f.count \in Nat /\ v.f.count >= w.f.count
    BY <1>1, <1>2, WorldTexts DEF Worse
  <2> QED
    BY <2>1
<1>4. v.said = "ok" /\ CalmAppend(w, v, c)
  BY <1>2, <1>3
<1>5. /\ w.th \in Thread /\ w.r.spent \in Nat /\ w.r.at \in Nat /\ w.r.fenced \in BOOLEAN
      /\ Len(w.th) \in Nat /\ Len(c.text) \in Nat
  BY <1>1, WorldParts DEF Fields, Thread, Chunks
<1>6. /\ FenceOf(w) \in FenceSet /\ FenceOf(w).fenced = w.r.fenced /\ FenceOf(w).partial = w.r.partial
      /\ v.r.fenced = w.r.fenced
  BY <1>1, <1>2, FenceTyped DEF SameWords
<1>7. Streams(w.th, w.r.at, w.r.spent, FenceOf(w), FALSE)
  OBVIOUS
<1>8. CASE /\ w.r.at = 0
           /\ v.th = Append(w.th, Fresh(c)) /\ v.r.at = Len(w.th) + 1
           /\ v.r.spent = 0 /\ v.r.partial = w.r.partial
  <2>1. FenceOf(v) = NoFence
    <3>1. FenceOf(w) = NoFence
      BY <1>7, <1>8 DEF Streams
    <3> QED
      BY <1>6, <1>8, <3>1 DEF FenceOf
  <2>2. Len(c.text) <= Budget
    BY <1>5, Bounds
  <2>3. Streams(w.th, 0, w.r.spent, FenceOf(w), FALSE)
    BY <1>7, <1>8
  <2>4. /\ Rewrites(w.th, v.th, v.r.at, c)
        /\ Streams(v.th, v.r.at, Len(c.text), Consumed(NoFence, c.text), FALSE)
    BY <1>5, <1>8, <2>2, <2>3, SameListsSelf, StartsAnew
  <2>5. v.r.spent + Len(c.text) = Len(c.text) /\ v.r.at # 0 /\ v.r.at > Len(w.th)
    BY <1>5, <1>8
  <2> QED
    BY <1>2, <1>4, <2>1, <2>4, <2>5 DEF Writing
<1>9. CASE /\ w.r.at # 0 /\ w.th[w.r.at].state = "open"
           /\ v.th = [w.th EXCEPT ![w.r.at] = Apply(w.th[w.r.at], c)] /\ v.r.at = w.r.at
           /\ v.r.spent = w.r.spent /\ v.r.partial = w.r.partial
  <2>1. FenceOf(v) = FenceOf(w)
    BY <1>6, <1>9 DEF FenceOf
  <2>2. w.r.at \in DOMAIN w.th /\ w.th[w.r.at].kind = "stream"
    BY <1>1, <1>9 DEF StreamAt
  <2>3. /\ Rewrites(w.th, v.th, w.r.at, c)
        /\ Streams(v.th, w.r.at, w.r.spent + Len(c.text), Consumed(FenceOf(w), c.text), FALSE)
    BY <1>5, <1>6, <1>7, <1>9, <2>2, SameListsSelf, GrowsAt
  <2> QED
    BY <1>2, <1>4, <1>9, <2>1, <2>3 DEF Writing
<1>10. CASE /\ w.r.at # 0
            /\ v.r.at = Len(w.th) + 1 /\ v.r.partial = "empty"
            /\ IF w.r.fenced
               THEN /\ v.th = Append(ShutAt(w.th, w.r.at, TRUE), Apply(Fresh(Words(Opener)), c))
                    /\ v.r.spent = 2
               ELSE /\ v.th = Append(ShutAt(w.th, w.r.at, FALSE), Fresh(c))
                    /\ v.r.spent = 0
  <2> DEFINE th2 == ShutAt(w.th, w.r.at, FenceOf(w).fenced)
  <2>1. w.r.at \in DOMAIN w.th /\ w.th[w.r.at].kind = "stream"
    BY <1>1, <1>10 DEF StreamAt
  <2>2. /\ th2 \in Thread /\ Len(th2) = Len(w.th)
        /\ SameLists(w.th, th2) /\ Streams(th2, 0, 0, NoFence, FALSE)
    BY <1>5, <1>6, <1>7, <1>10, <2>1, ShutLists
  <2>3. v.r.at # 0 /\ v.r.at > Len(w.th)
    BY <1>5, <1>10
  <2>4. CASE w.r.fenced = TRUE
    <3> DEFINE m == Fresh(Words(Opener))
               f == [fenced |-> TRUE, partial |-> "empty"]
    <3>1. v.th = Append(th2, Apply(m, c)) /\ v.r.at = Len(th2) + 1 /\ v.r.spent = 2
      BY <1>6, <1>10, <2>2, <2>4
    <3>2. FenceOf(v) = f /\ f \in FenceSet
      BY <1>6, <1>10, <2>4 DEF FenceOf, FenceSet, Partials
    <3>3. /\ m \in Message /\ m.kind = "stream" /\ m.state = "open" /\ DOMAIN m.lists = {}
          /\ InStep(m, 2, f)
      BY OpenerInStep
    <3> HIDE DEF m, th2, f
    <3>4. w.r.spent >= 2
      <4>1. w.th[w.r.at] \in Message
        BY <1>5, <2>1 DEF Thread
      <4>2. /\ Len(w.th[w.r.at].text) <= w.r.spent /\ FenceIn(w.th[w.r.at]) = FenceOf(w)
        BY <1>7, <1>10 DEF Streams, InStep
      <4>3. w.th[w.r.at].text \in Seq(Int) /\ Len(w.th[w.r.at].text) \in Nat
        BY <2>1, <4>1, TextOf
      <4>4. Consumed(NoFence, w.th[w.r.at].text).fenced = TRUE
        BY <1>6, <2>4, <4>2 DEF FenceIn
      <4>5. ~(Len(w.th[w.r.at].text) < 2)
        BY <4>3, <4>4, FencedLong
      <4> QED
        BY <1>5, <4>2, <4>3, <4>5
    <3>5. 2 + Len(c.text) <= Budget /\ 2 \in Nat
      BY <1>5, <3>4, Bounds
    <3>6. /\ Rewrites(w.th, v.th, v.r.at, c)
          /\ Streams(v.th, v.r.at, 2 + Len(c.text), Consumed(f, c.text), FALSE)
      <4>1. v.th = Append(th2, Apply(m, c)) /\ th2 \in Thread /\ SameLists(w.th, th2) /\ f \in FenceSet
            /\ Streams(th2, 0, 0, NoFence, FALSE)
        BY <2>2, <3>1, <3>2
      <4>2. /\ Rewrites(w.th, v.th, Len(th2) + 1, c)
            /\ Streams(v.th, Len(th2) + 1, 2 + Len(c.text), Consumed(f, c.text), FALSE)
        BY <3>3, <3>5, <4>1, StartsAt
      <4> QED
        BY <3>1, <4>2
    <3> QED
      BY <1>2, <1>4, <2>3, <3>1, <3>2, <3>6 DEF Writing
  <2>5. CASE w.r.fenced = FALSE
    <3>1. v.th = Append(th2, Fresh(c)) /\ v.r.at = Len(th2) + 1 /\ v.r.spent = 0
      BY <1>6, <1>10, <2>2, <2>5
    <3>2. FenceOf(v) = NoFence
      BY <1>6, <1>10, <2>5 DEF FenceOf, NoFence
    <3> HIDE DEF th2
    <3>3. Len(c.text) <= Budget
      BY <1>5, Bounds
    <3>4. /\ Rewrites(w.th, v.th, v.r.at, c)
          /\ Streams(v.th, v.r.at, Len(c.text), Consumed(NoFence, c.text), FALSE)
      BY <2>2, <3>1, <3>3, StartsAnew
    <3>5. v.r.spent + Len(c.text) = Len(c.text)
      BY <1>5, <3>1
    <3> QED
      BY <1>2, <1>4, <2>3, <3>1, <3>2, <3>4, <3>5 DEF Writing
  <2> QED
    BY <1>5, <2>4, <2>5
<1> QED
  BY <1>4, <1>8, <1>9, <1>10 DEF CalmAppend

(* Calls only ever add to what went wrong.                                 *)
LEMMA AppendCounts ==
  ASSUME NEW w, Fitting(hosts, w), NEW c \in Chunks, NEW v \in AppendChunk(w, c)
  PROVE  /\ v \in Worlds /\ v.f.count \in Nat /\ w.f.count \in Nat /\ v.f.count >= w.f.count
         /\ v.j.rest = w.j.rest /\ v.j.then = w.j.then
         /\ ~hosts => v.th = w.th
<1>1. w \in Worlds /\ StreamAt(w.th, w.r.at)
      /\ (hosts => w.r.mode = "streaming") /\ (~hosts => w.r.at = 0)
  BY DEF Fitting
<1>2. CASE hosts
  <2>1. v \in Worlds /\ v.j = w.j /\ Worse(w.f, v.f)
    BY <1>1, <1>2, AppendHosted
  <2> QED
    BY <1>1, <1>2, <2>1, WorldTexts DEF Worse
<1>3. CASE ~hosts
  <2>1. /\ v \in Worlds /\ v.th = w.th /\ Worse(w.f, v.f)
        /\ v.j.rest = w.j.rest /\ v.j.then = w.j.then
    BY <1>1, <1>3, AppendUnhosted
  <2> QED
    BY <1>1, <2>1, WorldTexts DEF Worse
<1> QED
  BY <1>2, <1>3

LEMMA RewrittenLists ==
  ASSUME NEW th, NEW th2, NEW i, NEW c \in Chunks, c.lists = <<>>, Rewrites(th, th2, i, c)
  PROVE  SameLists(th, th2)
<1>1. PICK th1 \in Thread : /\ SameLists(th, th1)
                            /\ i \in DOMAIN th1 /\ th1[i].kind = "stream"
                            /\ th2 = [th1 EXCEPT ![i] = Apply(th1[i], c)]
  BY DEF Rewrites
<1>2. th1[i] \in Message
  BY <1>1 DEF Thread
<1>3. Apply(th1[i], c) \in Message /\ Apply(th1[i], c).lists = Redrawn(c.lists, th1[i].lists)
  BY <1>1, <1>2, ApplyTyped
<1>4. th1[i].lists \in Lists
  BY <1>2 DEF Message
<1>5. Apply(th1[i], c).lists = th1[i].lists
  BY <1>3, <1>4, RedrawnNone
<1>6. SameLists(th1, th2)
  BY <1>1, <1>3, <1>5, SameListsExcept
<1> QED
  BY <1>1, <1>6, SameListsTwice

LEMMA PieceCounts ==
  ASSUME NEW w, NEW top, NEW tl, Good(hosts, w, top, tl), NEW u \in Pieces(w)
  PROVE  /\ u.f.count \in Nat /\ w.f.count \in Nat /\ u.f.count >= w.f.count
         /\ u.j.then = w.j.then
         /\ ~hosts => u.th = w.th
         /\ \E v \in AppendChunk(w, Words(PieceOf(w))) :
              /\ v.f.count = u.f.count
              /\ v.said = "ok" =>
                   /\ Consumed(FenceOf(v), PieceOf(w)) \in FenceSet
                   /\ u.th = v.th /\ u.r.at = v.r.at /\ u.r.beats = v.r.beats
                   /\ v.r.mode = "streaming" => u.r.spent = v.r.spent + Cut(w)
                   /\ FenceOf(u) = Consumed(FenceOf(v), PieceOf(w))
<1> DEFINE cut   == Cut(w)
           piece == PieceOf(w)
           c     == Words(piece)
<1>1. w \in Worlds /\ Counted(w, top) /\ Fitting(hosts, w)
  BY DEF Good, Fitting
<1>2. /\ cut \in Nat /\ cut <= Len(w.j.rest) /\ piece \in Seq(Int) /\ c \in Chunks
  BY <1>1, PieceFacts
<1>3. PICK v \in AppendChunk(w, c) :
        u = IF v.said = "ok" THEN Inked(v, cut, Consumed(FenceOf(v), piece)) ELSE GivenUp(v)
  BY DEF Pieces
<1> HIDE DEF cut, piece, c
<1>4. /\ v \in Worlds /\ v.f.count \in Nat /\ w.f.count \in Nat /\ v.f.count >= w.f.count
      /\ v.j.rest = w.j.rest /\ v.j.then = w.j.then
      /\ ~hosts => v.th = w.th
  BY <1>1, <1>2, <1>3, AppendCounts
<1>5. CASE v.said = "ok"
  <2> DEFINE fence == Consumed(FenceOf(v), piece)
  <2>1. fence \in FenceSet /\ u = Inked(v, cut, fence)
    BY <1>2, <1>3, <1>4, <1>5, FenceTyped, ConsumedTyped
  <2> HIDE DEF fence
  <2>2. cut <= Len(v.j.rest)
    BY <1>2, <1>4
  <2>3. /\ u.th = v.th /\ u.f = v.f /\ u.j.then = v.j.then
        /\ u.r.spent = IF v.r.mode = "streaming" THEN v.r.spent + cut ELSE 0
        /\ u.r.fenced = fence.fenced /\ u.r.partial = fence.partial
        /\ u.r.at = v.r.at /\ SameText(v.r, u.r)
    BY <1>2, <1>4, <2>1, <2>2, InkedFacts
  <2>4. FenceOf(u) = fence
    BY <2>1, <2>3 DEF FenceOf, FenceSet
  <2>5. u.r.beats = v.r.beats
    BY <2>3 DEF SameText
  <2> QED
    BY <1>3, <1>4, <2>1, <2>3, <2>4, <2>5 DEF fence, cut, piece, c
<1>6. CASE v.said # "ok"
  <2>1. u = GivenUp(v)
    BY <1>3, <1>6
  <2>2. u.f.count = v.f.count /\ u.th = v.th /\ u.j.then = v.j.then
    BY <1>4, <2>1, GivenUpFacts
  <2> QED
    BY <1>3, <1>4, <1>6, <2>2 DEF piece, c
<1> QED
  BY <1>5, <1>6

LEMMA PieceAlone ==
  ASSUME NEW w, NEW top, NEW tl, Good(hosts, w, top, tl), NEW bt, AloneOn(w, bt),
         w.j.then # "over", w.r.spent < Budget, NEW u \in Pieces(w), u.f.count = 0
  PROVE  AloneOn(u, bt)
<1>1. /\ u.j.then = w.j.then
      /\ ~hosts => u.th = w.th
  BY PieceCounts
<1>2. PICK v \in AppendChunk(w, Words(PieceOf(w))) :
        /\ v.f.count = u.f.count
        /\ v.said = "ok" =>
             /\ Consumed(FenceOf(v), PieceOf(w)) \in FenceSet
             /\ u.th = v.th /\ u.r.at = v.r.at /\ u.r.beats = v.r.beats
             /\ v.r.mode = "streaming" => u.r.spent = v.r.spent + Cut(w)
             /\ FenceOf(u) = Consumed(FenceOf(v), PieceOf(w))
  BY PieceCounts
<1>3. CASE ~hosts
  BY <1>1, <1>3 DEF AloneOn
<1>4. CASE hosts
  <2> DEFINE piece == PieceOf(w)
             c     == Words(piece)
  <2>1. w \in Worlds /\ Counted(w, top) /\ Fitting(hosts, w) /\ Alone(w, bt)
    BY <1>4 DEF Good, Fitting, AloneOn
  <2>2. Left(w, top) \in Nat
    BY <2>1 DEF Counted
  <2>3. /\ Len(c.text) + 2 <= MaxText /\ w.r.spent + Len(c.text) <= Budget
        /\ Len(c.text) = Cut(w) /\ c.text = piece
        /\ \A p \in 1 .. Len(c.text) : c.text[p] > 0
        /\ c \in Chunks /\ c.lists = <<>>
    <3>1. /\ Cut(w) \in Nat /\ Cut(w) + 2 <= MaxText /\ w.r.spent + Cut(w) <= Budget
          /\ Len(PieceOf(w)) = Cut(w)
          /\ \A p \in 1 .. Len(PieceOf(w)) : PieceOf(w)[p] = Left(w, top) + p
          /\ Words(PieceOf(w)) \in Chunks /\ Words(PieceOf(w)).text = PieceOf(w)
          /\ Words(PieceOf(w)).lists = <<>>
      BY <2>1, PieceFacts
    <3>2. \A p \in 1 .. Len(PieceOf(w)) : PieceOf(w)[p] > 0
      BY <2>2, <3>1
    <3> QED
      BY <3>1, <3>2
  <2> HIDE DEF piece, c
  <2>4. v \in AppendChunk(w, c) /\ v.f.count = 0
    BY <1>2 DEF c, piece
  <2>5. /\ v \in Worlds /\ SameWords(w.r, v.r) /\ v.said = "ok"
        /\ Writing(w, v, c)
    <3>1. Streams(w.th, w.r.at, w.r.spent, FenceOf(w), FALSE)
      BY <2>1, AloneParts
    <3> QED
      BY <1>4, <2>1, <2>3, <2>4, <3>1, AppendAlone
  <2>6. v.r.mode = "streaming" /\ v.r.beats = w.r.beats
    BY <1>4, <2>1, <2>5 DEF Fitting, SameWords
  <2>7. /\ u.th = v.th /\ u.r.at = v.r.at /\ u.r.beats = w.r.beats
        /\ u.r.spent = v.r.spent + Len(c.text)
        /\ FenceOf(u) = Consumed(FenceOf(v), c.text)
    BY <1>2, <2>3, <2>5, <2>6 DEF piece
  <2>8. /\ Rewrites(w.th, v.th, v.r.at, c)
        /\ v.r.at = w.r.at \/ v.r.at > Len(w.th)
        /\ Streams(v.th, v.r.at, v.r.spent + Len(c.text), Consumed(FenceOf(v), c.text), FALSE)
    BY <2>5 DEF Writing
  <2>9. Streams(u.th, u.r.at, u.r.spent, FenceOf(u), FALSE)
    BY <2>7, <2>8
  <2>10. Cards(w.th, w.r.at, w.r.beats, w.j.then, bt)
    BY <2>1 DEF Alone
  <2>11. w.th \in Thread /\ v.r.at \in Nat
    BY <2>1, <2>5, WorldParts DEF Fields
  <2>12. SameLists(w.th, v.th)
    BY <2>3, <2>8, RewrittenLists
  <2>13. Cards(v.th, v.r.at, w.r.beats, w.j.then, bt)
    BY <2>8, <2>10, <2>11, <2>12, CardsSame
  <2>14. Alone(u, bt)
    BY <1>1, <2>7, <2>9, <2>13, AloneParts
  <2> QED
    BY <1>4, <2>14 DEF AloneOn
<1> QED
  BY <1>3, <1>4

LEMMA SameAlone ==
  ASSUME NEW w, NEW bt, AloneOn(w, bt), NEW v, v.th = w.th,
         v.r.at = w.r.at, v.r.spent = w.r.spent, v.r.fenced = w.r.fenced, v.r.partial = w.r.partial,
         v.r.beats = w.r.beats, v.j.then = w.j.then
  PROVE  AloneOn(v, bt)
<1>1. FenceOf(v) = FenceOf(w)
  BY DEF FenceOf
<1> QED
  BY <1>1 DEF AloneOn, Alone

LEMMA LeaveAlone ==
  ASSUME NEW w, Fitting(hosts, w), NEW bt, AloneOn(w, bt), w.j.then # "over",
         NEW v \in LeavePlaced(w)
  PROVE  v.f.count \in Nat /\ v.f.count >= w.f.count /\ (v.f.count = 0 => AloneOn(v, bt))
<1>1. w \in Worlds /\ (hosts => w.r.mode = "streaming")
  BY DEF Fitting
<1>2. Fitting(hosts, v) /\ Worse(w.f, v.f)
  BY LeavePlacedFacts
<1>3. v.f.count \in Nat /\ v.f.count >= w.f.count
  BY <1>2, WorldTexts DEF Worse, Fitting
<1>4. CASE ~w.r.placed
  <2>1. v = w
    BY <1>4 DEF LeavePlaced
  <2> QED
    BY <1>3, <2>1
<1>5. CASE w.r.placed /\ w.r.mode = "streaming"
  <2> DEFINE u == Unplaced(w)
  <2>1. v \in Rollover(u)
    <3>1. u.r.mode = w.r.mode
      BY <1>1, UnplacedFacts
    <3>2. LeavePlaced(w) = IF w.r.mode = "streaming" THEN Rollover(u) ELSE {Blanked(u)}
      BY <1>5 DEF LeavePlaced, Unplaced, Blanked
    <3> QED
      BY <1>5, <3>2
  <2>2. /\ u \in Worlds /\ u.th = w.th /\ u.f = w.f /\ u.j = w.j /\ u.r.mode = w.r.mode
        /\ u.r.at = w.r.at /\ u.r.spent = w.r.spent /\ u.r.fenced = w.r.fenced
        /\ u.r.partial = w.r.partial /\ u.r.beats = w.r.beats
    BY <1>1, UnplacedFacts
  <2> HIDE DEF u
  <2>3. Fitting(hosts, u)
    BY <2>2 DEF Fitting
  <2>4. AloneOn(u, bt) /\ u.j.then # "over"
    BY <2>2, SameAlone
  <2>5. v.f.count = 0 => AloneOn(v, bt)
    BY <2>1, <2>3, <2>4, RolledAlone
  <2> QED
    BY <1>3, <2>5
<1>6. CASE w.r.placed /\ w.r.mode # "streaming"
  <2>1. v.th = w.th /\ ~hosts
    BY <1>1, <1>6, LeavePlacedFacts
  <2> QED
    BY <1>3, <2>1 DEF AloneOn
<1> QED
  BY <1>4, <1>5, <1>6

(* Cutting off what is to be written writes nothing yet.                   *)
LEMMA EmitAlone ==
  ASSUME NEW w, Fitting(hosts, w), NEW bt, AloneOn(w, bt), w.j.then # "over",
         NEW cut \in 0 .. Len(w.r.pending), NEW v \in Emit(w, cut)
  PROVE  v.f.count = 0 => AloneOn(v, bt)
<1>1. w \in Worlds /\ w.r.pending \in Seq(Int) /\ (hosts => w.r.mode = "streaming")
  BY WorldTexts DEF Fitting
<1>2. CASE cut = 0
  <2>1. v = w
    BY <1>2 DEF Emit
  <2> QED
    BY <2>1
<1>3. CASE cut # 0
  <2> DEFINE text == SubSeq(w.r.pending, 1, cut)
             out  == Chopped(w, cut)
             J(u) == Joining(u.r.all, u.r.broken, text)
  <2>1. PICK u \in LeavePlaced(out) :
          v = IF u.r.mode = "streaming" THEN Rested(u, text) ELSE Rejoined(u, J(u))
    BY <1>3 DEF Emit, Chopped, Rested, Rejoined, Joining
  <2>2. cut \in Nat /\ cut <= Len(w.r.pending) /\ text \in Seq(Int)
    BY <1>1, CutText
  <2>3. /\ out \in Worlds /\ out.th = w.th /\ out.j = w.j /\ out.f = w.f
        /\ out.r.mode = w.r.mode /\ out.r.at = w.r.at /\ out.r.spent = w.r.spent
        /\ out.r.fenced = w.r.fenced /\ out.r.partial = w.r.partial /\ out.r.beats = w.r.beats
    BY <1>1, <2>2, ChoppedFacts
  <2> HIDE DEF out
  <2>4. Fitting(hosts, out) /\ out.j.then # "over"
    BY <2>3 DEF Fitting
  <2>5. AloneOn(out, bt)
    BY <2>3, SameAlone
  <2>6. Fitting(hosts, u) /\ (u.f.count = 0 => AloneOn(u, bt)) /\ u \in Worlds /\ u.j = out.j
    <3>1. Fitting(hosts, u) /\ u.j = out.j
      BY <2>4, LeavePlacedFacts
    <3> QED
      BY <2>4, <2>5, <3>1, LeaveAlone DEF Fitting
  <2>7. CASE u.r.mode = "streaming"
    <3>1. v = Rested(u, text)
      BY <2>1, <2>7
    <3> HIDE DEF text
    <3>2. v.th = u.th /\ v.f = u.f /\ v.r = u.r /\ v.j.then = u.j.then
      BY <2>2, <2>6, <3>1, RestedFacts
    <3>3. AloneOn(u, bt) => AloneOn(v, bt)
      BY <3>2, SameAlone
    <3> QED
      BY <2>6, <3>2, <3>3
  <2>8. CASE u.r.mode # "streaming"
    <3>1. v = Rejoined(u, J(u))
      BY <2>1, <2>8
    <3>2. J(u) \in Seq(Int)
      BY <2>2, <2>6, WorldTexts, JoinedUnits
    <3>3. ~hosts
      BY <2>6, <2>8 DEF Fitting
    <3> HIDE DEF J, text
    <3>4. v.th = u.th /\ v.f = u.f
      BY <2>6, <3>1, <3>2, RejoinedFacts
    <3> QED
      BY <2>6, <3>3, <3>4 DEF AloneOn
  <2> QED
    BY <2>7, <2>8
<1> QED
  BY <1>2, <1>3

LEMMA RewrittenList ==
  ASSUME NEW th, NEW th2, NEW i, NEW b \in Nat, NEW beat \in Beats,
         Rewrites(th, th2, i, List(b, beat))
  PROVE  DrawnAt(th, th2, i, b, beat)
<1> DEFINE c == List(b, beat)
<1>1. c \in Chunks /\ DOMAIN c.lists = {b} /\ c.lists[b] = beat
  BY ListTyped
<1> HIDE DEF c
<1>2. PICK th1 \in Thread : /\ SameLists(th, th1)
                            /\ i \in DOMAIN th1 /\ th1[i].kind = "stream"
                            /\ th2 = [th1 EXCEPT ![i] = Apply(th1[i], c)]
  BY DEF Rewrites, c
<1>3. th1[i] \in Message
  BY <1>2 DEF Thread
<1>4. th1[i].lists \in Lists /\ c.lists \in Lists
  BY <1>1, <1>3 DEF Message, Chunks
<1> DEFINE m == Apply(th1[i], c)
<1>5. m \in Message /\ m.lists = Redrawn(c.lists, th1[i].lists)
  BY <1>1, <1>2, <1>3, ApplyTyped
<1>6. /\ DOMAIN m.lists = {b} \cup DOMAIN th1[i].lists
      /\ m.lists[b] = beat
      /\ \A x \in DOMAIN th1[i].lists \ {b} : m.lists[x] = th1[i].lists[x]
  <2> DEFINE l == Redrawn(c.lists, th1[i].lists)
  <2>1. /\ DOMAIN l = DOMAIN c.lists \cup DOMAIN th1[i].lists
        /\ \A x \in DOMAIN c.lists : l[x] = c.lists[x]
        /\ \A x \in DOMAIN th1[i].lists \ DOMAIN c.lists : l[x] = th1[i].lists[x]
    BY <1>4, RedrawnTyped
  <2>2. m.lists = l
    BY <1>5
  <2> HIDE DEF l, m
  <2> QED
    BY <1>1, <2>1, <2>2
<1> HIDE DEF m
<1>7. /\ DOMAIN th2 = DOMAIN th1 /\ th2[i] = m
      /\ \A j \in DOMAIN th1 : j # i => th2[j] = th1[j]
  BY <1>2, <1>5, ExceptAt DEF m
<1>8. /\ DOMAIN th2[i].lists = DOMAIN th1[i].lists \cup {b}
      /\ th2[i].lists[b] = beat
      /\ \A x \in DOMAIN th1[i].lists : x # b => th2[i].lists[x] = th1[i].lists[x]
  BY <1>6, <1>7
<1> QED
  BY <1>2, <1>7, <1>8 DEF DrawnAt

(* The tool's card joins one list.                                         *)
LEMMA CardJoins ==
  ASSUME IInv, NEW t \in Tasks, NEW then, BeatsTell(reply.beats, then, beatOf)
  PROVE  Joins(reply.beats, NewBeats(t), BeatNo(t), t, beatOf[t])
<1> DEFINE b  == BeatNo(t)
           bs == reply.beats
           x  == OneBeat(t)
           nb == NewBeats(t)
<1>1. reply \in Fields /\ beatOf \in [Tasks -> Reported]
  BY WorldNow DEF IInv, Typed
<1>2. bs \in Seq(Beats) /\ reply.open \in 0 .. Len(bs) /\ Len(bs) \in Nat /\ DOMAIN bs = 1 .. Len(bs)
  <2>1. bs \in Seq(Beats)
    BY <1>1 DEF Fields
  <2>2. reply.open \in 0 .. Len(bs)
    BY WorldNow DEF Steady
  <2> QED
    BY <2>1, <2>2
<1>3. x \in Beats /\ DOMAIN x = {t} /\ x[t] = beatOf[t]
  <2>1. x \in [{t} -> Reported] /\ x[t] = beatOf[t]
    BY <1>1 DEF OneBeat
  <2>2. {t} \in SUBSET Tasks
    OBVIOUS
  <2> HIDE DEF x
  <2> QED
    BY <2>1, <2>2 DEF Beats
<1>4. BeatWith(t) = {k \in DOMAIN bs : t \in DOMAIN bs[k]}
  BY DEF BeatWith
<1>5. \A c \in DOMAIN bs : t \in DOMAIN bs[c] => c = b
  <2>1. SUFFICES ASSUME NEW c \in DOMAIN bs, t \in DOMAIN bs[c] PROVE c = b
    OBVIOUS
  <2>2. c \in BeatWith(t)
    BY <1>4, <2>1
  <2>3. b \in BeatWith(t)
    BY <2>2 DEF BeatNo
  <2> QED
    BY <1>4, <2>1, <2>3 DEF BeatsTell
<1>6. CASE BeatOwn(t)
  <2>1. b = Len(bs) + 1 /\ nb = Append(bs, x)
    BY <1>6 DEF BeatOwn, BeatNo, NewBeats
  <2> HIDE DEF b, bs, x, nb
  <2>2. /\ DOMAIN nb = DOMAIN bs \cup {b} /\ b \notin DOMAIN bs
        /\ nb[b] = x /\ \A c \in DOMAIN bs : nb[c] = bs[c]
    BY <1>2, <1>3, <2>1
  <2>3. Joins(bs, nb, b, t, beatOf[t])
    BY <1>3, <1>5, <2>2 DEF Joins
  <2> QED
    BY <2>3 DEF b, bs, nb
<1>7. CASE ~BeatOwn(t)
  <2>1. b \in DOMAIN bs
    <3>1. CASE BeatWith(t) # {}
      <4>1. b \in BeatWith(t)
        BY <3>1 DEF BeatNo
      <4> QED
        BY <1>4, <4>1
    <3>2. CASE BeatWith(t) = {}
      <4>1. b = reply.open /\ reply.open # 0
        BY <1>7, <3>2 DEF BeatNo, BeatOwn
      <4> QED
        BY <1>2, <4>1
    <3> QED
      BY <3>1, <3>2
  <2>2. nb = [bs EXCEPT ![b] = Redrawn(x, bs[b])]
    BY <1>7 DEF NewBeats
  <2> HIDE DEF b, bs, x, nb
  <2>3. bs[b] \in Beats
    BY <1>2, <2>1
  <2> DEFINE y == Redrawn(x, bs[b])
  <2>4. /\ DOMAIN y = DOMAIN x \cup DOMAIN bs[b]
        /\ \A k \in DOMAIN x : y[k] = x[k]
        /\ \A k \in DOMAIN bs[b] \ DOMAIN x : y[k] = bs[b][k]
    BY <1>3, <2>3, RedrawnBeat
  <2> HIDE DEF y
  <2>5. /\ DOMAIN nb = DOMAIN bs \cup {b}
        /\ nb[b] = y /\ \A c \in DOMAIN bs : c # b => nb[c] = bs[c]
    BY <1>2, <2>1, <2>2 DEF y
  <2>6. /\ t \in DOMAIN y /\ y[t] = beatOf[t]
        /\ DOMAIN y = DOMAIN bs[b] \cup {t}
        /\ \A k \in DOMAIN bs[b] : k # t => y[k] = bs[b][k]
    BY <1>3, <2>4
  <2>7. Joins(bs, nb, b, t, beatOf[t])
    BY <1>5, <2>1, <2>5, <2>6 DEF Joins
  <2> QED
    BY <2>7 DEF b, bs, nb
<1> QED
  BY <1>6, <1>7

(* A list kept for later: its tool is not done.                            *)
LEMMA HeldAlone ==
  ASSUME NEW u \in Worlds, NEW bt, Alone(u, bt), NEW t \in Tasks, u.j.then = t, ~Settled(bt[t]),
         NEW beats2 \in Seq(Beats), NEW open \in Nat, NEW b, Joins(u.r.beats, beats2, b, t, bt[t])
  PROVE  Alone(Resting(Listing(u, open, beats2)), bt)
<1> DEFINE w == Listing(u, open, beats2)
           v == Resting(w)
<1>1. t # "over"
  BY NamesAssumption DEF Stages
<1>2. /\ w \in Worlds /\ w.th = u.th /\ w.r.beats = beats2 /\ w.r.at = u.r.at /\ w.r.spent = u.r.spent
      /\ w.r.fenced = u.r.fenced /\ w.r.partial = u.r.partial
  BY ListingFacts
<1> HIDE DEF w
<1>3. v.th = w.th /\ v.r = w.r /\ v.j.then = "read"
  BY <1>2, RestingFacts
<1> HIDE DEF v
<1>4. FenceOf(v) = FenceOf(u)
  BY <1>2, <1>3 DEF FenceOf
<1>5. /\ Streams(u.th, u.r.at, u.r.spent, FenceOf(u), FALSE)
      /\ Cards(u.th, u.r.at, u.r.beats, t, bt)
  BY <1>1, AloneParts
<1>6. Cards(u.th, u.r.at, beats2, "read", bt)
  BY <1>5, CardsHeld
<1>7. Alone(v, bt)
  BY <1>2, <1>3, <1>4, <1>5, <1>6, AloneParts
<1> QED
  BY <1>7 DEF v, w

LEMMA DrawnAlone ==
  ASSUME hosts, NEW u, Fitting(hosts, u), NEW bt, Alone(u, bt), NEW t \in Tasks, u.j.then = t,
         NEW beats2 \in Seq(Beats), NEW open \in Nat, NEW b \in Nat, b \in DOMAIN beats2,
         Joins(u.r.beats, beats2, b, t, bt[t]),
         NEW z \in AppendChunk(Drawing(Listing(u, open, beats2), b), List(b, beats2[b])),
         z.f.count = 0
  PROVE  Alone(Resting(z), bt)
<1> DEFINE w == Listing(u, open, beats2)
           x == Drawing(w, b)
           c == List(b, beats2[b])
           v == Resting(z)
<1>1. t # "over" /\ u \in Worlds
  BY NamesAssumption DEF Stages, Fitting
<1>2. /\ w \in Worlds /\ w.th = u.th /\ w.j = u.j /\ w.r.beats = beats2 /\ w.r.at = u.r.at
      /\ w.r.spent = u.r.spent /\ w.r.mode = u.r.mode
      /\ w.r.fenced = u.r.fenced /\ w.r.partial = u.r.partial
  BY <1>1, ListingFacts
<1> HIDE DEF w
<1>3. /\ x \in Worlds /\ x.th = w.th /\ x.j = w.j /\ x.r.beats = w.r.beats /\ x.r.at = w.r.at
      /\ x.r.spent = w.r.spent /\ x.r.mode = w.r.mode
      /\ x.r.fenced = w.r.fenced /\ x.r.partial = w.r.partial
  BY <1>2, DrawingFacts
<1>4. beats2[b] \in Beats
  OBVIOUS
<1>5. c \in Chunks /\ c.text = <<>> /\ Len(c.text) = 0
  BY <1>4, ListTyped, Empties
<1>6. z \in AppendChunk(x, c)
  BY DEF w
<1> HIDE DEF x
<1>7. Fitting(hosts, x) /\ FenceOf(x) = FenceOf(u)
  BY <1>2, <1>3 DEF Fitting, FenceOf
<1>8. /\ Streams(u.th, u.r.at, u.r.spent, FenceOf(u), FALSE)
      /\ Cards(u.th, u.r.at, u.r.beats, t, bt)
  BY <1>1, AloneParts
<1>9. Streams(x.th, x.r.at, x.r.spent, FenceOf(x), FALSE)
  BY <1>2, <1>3, <1>7, <1>8
<1>10. x.r.spent \in Nat /\ u.th \in Thread /\ x.r.spent <= Budget
  BY <1>1, <1>3, <1>9, WorldParts DEF Fields, Streams
<1>11. /\ Len(c.text) + 2 <= MaxText /\ x.r.spent + Len(c.text) <= Budget
       /\ \A p \in 1 .. Len(c.text) : c.text[p] > 0
  BY <1>5, <1>10, Bounds
<1> HIDE DEF c
<1>12. z \in Worlds /\ SameWords(x.r, z.r) /\ Writing(x, z, c)
  BY <1>5, <1>6, <1>7, <1>9, <1>11, AppendAlone
<1>13. /\ Rewrites(u.th, z.th, z.r.at, c)
       /\ z.r.at = u.r.at \/ z.r.at > Len(u.th)
       /\ z.r.at # 0
       /\ Streams(z.th, z.r.at, z.r.spent + Len(c.text), Consumed(FenceOf(z), c.text), FALSE)
  BY <1>2, <1>3, <1>12 DEF Writing
<1>14. z.r.at \in Nat \ {0} /\ z.r.spent \in Nat
  BY <1>12, <1>13, WorldParts DEF Fields
<1>15. Streams(z.th, z.r.at, z.r.spent, FenceOf(z), FALSE)
  <2>1. z.r.spent + Len(c.text) = z.r.spent
    BY <1>5, <1>14
  <2>2. Consumed(FenceOf(z), c.text) = FenceOf(z)
    BY <1>5, ConsumedNone
  <2> QED
    BY <1>13, <2>1, <2>2
<1>16. DrawnAt(u.th, z.th, z.r.at, b, beats2[b])
  BY <1>4, <1>13, RewrittenList DEF c
<1>17. Cards(z.th, z.r.at, beats2, "read", bt)
  BY <1>8, <1>10, <1>13, <1>14, <1>16, CardsDrawn
<1>18. v.th = z.th /\ v.r = z.r /\ v.j.then = "read"
  BY <1>12, RestingFacts
<1> HIDE DEF v
<1>19. v.r.beats = beats2 /\ FenceOf(v) = FenceOf(z)
  BY <1>2, <1>3, <1>12, <1>18 DEF SameWords, FenceOf
<1>20. Alone(v, bt)
  BY <1>15, <1>17, <1>18, <1>19, AloneParts
<1> QED
  BY <1>20 DEF v

NowAlone == faults.count = 0 => AloneOn(World, beatOf)

LEMMA BecomesAlone ==
  ASSUME NEW w \in Worlds, Becomes(w), script' = script, hosts' = hosts, AloneOn(w, beatOf')
  PROVE  AloneOn(World, beatOf)'
<1>1. World'.th = w.th /\ World'.r = w.r /\ World'.j = w.j /\ World'.f = w.f
  BY BecomesWorld
<1>2. thread' = w.th /\ reply' = w.r /\ job' = w.j /\ faults' = w.f
  BY DEF Becomes
<1>3. \A i : FenceIn(thread[i])' = FenceIn(w.th[i])
  BY <1>2 DEF FenceIn, NoFence, Consumed, Consume, KindOf
<1>4. \A i : MarkLeft(thread[i])' <=> MarkLeft(w.th[i])
  BY <1>2 DEF MarkLeft, KindOf, SaidIn
<1>5. \A i : WellShut(thread[i])' <=> WellShut(w.th[i])
  BY <1>3, <1>4 DEF WellShut
<1>6. AllShut(thread, reply.at, job.then = "over")' <=> AllShut(w.th, w.r.at, w.j.then = "over")
  BY <1>2, <1>5 DEF AllShut
<1>7. SoleOpen(thread, reply.at, job.then = "over")' <=> SoleOpen(w.th, w.r.at, w.j.then = "over")
  BY <1>2 DEF SoleOpen
<1>8. FenceOf(World)' = FenceOf(w)
  BY <1>1 DEF FenceOf
<1>9. InStep(thread[reply.at], reply.spent, FenceOf(World))' <=> InStep(w.th[w.r.at], w.r.spent, FenceOf(w))
  BY <1>2, <1>3, <1>4, <1>8 DEF InStep
<1>10. Streams(thread, reply.at, reply.spent, FenceOf(World), job.then = "over")'
         <=> Streams(w.th, w.r.at, w.r.spent, FenceOf(w), w.j.then = "over")
  BY <1>2, <1>6, <1>7, <1>8, <1>9 DEF Streams, NoFence
<1>11. Cards(thread, reply.at, reply.beats, job.then, beatOf)'
         <=> Cards(w.th, w.r.at, w.r.beats, w.j.then, beatOf')
  BY <1>2 DEF Cards, ListsKnown, BeatsTell, ListsTell, ToldBy, Settled
<1>12. AllWhole(thread)' <=> AllWhole(w.th)
  BY <1>2 DEF AllWhole
<1>13. Alone(World, beatOf)' <=>
         /\ Streams(thread, reply.at, reply.spent, FenceOf(World), job.then = "over")'
         /\ Cards(thread, reply.at, reply.beats, job.then, beatOf)'
  BY WorldIs DEF Alone, World
<1>14. AloneOn(World, beatOf)' <=> IF hosts' THEN Alone(World, beatOf)' ELSE AllWhole(thread)'
  BY DEF AloneOn, World
<1> QED
  BY <1>10, <1>11, <1>12, <1>13, <1>14 DEF AloneOn, Alone

LEMMA StaysAlone ==
  ASSUME NowAlone, faults \in FaultsSet, NEW w \in Worlds, Becomes(w), script' = script, hosts' = hosts,
         w.f.count >= faults.count,
         faults.count = 0 /\ w.f.count = 0 /\ AloneOn(World, beatOf) => AloneOn(w, beatOf')
  PROVE  NowAlone'
<1>1. w.f \in FaultsSet /\ faults' = w.f
  BY WorldParts DEF Becomes
<1>2. w.f.count \in Nat /\ faults.count \in Nat
  BY <1>1, Bounds DEF FaultsSet
<1>3. NowAlone' <=> (faults'.count = 0 => AloneOn(World, beatOf)')
  BY DEF NowAlone
<1> SUFFICES ASSUME w.f.count = 0 PROVE AloneOn(World, beatOf)'
  BY <1>1, <1>3
<1>4. faults.count = 0
  BY <1>2
<1>5. AloneOn(w, beatOf')
  BY <1>4 DEF NowAlone
<1> QED
  BY <1>5, BecomesAlone

(* Only the reported tool's card may be behind, until it is drawn.         *)
LEMMA TurnAlone ==
  ASSUME World \in Worlds, AloneOn(World, beatOf), job.then = "read",
         NEW y, y.th = thread, y.r.at = reply.at, y.r.spent = reply.spent,
         y.r.fenced = reply.fenced, y.r.partial = reply.partial, y.r.beats = reply.beats,
         y.j.then # "over",
         NEW bt, hosts => \A x \in Tasks : x # y.j.then => bt[x] = beatOf[x]
  PROVE  AloneOn(y, bt)
<1>1. World.th = thread /\ World.r = reply /\ World.j = job
  BY WorldIs
<1>2. FenceOf(y) = FenceOf(World)
  BY <1>1 DEF FenceOf
<1>3. CASE hosts
  <2>1. "read" \notin Tasks
    BY NamesAssumption DEF Stages
  <2>2. /\ Streams(thread, reply.at, reply.spent, FenceOf(World), FALSE)
        /\ Cards(thread, reply.at, reply.beats, "read", beatOf)
    BY <1>1, <1>3, AloneParts DEF AloneOn
  <2>3. \A b \in DOMAIN reply.beats : DOMAIN reply.beats[b] \subseteq Tasks
    <3>1. reply.beats \in Seq(Beats)
      BY <1>1, WorldParts DEF Fields
    <3>2. TAKE b \in DOMAIN reply.beats
    <3>3. reply.beats[b] \in Beats
      BY <3>1, <3>2
    <3> QED
      BY <3>3 DEF Beats
  <2>4. Cards(thread, reply.at, reply.beats, y.j.then, bt)
    BY <1>3, <2>1, <2>2, <2>3, CardsTurn
  <2>5. Alone(y, bt)
    BY <1>2, <2>2, <2>4, AloneParts
  <2> QED
    BY <1>3, <2>5 DEF AloneOn
<1>4. CASE ~hosts
  BY <1>1, <1>4 DEF AloneOn
<1> QED
  BY <1>3, <1>4

LEMMA AloneWrites ==
  ASSUME NEW r \in Fields, World \in Worlds, NEW tl, NEW top,
         NEW then \in Stages \cup Tasks \cup Tools, then # "over",
         Good(hosts, WithR(World, r), top, tl), At("read"),
         NEW cut \in 0 .. Len(r.pending),
         NEW w \in Emit([World EXCEPT !.r = r, !.j.then = then], cut),
         r.at = reply.at, r.spent = reply.spent, r.fenced = reply.fenced, r.partial = reply.partial,
         r.beats = reply.beats, NEW bt,
         hosts => \A x \in Tasks : x # then => bt[x] = beatOf[x]
  PROVE  /\ w \in Worlds /\ w.f.count >= faults.count
         /\ w.f.count = 0 /\ AloneOn(World, beatOf) => AloneOn(w, bt)
<1> DEFINE x == WithR(World, r)
           y == GoingOn(x, then)
<1>1. /\ x \in Worlds /\ x.th = thread /\ x.r = r /\ x.j = job /\ x.f = faults
  BY WithRFacts, WorldIs
<1>2. job.then = "read" /\ job.rest = <<>> /\ job.part = 0
  BY DEF At
<1>3. y = [World EXCEPT !.r = r, !.j.then = then]
  BY DEF GoingOn, WithR, WithJ, World
<1>4. Good(hosts, x, top, tl)
  OBVIOUS
<1> HIDE DEF x
<1>5. /\ y \in Worlds /\ y.th = x.th /\ y.r = x.r /\ y.f = x.f
      /\ y.j.rest = x.j.rest /\ y.j.part = x.j.part /\ y.j.then = then
  BY <1>1, GoingOnFacts
<1>6. Good(hosts, y, top, tl)
  BY <1>1, <1>2, <1>4, GoodGoesOn
<1>7. w \in Emit(y, cut)
  BY <1>3
<1> HIDE DEF y
<1>8. AloneOn(World, beatOf) => AloneOn(y, bt)
  BY <1>1, <1>2, <1>5, TurnAlone
<1>9. cut \in 0 .. Len(y.r.pending) /\ y.j.rest = <<>> /\ y.j.part = 0 /\ y.j.then # "over"
  BY <1>1, <1>2, <1>5
<1>10. w \in Worlds /\ w.f.count >= y.f.count
  BY <1>6, <1>7, <1>9, EmitMore
<1>11. AloneOn(y, bt) /\ w.f.count = 0 => AloneOn(w, bt)
  BY <1>6, <1>7, <1>9, EmitAlone DEF Good
<1> QED
  BY <1>1, <1>5, <1>8, <1>10, <1>11

----------------------------------------------------------------------------
(* Every step leaves each message so *)

LEMMA SaysAlone ==
  ASSUME IInv, NowAlone, NEW n \in 1 .. Len(script), Says(n)
  PROVE  NowAlone'
<1> DEFINE q == reply.pending \o [i \in 1 .. n |-> said + i]
           r == [reply EXCEPT !.pending = q]
           y == [World EXCEPT !.r = r, !.j.then = "read"]
<1>1. At("read") /\ said' = said + n /\ script' = script /\ hosts' = hosts /\ beatOf' = beatOf
  BY DEF Says, Idle
<1>2. PICK cut \in Cuts(r) : \E w \in Emit(y, cut) : Becomes(w)
  BY DEF Says, Writes
<1>3. PICK w \in Emit(y, cut) : Becomes(w)
  BY <1>2
<1>4. /\ World \in Worlds /\ reply \in Fields /\ faults \in FaultsSet
      /\ Good(hosts, World, said, tool)
  BY <1>1, InvReads, WorldNow DEF IInv
<1>5. n \in Nat /\ said \in Nat /\ job.rest = <<>> /\ job.then = "read"
  BY <1>1, <1>4 DEF IInv, Typed, At, Fields
<1>6. q \in Seq(Int) /\ Good(hosts, Waiting(World, q), said + n, tool)
  <2>1. World.j.rest = <<>> /\ World.j.then = "read" /\ World.r.pending = reply.pending
    BY <1>5, WorldIs
  <2>2. /\ World.r.pending \o [i \in 1 .. n |-> said + i] \in Seq(Int)
        /\ Good(hosts, Waiting(World, World.r.pending \o [i \in 1 .. n |-> said + i]), said + n, tool)
    BY <1>4, <1>5, <2>1, GoodMore
  <2> QED
    BY <2>1, <2>2
<1> HIDE DEF q
<1>7. /\ r \in Fields
      /\ r.at = reply.at /\ r.spent = reply.spent /\ r.fenced = reply.fenced
      /\ r.partial = reply.partial /\ r.beats = reply.beats
  BY <1>4, <1>6 DEF Fields
<1>8. Waiting(World, q) = WithR(World, r)
  BY WorldIs DEF Waiting
<1> HIDE DEF r
<1>9. cut \in 0 .. Len(r.pending)
  BY <1>2, <1>7, CutsFacts
<1>10. "read" \in Stages \cup Tasks \cup Tools /\ "read" # "over"
  BY DEF Stages
<1>11. Good(hosts, WithR(World, r), said + n, tool)
  BY <1>6, <1>8
<1>12. w \in Emit([World EXCEPT !.r = r, !.j.then = "read"], cut)
  BY <1>3
<1> HIDE DEF y
<1>13. /\ w \in Worlds /\ w.f.count >= faults.count
       /\ w.f.count = 0 /\ AloneOn(World, beatOf) => AloneOn(w, beatOf)
  BY <1>1, <1>4, <1>7, <1>9, <1>10, <1>11, <1>12, AloneWrites
<1>14. faults.count = 0 /\ w.f.count = 0 /\ AloneOn(World, beatOf) => AloneOn(w, beatOf')
  BY <1>1, <1>13
<1> QED
  BY <1>1, <1>3, <1>4, <1>13, <1>14, StaysAlone

LEMMA WritingAlone ==
  ASSUME IInv, NowAlone, At("read"), NEW then \in Stages \cup Tasks \cup Tools, then # "over",
         NEW cut \in 0 .. Len(reply.pending), Writes(reply, cut, then),
         script' = script, hosts' = hosts,
         hosts => \A x \in Tasks : x # then => beatOf'[x] = beatOf[x]
  PROVE  NowAlone'
<1>1. PICK w \in Emit([World EXCEPT !.r = reply, !.j.then = then], cut) : Becomes(w)
  BY DEF Writes
<1>2. /\ World \in Worlds /\ reply \in Fields /\ WithR(World, reply) = World
      /\ Good(hosts, WithR(World, reply), said, tool)
  BY InvReads
<1>3. /\ w \in Worlds /\ w.f.count >= faults.count
      /\ w.f.count = 0 /\ AloneOn(World, beatOf) => AloneOn(w, beatOf')
  BY <1>1, <1>2, AloneWrites
<1> QED
  BY <1>1, <1>3, StaysAlone, WorldNow

LEMMA FlushAlone ==
  ASSUME IInv, NowAlone, FlushDue
  PROVE  NowAlone'
<1>1. PICK cut \in WordCuts(reply.pending) : Writes(reply, cut, "read")
  BY DEF FlushDue
<1>2. At("read") /\ script' = script /\ hosts' = hosts /\ beatOf' = beatOf
  BY DEF FlushDue, Idle
<1>3. cut \in 0 .. Len(reply.pending)
  <2>1. reply.pending \in Seq(Int)
    BY <1>2, InvReads
  <2> QED
    BY <1>1, <2>1, WordCutsFacts
<1>4. "read" \in Stages \cup Tasks \cup Tools /\ "read" # "over"
  BY DEF Stages
<1> QED
  BY <1>1, <1>2, <1>3, <1>4, WritingAlone

LEMMA ReportsAlone ==
  ASSUME IInv, NowAlone, NEW t \in Tasks, NEW status \in Statuses, Reports(t, status)
  PROVE  NowAlone'
<1> DEFINE then == IF reply.mode = "streaming" THEN t ELSE "break"
           cut  == Len(reply.pending)
<1>1. /\ At("read") /\ Writes(reply, cut, then)
      /\ script' = script /\ hosts' = hosts /\ beatOf' = [beatOf EXCEPT ![t] = status]
  BY DEF Reports, Idle
<1>2. then \in Stages \cup Tasks \cup Tools /\ then # "over"
  BY NamesAssumption DEF Stages
<1>3. cut \in 0 .. Len(reply.pending)
  BY <1>1, InvReads
<1>4. hosts => then = t
  BY WorldNow DEF Fitting
<1>5. \A x \in Tasks : x # t => beatOf'[x] = beatOf[x]
  BY <1>1 DEF IInv, Typed
<1> HIDE DEF then, cut
<1> QED
  BY <1>1, <1>2, <1>3, <1>4, <1>5, WritingAlone

LEMMA TakesAlone ==
  ASSUME IInv, NowAlone, Takes
  PROVE  NowAlone'
<1> DEFINE then == Head(asked)
           cut  == Len(reply.pending)
<1>1. /\ At("read") /\ Writes(reply, cut, then) /\ asked # <<>>
      /\ script' = script /\ hosts' = hosts /\ beatOf' = beatOf
  BY DEF Takes, Idle
<1>2. asked \in Seq(Tools)
  BY DEF IInv, Typed
<1>3. then \in Tools
  BY <1>1, <1>2
<1>4. then \in Stages \cup Tasks \cup Tools /\ then # "over"
  BY <1>3, NamesAssumption DEF Stages
<1>5. cut \in 0 .. Len(reply.pending)
  BY <1>1, InvReads
<1> HIDE DEF then, cut
<1> QED
  BY <1>1, <1>4, <1>5, WritingAlone

LEMMA EndsAlone ==
  ASSUME IInv, NowAlone, StreamEnds
  PROVE  NowAlone'
<1> DEFINE cut  == Len(reply.pending)
<1>1. /\ At("read") /\ Writes(reply, cut, "finish")
      /\ script' = script /\ hosts' = hosts /\ beatOf' = beatOf
  BY DEF StreamEnds, Idle
<1>2. "finish" \in Stages \cup Tasks \cup Tools /\ "finish" # "over"
  BY DEF Stages
<1>3. cut \in 0 .. Len(reply.pending)
  BY <1>1, InvReads
<1> HIDE DEF cut
<1> QED
  BY <1>1, <1>2, <1>3, WritingAlone

LEMMA RolledCounts ==
  ASSUME NEW w, Fitting(hosts, w), NEW bt, w.j.then # "over", NEW v \in Rollover(w)
  PROVE  /\ v \in Worlds /\ v.f.count \in Nat /\ v.f.count >= w.f.count
         /\ w.f.count \in Nat
         /\ v.f.count = 0 /\ AloneOn(w, bt) => AloneOn(v, bt)
<1>1. w \in Worlds /\ w.f.count \in Nat
  BY WorldTexts DEF Fitting
<1>2. CASE w.r.mode = "streaming"
  <2>1. Fitting(hosts, v) /\ Worse(w.f, v.f)
    BY <1>2, RolloverFits
  <2>2. v \in Worlds /\ v.f.count \in Nat
    BY <2>1, WorldTexts DEF Fitting
  <2> QED
    BY <1>1, <2>1, <2>2, RolledAlone DEF Worse
<1>3. CASE w.r.mode # "streaming"
  <2>1. v = w
    BY <1>3 DEF Rollover
  <2> QED
    BY <1>1, <2>1
<1> QED
  BY <1>2, <1>3

LEMMA PaintAlone ==
  ASSUME IInv, NowAlone, Paint
  PROVE  NowAlone'
<1>1. /\ job.rest # <<>> /\ job.part = 0
      /\ script' = script /\ hosts' = hosts /\ beatOf' = beatOf
  BY DEF Paint
<1>2. PICK u \in (IF Full(World) THEN Rollover(World) ELSE {World}) :
        /\ Good(hosts, u, said, tool) /\ u.j = job
        /\ \E w \in (IF Room(u) = 0 THEN Rollover(u) ELSE Pieces(u)) : Becomes(w)
  BY PaintIs
<1>3. PICK w \in (IF Room(u) = 0 THEN Rollover(u) ELSE Pieces(u)) : Becomes(w)
  BY <1>2
<1>4. /\ Fitting(hosts, World) /\ World.j = job /\ World.f = faults
      /\ faults \in FaultsSet /\ World \in Worlds /\ faults.count \in Nat /\ Shaped(World)
  BY WorldNow
<1>5. job.then # "over"
  BY <1>1, <1>4 DEF Shaped
<1>6. Fitting(hosts, u) /\ u \in Worlds
  BY <1>2 DEF Good, Fitting
<1>7. /\ u.f.count \in Nat /\ u.f.count >= faults.count
      /\ u.f.count = 0 /\ AloneOn(World, beatOf) => AloneOn(u, beatOf)
  <2>1. CASE u = World
    BY <1>4, <2>1
  <2>2. CASE u \in Rollover(World)
    BY <1>4, <1>5, <2>2, RolledCounts
  <2> QED
    BY <1>2, <2>1, <2>2
<1>8. u.j.then # "over"
  BY <1>2, <1>5
<1>9. /\ w \in Worlds /\ w.f.count \in Nat /\ w.f.count >= u.f.count
      /\ w.f.count = 0 /\ AloneOn(u, beatOf) => AloneOn(w, beatOf)
  <2>1. CASE Room(u) = 0
    <3>1. w \in Rollover(u)
      BY <1>3, <2>1
    <3> QED
      BY <1>6, <1>8, <3>1, RolledCounts
  <2>2. CASE Room(u) # 0
    <3>1. w \in Pieces(u)
      BY <1>3, <2>2
    <3>2. u.r.spent < Budget
      <4>1. u.r.spent \in Nat /\ Budget \in Nat
        BY <1>6, WorldParts, Bounds DEF Fields
      <4> QED
        BY <2>2, <4>1 DEF Room
    <3>3. w.f.count \in Nat /\ u.f.count \in Nat /\ w.f.count >= u.f.count
      BY <1>2, <3>1, PieceCounts
    <3>4. w.f.count = 0 /\ AloneOn(u, beatOf) => AloneOn(w, beatOf)
      BY <1>2, <1>8, <3>1, <3>2, PieceAlone
    <3>5. w \in Worlds
      BY <1>1, <1>2, <3>1, GoodPiece DEF Good, Fitting
    <3> QED
      BY <3>3, <3>4, <3>5
  <2> QED
    BY <2>1, <2>2
<1>10. w.f.count >= faults.count
  BY <1>4, <1>7, <1>9
<1>11. faults.count = 0 /\ w.f.count = 0 /\ AloneOn(World, beatOf) => AloneOn(w, beatOf')
  BY <1>1, <1>4, <1>7, <1>9
<1> QED
  BY <1>1, <1>3, <1>4, <1>9, <1>10, <1>11, StaysAlone

LEMMA DrawsAlone ==
  ASSUME IInv, NowAlone, NEW t \in Tasks, Draws(t)
  PROVE  NowAlone'
<1>1. /\ job.then = t
      /\ script' = script /\ hosts' = hosts /\ beatOf' = beatOf
  BY DEF Draws, At
<1>2. PICK u \in LeavePlaced(World) \cup {World} :
        /\ Good(hosts, u, said, tool) /\ u.j = job /\ u.r.beats = reply.beats
        /\ \E v \in DrawnFrom(u, t) : Becomes(v) /\ (Settled(beatOf[t]) => v \in Drawings(u, t))
  BY DrawsIs
<1>3. PICK v \in DrawnFrom(u, t) : Becomes(v) /\ (Settled(beatOf[t]) => v \in Drawings(u, t))
  BY <1>2
<1>4. /\ World.th = thread /\ World.r = reply /\ World.j = job /\ World.f = faults
      /\ faults \in FaultsSet /\ World \in Worlds /\ faults.count \in Nat /\ Fitting(hosts, World)
  BY WorldNow
<1>5. t # "over"
  BY NamesAssumption DEF Stages
<1>6. Fitting(hosts, u) /\ u \in Worlds
  BY <1>2 DEF Good, Fitting
<1>7. /\ u.f.count \in Nat /\ u.f.count >= faults.count
      /\ u.f.count = 0 /\ AloneOn(World, beatOf) => AloneOn(u, beatOf)
  <2>1. CASE u = World
    BY <1>4, <2>1
  <2>2. CASE u \in LeavePlaced(World)
    <3>1. ASSUME AloneOn(World, beatOf), u.f.count = 0 PROVE AloneOn(u, beatOf)
      BY <1>1, <1>4, <1>5, <2>2, <3>1, LeaveAlone
    <3>2. Worse(World.f, u.f)
      BY <1>4, <2>2, LeavePlacedFacts
    <3>3. u.f.count \in Nat
      BY <1>6, WorldTexts
    <3> QED
      BY <1>4, <3>1, <3>2, <3>3 DEF Worse
  <2> QED
    BY <1>2, <2>1, <2>2
<1>8. /\ BeatNo(t) \in Nat /\ NewOpen(t) \in Nat
      /\ NewBeats(t) \in Seq(Beats)
      /\ BeatNo(t) \in DOMAIN NewBeats(t) /\ NewBeats(t)[BeatNo(t)] \in Beats
  BY BeatFacts
<1>9. ASSUME hosts, AloneOn(World, beatOf)
      PROVE  Joins(u.r.beats, NewBeats(t), BeatNo(t), t, beatOf[t])
  <2>1. BeatsTell(reply.beats, t, beatOf)
    BY <1>1, <1>4, <1>9 DEF AloneOn, Alone, Cards
  <2> QED
    BY <1>2, <2>1, CardJoins
<1> DEFINE w == Listing(u, NewOpen(t), NewBeats(t))
           x == Drawing(w, BeatNo(t))
           c == List(BeatNo(t), NewBeats(t)[BeatNo(t)])
<1>10. /\ w \in Worlds /\ w.th = u.th /\ w.j = u.j /\ w.f = u.f /\ w.r.beats = NewBeats(t)
       /\ w.r.mode = u.r.mode /\ w.r.at = u.r.at /\ w.r.spent = u.r.spent
       /\ w.r.pending = u.r.pending /\ w.r.all = u.r.all /\ w.r.posted = u.r.posted
       /\ w.r.placed = u.r.placed
  BY <1>6, <1>8, ListingFacts
<1>11. v \in {Resting(z) : z \in AppendChunk(x, c)} \cup {Resting(w)}
       /\ (Settled(beatOf[t]) => v \in {Resting(z) : z \in AppendChunk(x, c)})
  BY <1>3, <1>10 DEF DrawnFrom, Drawings
<1>12. CASE v \in {Resting(z) : z \in AppendChunk(x, c)}
  <2>1. PICK z \in AppendChunk(x, c) : v = Resting(z)
    BY <1>12
  <2>2. ASSUME hosts, AloneOn(World, beatOf), u.f.count = 0, z.f.count = 0
        PROVE  AloneOn(v, beatOf)
    <3>1. Alone(u, beatOf)
      BY <1>7, <2>2 DEF AloneOn
    <3>2. Joins(u.r.beats, NewBeats(t), BeatNo(t), t, beatOf[t])
      BY <1>9, <2>2
    <3>3. Alone(Resting(z), beatOf)
      BY <1>1, <1>2, <1>6, <1>8, <2>1, <2>2, <3>1, <3>2, DrawnAlone
    <3> QED
      BY <2>1, <2>2, <3>3 DEF AloneOn
  <2> HIDE DEF w
  <2>3. /\ x \in Worlds /\ x.th = w.th /\ x.j = w.j /\ x.f = w.f /\ x.r.mode = w.r.mode
        /\ x.r.at = w.r.at /\ x.r.spent = w.r.spent
    BY <1>8, <1>10, DrawingFacts
  <2>4. c \in Chunks
    BY <1>8, ListTyped
  <2>5. z \in AppendChunk(x, c)
    BY <2>1
  <2> HIDE DEF x, c
  <2>6. Fitting(hosts, x)
    BY <1>6, <1>10, <2>3 DEF Fitting
  <2>7. z \in Worlds /\ z.f.count \in Nat /\ z.f.count >= u.f.count /\ (~hosts => z.th = u.th)
    BY <1>10, <2>3, <2>4, <2>5, <2>6, AppendCounts
  <2>8. v \in Worlds /\ v.f = z.f /\ v.th = z.th
    BY <2>1, <2>7, RestingFacts
  <2>9. ASSUME ~hosts, AloneOn(World, beatOf), u.f.count = 0 PROVE AloneOn(v, beatOf)
    BY <1>7, <2>7, <2>8, <2>9 DEF AloneOn
  <2>10. v.f.count >= faults.count
    BY <1>4, <1>7, <2>7, <2>8
  <2>11. faults.count = 0 /\ v.f.count = 0 /\ AloneOn(World, beatOf) => AloneOn(v, beatOf')
    <3> SUFFICES ASSUME v.f.count = 0, AloneOn(World, beatOf) PROVE AloneOn(v, beatOf)
      BY <1>1
    <3>1. u.f.count = 0 /\ z.f.count = 0
      BY <1>7, <2>7, <2>8
    <3> QED
      BY <2>2, <2>9, <3>1
  <2> QED
    BY <1>1, <1>3, <1>4, <2>8, <2>10, <2>11, StaysAlone
<1>13. CASE v \notin {Resting(z) : z \in AppendChunk(x, c)}
  <2>1. v = Resting(w) /\ ~Settled(beatOf[t])
    BY <1>11, <1>13
  <2>2. ASSUME hosts, AloneOn(World, beatOf), u.f.count = 0 PROVE AloneOn(v, beatOf)
    <3>1. Alone(u, beatOf)
      BY <1>7, <2>2 DEF AloneOn
    <3>2. Joins(u.r.beats, NewBeats(t), BeatNo(t), t, beatOf[t])
      BY <1>9, <2>2
    <3>3. Alone(Resting(w), beatOf)
      BY <1>1, <1>2, <1>6, <1>8, <2>1, <3>1, <3>2, HeldAlone
    <3> QED
      BY <2>1, <2>2, <3>3 DEF AloneOn
  <2> HIDE DEF w, x, c
  <2>3. v \in Worlds /\ v.f = u.f /\ v.th = u.th
    BY <1>10, <2>1, RestingFacts
  <2>4. ASSUME ~hosts, AloneOn(World, beatOf), u.f.count = 0 PROVE AloneOn(v, beatOf)
    BY <1>7, <2>3, <2>4 DEF AloneOn
  <2>5. faults.count = 0 /\ v.f.count = 0 /\ AloneOn(World, beatOf) => AloneOn(v, beatOf')
    BY <1>1, <2>2, <2>3, <2>4
  <2>6. v.f.count >= faults.count
    BY <1>7, <2>3
  <2> QED
    BY <1>1, <1>3, <1>4, <2>3, <2>5, <2>6, StaysAlone
<1> QED
  BY <1>12, <1>13

(* The task goes on to the next thing.                                     *)
LEMMA GoesOnAlone ==
  ASSUME NEW w \in Worlds, NEW bt, AloneOn(w, bt), w.j.then \notin Tasks, w.j.then # "over",
         NEW y, y.th = w.th, y.r.at = w.r.at, y.r.spent = w.r.spent,
         y.r.fenced = w.r.fenced, y.r.partial = w.r.partial, y.r.beats = w.r.beats,
         y.j.then # "over"
  PROVE  AloneOn(y, bt)
<1>1. FenceOf(y) = FenceOf(w)
  BY DEF FenceOf
<1>2. CASE hosts
  <2>1. /\ Streams(w.th, w.r.at, w.r.spent, FenceOf(w), FALSE)
        /\ Cards(w.th, w.r.at, w.r.beats, w.j.then, bt)
    BY <1>2, AloneParts DEF AloneOn
  <2>2. \A b \in DOMAIN w.r.beats : DOMAIN w.r.beats[b] \subseteq Tasks
    <3>1. w.r.beats \in Seq(Beats)
      BY WorldParts DEF Fields
    <3>2. TAKE b \in DOMAIN w.r.beats
    <3>3. w.r.beats[b] \in Beats
      BY <3>1, <3>2
    <3> QED
      BY <3>3 DEF Beats
  <2>3. Cards(w.th, w.r.at, w.r.beats, y.j.then, bt)
    BY <2>1, <2>2, CardsTurn
  <2>4. Alone(y, bt)
    BY <1>1, <2>1, <2>3, AloneParts
  <2> QED
    BY <1>2, <2>4 DEF AloneOn
<1>3. CASE ~hosts
  BY <1>3 DEF AloneOn
<1> QED
  BY <1>2, <1>3

LEMMA BreaksAlone ==
  ASSUME IInv, NowAlone, Breaks
  PROVE  NowAlone'
<1> DEFINE g == [reply EXCEPT !.broken = TRUE]
           x == WithR(World, g)
           w == WithJ(x, Reading)
<1>1. /\ job.then = "break"
      /\ reply' = g /\ job' = Reading /\ thread' = thread /\ faults' = faults
      /\ script' = script /\ hosts' = hosts /\ beatOf' = beatOf
  BY DEF Breaks, At
<1>2. /\ World \in Worlds /\ reply \in Fields /\ faults \in FaultsSet
      /\ faults.count \in Nat
      /\ World.th = thread /\ World.r = reply /\ World.j = job /\ World.f = faults
  BY WorldNow
<1>3. /\ g \in Fields /\ g.at = reply.at /\ g.spent = reply.spent /\ g.fenced = reply.fenced
      /\ g.partial = reply.partial /\ g.beats = reply.beats
  BY <1>2 DEF Fields
<1> HIDE DEF g
<1>4. x \in Worlds /\ x.th = thread /\ x.r = g /\ x.f = faults
  BY <1>2, <1>3, WithRFacts
<1> HIDE DEF x
<1>5. w \in Worlds /\ w.th = thread /\ w.r = g /\ w.f = faults /\ w.j = Reading
  BY <1>4, WithJFacts, ReadingTyped
<1> HIDE DEF w
<1>6. Becomes(w)
  BY <1>1, <1>5 DEF Becomes
<1>7. job.then \notin Tasks /\ job.then # "over" /\ w.j.then # "over"
  BY <1>1, <1>5, NamesAssumption, ReadingTyped DEF Stages
<1>8. AloneOn(World, beatOf) => AloneOn(w, beatOf)
  BY <1>2, <1>3, <1>5, <1>7, GoesOnAlone
<1>9. w.f.count >= faults.count
  BY <1>2, <1>5
<1> QED
  BY <1>1, <1>2, <1>5, <1>6, <1>8, <1>9, StaysAlone

LEMMA FinalizesAlone ==
  ASSUME IInv, NowAlone, NEW i \in DOMAIN thread, Finalizes(i)
  PROVE  NowAlone'
<1> DEFINE m == [thread[i] EXCEPT !.state = "finalized"]
           g == [faults EXCEPT !.ends = @ + 1]
           th2 == [thread EXCEPT ![i] = m]
           w == [th |-> th2, r |-> reply, j |-> job, f |-> g, said |-> "ok"]
<1>1. /\ thread' = th2 /\ faults' = g /\ faults.ends < MaxEnds /\ thread[i].state = "open"
      /\ reply' = reply /\ job' = job
      /\ script' = script /\ hosts' = hosts /\ beatOf' = beatOf
  BY DEF Finalizes, Finalized
<1>2. /\ World \in Worlds /\ thread \in Thread /\ reply \in Fields /\ job \in Jobs
      /\ faults \in FaultsSet /\ faults.count \in Nat
      /\ World.th = thread /\ World.r = reply /\ World.j = job /\ World.f = faults
  BY WorldNow
<1>3. thread[i] \in Message
  BY <1>2 DEF Thread
<1>4. /\ m \in Message /\ m.kind = thread[i].kind /\ m.text = thread[i].text
      /\ m.state = "finalized" /\ m.lists = thread[i].lists
  BY <1>3 DEF Message, States
<1>5. g \in FaultsSet /\ g.count = faults.count
  BY <1>1, <1>2, Bounds DEF FaultsSet
<1> HIDE DEF m, g
<1>6. th2 \in Thread
  BY <1>2, <1>4 DEF Thread
<1>7. ASSUME hosts, AloneOn(World, beatOf)
      PROVE  /\ Streams(th2, reply.at, reply.spent, FenceOf(World), job.then = "over")
             /\ Cards(th2, reply.at, reply.beats, job.then, beatOf)
  <2>1. /\ Streams(thread, reply.at, reply.spent, FenceOf(World), job.then = "over")
        /\ Cards(thread, reply.at, reply.beats, job.then, beatOf)
    BY <1>2, <1>7 DEF AloneOn, Alone
  <2>2. SameLists(thread, th2)
    BY <1>2, <1>4, SameListsExcept
  <2>3. Streams(th2, reply.at, reply.spent, FenceOf(World), job.then = "over")
    BY <1>2, <1>4, <2>1, StreamsEnd
  <2>4. reply.at \in Nat
    BY <1>2 DEF Fields
  <2> HIDE DEF th2
  <2> QED
    BY <1>2, <2>1, <2>2, <2>3, <2>4, CardsSame
<1> HIDE DEF th2
<1>8. w \in Worlds /\ w.th = th2 /\ w.r = reply /\ w.j = job /\ w.f = g
  BY <1>2, <1>5, <1>6 DEF Worlds, Sayings
<1> HIDE DEF w
<1>9. Becomes(w)
  BY <1>1, <1>8 DEF Becomes
<1>10. AloneOn(World, beatOf) => AloneOn(w, beatOf)
  <2>1. CASE hosts
    <3>1. FenceOf(w) = FenceOf(World)
      BY <1>2, <1>8 DEF FenceOf
    <3> QED
      BY <1>7, <1>8, <2>1, <3>1 DEF AloneOn, Alone
  <2>2. CASE ~hosts
    BY <1>1, <1>2, <2>2 DEF AloneOn, AllWhole
  <2> QED
    BY <2>1, <2>2
<1>11. w.f.count >= faults.count
  BY <1>2, <1>5, <1>8
<1> QED
  BY <1>1, <1>2, <1>8, <1>9, <1>10, <1>11, StaysAlone

LEMMA FinishesAlone ==
  ASSUME IInv, NowAlone, Finishes
  PROVE  NowAlone'
<1> DEFINE over == GoingOn(World, "over")
<1>1. /\ job.then = "finish"
      /\ script' = script /\ hosts' = hosts /\ beatOf' = beatOf
  BY DEF Finishes, At
<1>2. /\ World \in Worlds /\ faults.count \in Nat /\ faults \in FaultsSet
      /\ World.th = thread /\ World.r = reply /\ World.j = job /\ World.f = faults
      /\ Fitting(hosts, World) /\ thread \in Thread /\ reply \in Fields
  BY WorldNow
<1>3. over = [World EXCEPT !.j.then = "over"]
  BY DEF GoingOn, WithJ
<1>4. PICK v \in (IF reply.mode = "streaming" /\ reply.at # 0
                  THEN Called(over, StopStream(thread, reply.at)) ELSE {over}) : Becomes(v)
  BY <1>3 DEF Finishes
<1>5. /\ over \in Worlds /\ over.th = thread /\ over.r = reply /\ over.f = faults
      /\ over.j.then = "over"
  <2>1. "over" \in Stages \cup Tasks \cup Tools
    BY DEF Stages
  <2> QED
    BY <1>2, <2>1, GoingOnFacts
<1> HIDE DEF over
<1>6. reply.at \in Nat /\ (reply.at # 0 => reply.at \in DOMAIN thread) /\ (~hosts => reply.at = 0)
      /\ (hosts => reply.mode = "streaming")
  BY <1>2 DEF Fields, Fitting, StreamAt
<1>7. /\ v \in Worlds /\ v.r = reply /\ v.j = over.j /\ v.f.count >= faults.count
      /\ v.f.count = faults.count =>
           \/ v.th = thread /\ (reply.at = 0 \/ thread[reply.at].state # "open")
           \/ reply.at # 0 /\ v.th = [thread EXCEPT ![reply.at] = Stopped(thread[reply.at])]
           \/ ~hosts /\ v.th = thread
  <2>1. CASE reply.mode = "streaming" /\ reply.at # 0
    <3>1. v \in Called(over, StopStream(over.th, reply.at)) /\ reply.at \in DOMAIN over.th
      BY <1>4, <1>5, <1>6, <2>1
    <3>2. /\ v \in Worlds /\ v.r = over.r /\ v.j = over.j /\ Worse(over.f, v.f)
          /\ v.f.count = over.f.count =>
               /\ over.th[reply.at].state # "open" => v.th = over.th
               /\ over.th[reply.at].state = "open" =>
                    v.th = [over.th EXCEPT ![reply.at] = Stopped(over.th[reply.at])]
      BY <1>5, <3>1, StopHosted
    <3> QED
      BY <1>5, <2>1, <3>2 DEF Worse
  <2>2. CASE ~(reply.mode = "streaming" /\ reply.at # 0)
    <3>1. v = over
      BY <1>4, <2>2
    <3> QED
      BY <1>2, <1>5, <1>6, <2>2, <3>1
  <2> QED
    BY <2>1, <2>2
<1>8. ASSUME AloneOn(World, beatOf), v.f.count = faults.count, hosts PROVE AloneOn(v, beatOf)
  <2>1. job.then \notin Tasks /\ job.then # "over"
    BY <1>1, NamesAssumption DEF Stages
  <2>2. /\ Streams(thread, reply.at, reply.spent, FenceOf(World), FALSE)
        /\ Cards(thread, reply.at, reply.beats, job.then, beatOf)
    BY <1>2, <1>8, <2>1, AloneParts DEF AloneOn
  <2>3. Streams(v.th, reply.at, reply.spent, FenceOf(World), TRUE)
    <3>1. CASE v.th = thread /\ (reply.at = 0 \/ thread[reply.at].state # "open")
      BY <1>2, <1>6, <2>2, <3>1, StreamsFinish
    <3>2. CASE reply.at # 0 /\ v.th = [thread EXCEPT ![reply.at] = Stopped(thread[reply.at])]
      <4>1. Streams([thread EXCEPT ![reply.at] = Stopped(thread[reply.at])],
                    reply.at, reply.spent, FenceOf(World), TRUE)
        BY <1>2, <1>6, <2>2, <3>2, StreamsFinish
      <4> QED
        BY <3>2, <4>1
    <3>3. \/ v.th = thread /\ (reply.at = 0 \/ thread[reply.at].state # "open")
          \/ reply.at # 0 /\ v.th = [thread EXCEPT ![reply.at] = Stopped(thread[reply.at])]
      BY <1>7, <1>8
    <3> QED
      BY <3>1, <3>2, <3>3
  <2>4. SameLists(thread, v.th)
    <3>1. CASE v.th = thread
      BY <3>1, SameListsSelf
    <3>2. CASE reply.at # 0 /\ v.th = [thread EXCEPT ![reply.at] = Stopped(thread[reply.at])]
      <4>1. thread[reply.at] \in Message
        BY <1>2, <1>6, <3>2 DEF Thread
      <4>2. /\ Stopped(thread[reply.at]) \in Message
            /\ Stopped(thread[reply.at]).lists = thread[reply.at].lists
        BY <4>1, StoppedFacts
      <4> QED
        BY <1>2, <1>6, <3>2, <4>2, SameListsExcept
    <3> QED
      BY <1>7, <1>8, <3>1, <3>2
  <2>5. \A b \in DOMAIN reply.beats : DOMAIN reply.beats[b] \subseteq Tasks
    <3>1. reply.beats \in Seq(Beats)
      BY <1>2 DEF Fields
    <3>2. TAKE b \in DOMAIN reply.beats
    <3>3. reply.beats[b] \in Beats
      BY <3>1, <3>2
    <3> QED
      BY <3>3 DEF Beats
  <2>6. Cards(v.th, reply.at, reply.beats, job.then, beatOf)
    BY <1>2, <1>6, <2>2, <2>4, CardsSame
  <2>7. Cards(v.th, reply.at, reply.beats, "over", beatOf)
    BY <2>1, <2>5, <2>6, CardsTurn
  <2>8. FenceOf(v) = FenceOf(World)
    BY <1>2, <1>7 DEF FenceOf
  <2>9. (v.j.then = "over") = TRUE /\ v.j.then = "over"
    BY <1>5, <1>7
  <2> QED
    BY <1>7, <1>8, <2>3, <2>7, <2>8, <2>9 DEF AloneOn, Alone
<1>9. ASSUME AloneOn(World, beatOf), v.f.count = faults.count, ~hosts PROVE AloneOn(v, beatOf)
  BY <1>2, <1>6, <1>7, <1>9 DEF AloneOn
<1>10. faults.count = 0 /\ v.f.count = 0 /\ AloneOn(World, beatOf) => AloneOn(v, beatOf')
  BY <1>1, <1>8, <1>9
<1> QED
  BY <1>1, <1>2, <1>4, <1>7, <1>10, StaysAlone

LEMMA StillAlone ==
  ASSUME IInv, NowAlone, script' = script, hosts' = hosts, beatOf' = beatOf,
         thread' = thread, reply' = reply, job' = job, faults' = faults
  PROVE  NowAlone'
<1>1. /\ World \in Worlds /\ faults.count \in Nat /\ faults \in FaultsSet
      /\ World.th = thread /\ World.r = reply /\ World.j = job /\ World.f = faults
  BY WorldNow
<1>2. Becomes(World)
  BY <1>1 DEF Becomes
<1>3. World.f.count >= faults.count
  BY <1>1
<1> QED
  BY <1>1, <1>2, <1>3, StaysAlone

(* A surface without streams gets whole messages.                          *)
LEMMA WholePosts ==
  ASSUME NEW th \in Thread, AllWhole(th), NEW part \in Seq(Int)
  PROVE  AllWhole(PostMessage(th, "post", part).th)
<1> DEFINE an == PostMessage(th, "post", part)
           m  == NewMessage("post", part)
<1>1. an.th = th \/ an.th = Append(th, m)
  BY PostAnswer
<1>2. m \in Message
  BY NewMessageTyped DEF Kinds
<1>3. m.state = "whole"
  BY DEF NewMessage
<1> HIDE DEF an, m
<1>4. AllWhole(Append(th, m))
  BY <1>2, <1>3, AppendAt DEF AllWhole
<1>5. AllWhole(an.th)
  BY <1>1, <1>4
<1> QED
  BY <1>5 DEF an

LEMMA WholeUpdates ==
  ASSUME NEW th \in Thread, AllWhole(th), NEW i \in DOMAIN th, th[i].kind = "post", NEW part \in Seq(Int)
  PROVE  AllWhole(UpdateMessage(th, i, part).th)
<1> DEFINE an == UpdateMessage(th, i, part)
           m  == Rewritten(th[i], part)
<1>1. /\ an.th = th \/ an.th = [th EXCEPT ![i] = m]
      /\ m \in Message
  BY UpdateAnswer
<1>2. m.state = "whole"
  BY DEF AllWhole, Rewritten, Thread, Message
<1> HIDE DEF an, m
<1>3. AllWhole([th EXCEPT ![i] = m])
  BY <1>1, <1>2, ExceptAt DEF AllWhole
<1>4. AllWhole(an.th)
  BY <1>1, <1>3
<1> QED
  BY <1>4 DEF an

LEMMA RepostAlone ==
  ASSUME IInv, NowAlone, Repost
  PROVE  NowAlone'
<1> DEFINE i     == job.part
           part  == Parts(reply.all)[i]
           known == i \in DOMAIN reply.posted
           next  == TurnTo(World, NextOf(i, reply.all))
           Shown2(c) == IF c.said = "ok" THEN Reshown(c, i, part) ELSE c
           Added(c) == IF c.said = "ok" THEN ShownToo(c, part) ELSE TurnTo(c, 0)
<1>1. i # 0 /\ script' = script /\ hosts' = hosts /\ beatOf' = beatOf
  BY DEF Repost
<1>2. PICK w \in IF known /\ reply.posted[i].shown = part THEN {next}
                 ELSE IF known
                   THEN {Shown2(c) : c \in Called(next, UpdateMessage(thread, reply.posted[i].at, part))}
                 ELSE {Added(c) : c \in Called(next, PostMessage(thread, "post", part))} :
           Becomes(w)
  BY DEF Repost, TurnTo, WithJ, Reshown, ShownToo, NextOf
<1>3. /\ World \in Worlds /\ thread \in Thread /\ reply \in Fields /\ job \in Jobs
      /\ Fitting(hosts, World) /\ Shaped(World) /\ Steady(World)
      /\ World.th = thread /\ World.r = reply /\ World.j = job /\ World.f = faults
      /\ faults \in FaultsSet /\ faults.count \in Nat
  BY WorldNow
<1>4. ~hosts
  BY <1>1, <1>3 DEF Shaped, Fitting
<1>5. reply.all \in Seq(Int) /\ reply.posted \in Seq(Post)
  BY <1>3 DEF Fields
<1>6. Len(Parts(reply.all)) \in Nat /\ Len(Parts(reply.all)) >= 1
  BY <1>5, PartsFacts
<1>7. i \in 1 .. Len(Parts(reply.all)) /\ i \in Nat
  <2>1. i \in Nat
    BY <1>3 DEF Jobs
  <2>2. i <= Len(Parts(reply.all))
    BY <1>1, <1>3 DEF Steady
  <2> QED
    BY <1>1, <1>6, <2>1, <2>2
<1>8. NextOf(i, reply.all) \in Nat
  BY <1>6, <1>7 DEF NextOf
<1>9. next \in Worlds /\ next.th = thread /\ next.r = reply /\ next.f = faults
  BY <1>3, <1>8, TurnToFacts
<1> HIDE DEF next
<1>10. part \in Seq(Int)
  BY <1>5, <1>7, PartsFacts DEF Within
<1>11. /\ w \in Worlds /\ w.f.count >= faults.count
       /\ w.f.count = 0 /\ AllWhole(thread) => AllWhole(w.th)
  <2>1. CASE known /\ reply.posted[i].shown = part
    BY <1>2, <1>3, <1>9, <2>1
  <2>2. CASE known /\ reply.posted[i].shown # part
    <3>1. PICK c \in Called(next, UpdateMessage(thread, reply.posted[i].at, part)) : w = Shown2(c)
      BY <1>2, <2>2
    <3>2. reply.posted[i].at \in DOMAIN thread /\ thread[reply.posted[i].at].kind = "post"
      BY <1>3, <2>2 DEF Shaped
    <3> DEFINE an == UpdateMessage(thread, reply.posted[i].at, part)
    <3>3. an \in Answers /\ (AllWhole(thread) => AllWhole(an.th))
      BY <1>3, <1>10, <3>2, UpdateAnswer, WholeUpdates
    <3>4. c \in Called(next, an)
      BY <3>1
    <3> HIDE DEF an
    <3>5. /\ c \in Worlds /\ c.r = reply /\ c.f.count >= faults.count
          /\ c.f.count = 0 => c.th = an.th
      BY <1>9, <3>3, <3>4, CalledWell
    <3>6. w \in Worlds /\ w.f = c.f /\ w.th = c.th
      <4>1. CASE c.said = "ok"
        <5>1. w = Reshown(c, i, part) /\ i \in DOMAIN c.r.posted
          BY <2>2, <3>1, <3>5, <4>1
        <5> HIDE DEF part
        <5>2. PICK posted \in Seq(Post) : PostedAs(c, Reshown(c, i, part), posted)
          BY <1>10, <3>5, <5>1, ReshownFacts
        <5> QED
          BY <5>1, <5>2 DEF PostedAs
      <4>2. CASE c.said # "ok"
        BY <3>1, <3>5, <4>2
      <4> QED
        BY <4>1, <4>2
    <3> QED
      BY <3>3, <3>5, <3>6
  <2>3. CASE ~known
    <3>1. PICK c \in Called(next, PostMessage(thread, "post", part)) : w = Added(c)
      BY <1>2, <2>3
    <3> DEFINE an == PostMessage(thread, "post", part)
    <3>2. an \in Answers /\ (AllWhole(thread) => AllWhole(an.th))
      BY <1>3, <1>10, PostAnswer, WholePosts
    <3>3. c \in Called(next, an)
      BY <3>1
    <3> HIDE DEF an
    <3>4. /\ c \in Worlds /\ c.f.count >= faults.count
          /\ c.f.count = 0 => c.th = an.th
      BY <1>9, <3>2, <3>3, CalledWell
    <3>5. w \in Worlds /\ w.f = c.f /\ w.th = c.th
      <4>1. CASE c.said = "ok"
        <5>1. w = ShownToo(c, part)
          BY <3>1, <4>1
        <5> HIDE DEF part
        <5>2. PICK posted \in Seq(Post) : PostedAs(c, ShownToo(c, part), posted)
          BY <1>10, <3>4, ShownTooFacts
        <5> QED
          BY <5>1, <5>2 DEF PostedAs
      <4>2. CASE c.said # "ok"
        <5>1. w = TurnTo(c, 0) /\ 0 \in Nat
          BY <3>1, <4>2
        <5> QED
          BY <3>4, <5>1, TurnToFacts
      <4> QED
        BY <4>1, <4>2
    <3> QED
      BY <3>2, <3>4, <3>5
  <2> QED
    BY <2>1, <2>2, <2>3
<1>12. w.f.count = 0 /\ AloneOn(World, beatOf) => AloneOn(w, beatOf')
  BY <1>3, <1>4, <1>11 DEF AloneOn
<1>13. Becomes(w)
  BY <1>2
<1> QED
  BY <1>1, <1>3, <1>11, <1>12, <1>13, StaysAlone

(* A tool's message joins the thread.                                      *)
LEMMA PlacedAlone ==
  ASSUME NEW w, Fitting(hosts, w), NEW bt, AloneOn(w, bt), NEW k \in Tools,
         NEW y, y.th = Append(w.th, Placing(k)), y.r.at = w.r.at, y.r.spent = w.r.spent,
         y.r.fenced = w.r.fenced, y.r.partial = w.r.partial, y.r.beats = w.r.beats,
         y.j.then = w.j.then
  PROVE  AloneOn(y, bt)
<1> DEFINE m == Placing(k)
<1>1. /\ w \in Worlds /\ w.th \in Thread /\ w.r.at \in Nat
      /\ w.r.at # 0 => w.r.at \in DOMAIN w.th
  BY WorldParts DEF Fitting, StreamAt, Fields
<1>2. m \in Message /\ m.state = "whole" /\ m.lists = <<>>
  <2>1. Append(w.th, m) \in Thread /\ Append(w.th, m)[Len(w.th) + 1] = m
        /\ DOMAIN Append(w.th, m) = 1 .. Len(w.th) + 1 /\ Len(w.th) \in Nat
    BY <1>1, PlacingFacts
  <2>2. m.state = "whole" /\ m.lists = <<>>
    BY DEF Placing, NewMessage
  <2>3. Len(w.th) + 1 \in DOMAIN Append(w.th, m)
    BY <2>1
  <2> HIDE DEF m
  <2>4. Append(w.th, m)[Len(w.th) + 1] \in Message
    BY <2>1, <2>3 DEF Thread
  <2> QED
    BY <2>1, <2>2, <2>4
<1>3. FenceOf(y) = FenceOf(w) /\ y.th = Append(w.th, m)
  BY DEF FenceOf
<1> HIDE DEF m
<1>4. CASE hosts
  <2> DEFINE over == w.j.then = "over"
  <2>1. /\ Streams(w.th, w.r.at, w.r.spent, FenceOf(w), over)
        /\ Cards(w.th, w.r.at, w.r.beats, w.j.then, bt)
    BY <1>4 DEF AloneOn, Alone
  <2> HIDE DEF over
  <2>2. Streams(y.th, w.r.at, w.r.spent, FenceOf(w), over)
    BY <1>1, <1>2, <1>3, <2>1, StreamsWhole
  <2>3. SameLists(w.th, y.th)
    BY <1>1, <1>2, <1>3, Empties, SameListsAppend
  <2>4. Cards(y.th, w.r.at, w.r.beats, w.j.then, bt)
    BY <1>1, <2>1, <2>3, CardsSame
  <2>5. Streams(y.th, y.r.at, y.r.spent, FenceOf(y), y.j.then = "over")
    BY <1>3, <2>2 DEF over
  <2> QED
    BY <1>4, <2>4, <2>5 DEF AloneOn, Alone
<1>5. CASE ~hosts
  BY <1>1, <1>2, <1>3, <1>5, AppendAt DEF AloneOn, AllWhole
<1> QED
  BY <1>4, <1>5

LEMMA PlacedCallAlone ==
  ASSUME NEW x, Fitting(hosts, x), NEW k \in Tools, NEW bt,
         NEW v \in Called(x, PostMessage(x.th, "placed", <<k>>))
  PROVE  /\ v \in Worlds /\ v.r = x.r /\ v.j = x.j /\ v.f.count >= x.f.count
         /\ AloneOn(x, bt) => AloneOn(v, bt)
<1>1. x \in Worlds
  BY DEF Fitting
<1>2. /\ v \in Worlds /\ v.r = x.r /\ v.j = x.j /\ Worse(x.f, v.f)
      /\ v.th = x.th \/ v.th = Append(x.th, Placing(k))
  BY <1>1, PlacedCall
<1>3. v.th = x.th => (AloneOn(x, bt) => AloneOn(v, bt))
  BY <1>2, SameAlone
<1>4. v.th = Append(x.th, Placing(k)) => (AloneOn(x, bt) => AloneOn(v, bt))
  BY <1>2, PlacedAlone
<1> QED
  BY <1>2, <1>3, <1>4 DEF Worse

LEMMA LandedFence ==
  ASSUME NEW w \in Worlds
  PROVE  Landed(w).r.fenced = w.r.fenced /\ Landed(w).r.partial = w.r.partial
BY DEF Landed, Worlds, Fields

LEMMA PlacesAlone ==
  ASSUME IInv, NowAlone, NEW k \in Tools, Places(k)
  PROVE  NowAlone'
<1> DEFINE x == Resting(World)
<1>1. /\ job.then = k
      /\ script' = script /\ hosts' = hosts /\ beatOf' = beatOf
  BY DEF Places, At
<1>2. PICK v \in Called(x, PostMessage(thread, "placed", <<k>>)) :
        Becomes(IF v.said = "ok" THEN Landed(v) ELSE v)
  BY DEF Places, Resting, Landed
<1>3. /\ World \in Worlds /\ Fitting(hosts, World) /\ faults \in FaultsSet
      /\ World.th = thread /\ World.r = reply /\ World.j = job /\ World.f = faults
  BY WorldNow
<1>4. k \notin Tasks /\ k # "over"
  BY NamesAssumption DEF Stages
<1>5. x \in Worlds /\ x.th = thread /\ x.r = reply /\ x.f = faults /\ x.j.then # "over"
  BY <1>3, RestingFacts
<1> HIDE DEF x
<1>6. Fitting(hosts, x)
  BY <1>3, <1>5 DEF Fitting
<1>7. AloneOn(World, beatOf) => AloneOn(x, beatOf)
  BY <1>1, <1>3, <1>4, <1>5, GoesOnAlone
<1>8. v \in Called(x, PostMessage(x.th, "placed", <<k>>))
  BY <1>2, <1>5
<1>9. /\ v \in Worlds /\ v.r = reply /\ v.j = x.j /\ v.f.count >= faults.count
      /\ AloneOn(x, beatOf) => AloneOn(v, beatOf)
  BY <1>5, <1>6, <1>8, PlacedCallAlone
<1> DEFINE u == IF v.said = "ok" THEN Landed(v) ELSE v
<1>10. /\ u \in Worlds /\ u.th = v.th /\ u.j = v.j /\ u.f = v.f
       /\ u.r.at = v.r.at /\ u.r.spent = v.r.spent /\ u.r.beats = v.r.beats
       /\ u.r.fenced = v.r.fenced /\ u.r.partial = v.r.partial
  BY <1>9, LandedFacts, LandedFence
<1>11. Becomes(u)
  BY <1>2
<1> HIDE DEF u
<1>12. AloneOn(v, beatOf) => AloneOn(u, beatOf)
  BY <1>10, SameAlone
<1>13. AloneOn(World, beatOf) => AloneOn(u, beatOf')
  BY <1>1, <1>7, <1>9, <1>12
<1>14. u.f.count >= faults.count
  BY <1>9, <1>10
<1> QED
  BY <1>1, <1>3, <1>10, <1>11, <1>13, <1>14, StaysAlone

LEMMA DirectAlone ==
  ASSUME IInv, NowAlone, NEW k \in Tools, PostsDirectly(k)
  PROVE  NowAlone'
<1>1. script' = script /\ hosts' = hosts /\ beatOf' = beatOf
  BY DEF PostsDirectly
<1>2. PICK v \in Called(World, PostMessage(thread, "placed", <<k>>)) : Becomes(v)
  BY DEF PostsDirectly
<1>3. /\ World \in Worlds /\ Fitting(hosts, World) /\ faults \in FaultsSet
      /\ World.th = thread /\ World.r = reply /\ World.j = job /\ World.f = faults
  BY WorldNow
<1>4. v \in Called(World, PostMessage(World.th, "placed", <<k>>))
  BY <1>2, <1>3
<1>5. /\ v \in Worlds /\ v.f.count >= faults.count
      /\ AloneOn(World, beatOf) => AloneOn(v, beatOf)
  BY <1>3, <1>4, PlacedCallAlone
<1>6. AloneOn(World, beatOf) => AloneOn(v, beatOf')
  BY <1>1, <1>5
<1> QED
  BY <1>1, <1>2, <1>3, <1>5, <1>6, StaysAlone

LEMMA InitAlone ==
  ASSUME Init
  PROVE  NowAlone
<1>1. /\ thread = <<>> /\ reply = NewReply /\ job = Reading
      /\ beatOf = [t \in Tasks |-> "none"]
  BY DEF Init
<1>2. /\ World.th = thread /\ World.r = reply /\ World.j = job
  BY WorldIs
<1>3. /\ reply.at = 0 /\ reply.spent = 0 /\ reply.beats = <<>>
      /\ reply.fenced = FALSE /\ reply.partial = "empty"
  BY <1>1 DEF NewReply
<1>4. DOMAIN thread = {} /\ DOMAIN reply.beats = {} /\ job.then = "read"
  BY <1>1, <1>3, Empties, ReadingTyped
<1>5. FenceOf(World) = NoFence
  BY <1>2, <1>3 DEF FenceOf, NoFence
<1>6. Streams(thread, reply.at, reply.spent, FenceOf(World), FALSE)
  <2>1. 0 <= Budget
    BY Bounds
  <2> QED
    BY <1>3, <1>4, <1>5, <2>1 DEF Streams, SoleOpen, AllShut
<1>7. Cards(thread, reply.at, reply.beats, job.then, beatOf)
  <2>1. \A t \in Tasks : ~Settled(beatOf[t])
    BY <1>1 DEF Settled
  <2> QED
    BY <1>4, <2>1 DEF Cards, ListsKnown, BeatsTell, ListsTell
<1>8. Alone(World, beatOf)
  BY <1>2, <1>4, <1>6, <1>7, AloneParts
<1>9. AllWhole(World.th)
  BY <1>2, <1>4 DEF AllWhole
<1> QED
  BY <1>8, <1>9 DEF NowAlone, AloneOn

LEMMA NextAlone ==
  ASSUME IInv, NowAlone, [Next]_vars
  PROVE  NowAlone'
<1>1. CASE UNCHANGED vars
  <2>1. /\ script' = script /\ hosts' = hosts /\ beatOf' = beatOf
        /\ thread' = thread /\ reply' = reply /\ job' = job /\ faults' = faults
    BY <1>1 DEF vars
  <2> QED
    BY <2>1, StillAlone
<1>2. CASE Next
  <2>1. ASSUME NEW n \in 1 .. Len(script), Says(n) PROVE NowAlone'
    BY <2>1, SaysAlone
  <2>2. CASE FlushDue
    BY <2>2, FlushAlone
  <2>3. ASSUME NEW t \in Tasks, NEW status \in Statuses, Reports(t, status) PROVE NowAlone'
    BY <2>3, ReportsAlone
  <2>4. ASSUME NEW k \in Tools, Asks(k) PROVE NowAlone'
    <3>1. /\ script' = script /\ hosts' = hosts /\ beatOf' = beatOf
          /\ thread' = thread /\ reply' = reply /\ job' = job /\ faults' = faults
      BY <2>4 DEF Asks
    <3> QED
      BY <3>1, StillAlone
  <2>5. CASE Paint
    BY <2>5, PaintAlone
  <2>6. CASE Repost
    BY <2>6, RepostAlone
  <2>7. CASE Breaks
    BY <2>7, BreaksAlone
  <2>8. ASSUME NEW t \in Tasks, Draws(t) PROVE NowAlone'
    BY <2>8, DrawsAlone
  <2>9. CASE Takes
    BY <2>9, TakesAlone
  <2>10. ASSUME NEW k \in Tools, Places(k) \/ PostsDirectly(k) PROVE NowAlone'
    BY <2>10, PlacesAlone, DirectAlone
  <2>11. CASE StreamEnds
    BY <2>11, EndsAlone
  <2>12. CASE Finishes
    BY <2>12, FinishesAlone
  <2>13. ASSUME NEW i \in DOMAIN thread, Finalizes(i) PROVE NowAlone'
    BY <2>13, FinalizesAlone
  <2> QED
    BY <1>2, <2>1, <2>2, <2>3, <2>4, <2>5, <2>6, <2>7, <2>8, <2>9, <2>10, <2>11, <2>12, <2>13 DEF Next
<1> QED
  BY <1>1, <1>2

LEMMA InvAlone ==
  ASSUME IInv, NowAlone
  PROVE  MessagesStandAlone
<1>1. /\ World.th = thread /\ World.r = reply /\ World.j = job /\ World.f = faults
      /\ faults.count \in Nat /\ thread \in Thread
  BY WorldNow
<1> SUFFICES ASSUME ~WentWrong PROVE MessagesStandAlone
  BY DEF MessagesStandAlone, FencesClosed, NoneLeftOpen, LastListTells
<1>2. AloneOn(World, beatOf)
  BY <1>1 DEF NowAlone, WentWrong
<1>3. CASE hosts
  <2>1. /\ Streams(thread, reply.at, reply.spent, FenceOf(World), Ended)
        /\ Cards(thread, reply.at, reply.beats, job.then, beatOf)
    BY <1>1, <1>2, <1>3 DEF AloneOn, Alone, Ended
  <2>2. \A i \in DOMAIN thread : MarkLeft(thread[i]) <=> Torn(i)
    BY DEF MarkLeft, Torn
  <2>3. \A i \in DOMAIN thread : FenceIn(thread[i]) = Fence(i)
    BY DEF FenceIn, Fence, NoFence
  <2>4. FencesClosed
    <3> SUFFICES ASSUME NEW i \in DOMAIN thread, thread[i].state = "stopped", ~(Ended /\ i = reply.at)
                 PROVE  Torn(i) \/ ~Fence(i).fenced
      BY DEF FencesClosed
    <3>1. MarkLeft(thread[i]) \/ FenceIn(thread[i]).fenced = FALSE
      BY <2>1 DEF Streams, AllShut, WellShut
    <3> QED
      BY <2>2, <2>3, <3>1
  <2>5. NoneLeftOpen
    BY <2>1 DEF NoneLeftOpen, Streams, SoleOpen
  <2>6. LastListTells
    <3> SUFFICES ASSUME Ended, NEW t \in Tasks, Settled(beatOf[t]) PROVE ToldBy(thread, t, beatOf[t])
      BY DEF LastListTells, ToldBy
    <3>1. job.then # t
      BY NamesAssumption DEF Ended, Stages
    <3> QED
      BY <2>1, <3>1 DEF Cards, ListsTell
  <2> QED
    BY <2>4, <2>5, <2>6 DEF MessagesStandAlone
<1>4. CASE ~hosts
  <2>1. \A i \in DOMAIN thread : thread[i].state = "whole"
    BY <1>1, <1>2, <1>4 DEF AloneOn, AllWhole
  <2> QED
    BY <1>4, <2>1 DEF MessagesStandAlone, FencesClosed, NoneLeftOpen, LastListTells
<1> QED
  BY <1>3, <1>4

LEMMA AloneInvariant == Spec => [](IInv /\ OnceNow /\ NowAlone)
<1>1. Init => IInv /\ OnceNow /\ NowAlone
  BY InitSound, InitAlone
<1>2. (IInv /\ OnceNow /\ NowAlone) /\ [Next]_vars => (IInv /\ OnceNow /\ NowAlone)'
  BY NextKeeps, NextAlone
<1> QED
  BY <1>1, <1>2, PTL DEF Spec

(* Each message of the reply can be read on its own if no call fails: a    *)
(* stream it left has its fence closed, unless it was left in a fence's    *)
(* own line, nothing it started stays open, and the newest copy of a       *)
(* tool's list tells how the tool ended (`rollover`, `paint`, `task`       *)
(* and `finish` of reply.rs).                                              *)
THEOREM StandsAlone == Spec => []MessagesStandAlone
<1>1. IInv /\ OnceNow /\ NowAlone => MessagesStandAlone
  BY InvAlone
<1> QED
  BY <1>1, AloneInvariant, PTL
=============================================================================
