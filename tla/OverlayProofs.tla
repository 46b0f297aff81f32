---------------------------- MODULE OverlayProofs ----------------------------
(***************************************************************************)
(* Proofs about Overlay, for any document, any texts and any edits.         *)
(***************************************************************************)
EXTENDS Overlay, TLAPS, FiniteSetTheorems, SequenceTheorems, WellFoundedInduction

-----------------------------------------------------------------------------
(* Numbers.                                                                *)

\* A set of numbers has a least one.
LEMMA Least ==
    ASSUME NEW Q, Q \subseteq Nat, Q # {}
    PROVE  \E n \in Q : \A m \in Q : n <= m
<1>1. PICK n \in Q : \A m \in Q : ~(<<m, n>> \in OpToRel(<, Nat))
  BY NatLessThanWellFounded, WFMin
<1>2. \A m \in Q : n <= m
  <2> TAKE m \in Q
  <2>1. ~(m < n) BY <1>1 DEF OpToRel
  <2> QED BY <2>1
<1> QED BY <1>2

\* What holds of 0 and, after n - 1, of n holds up to the bound.
LEMMA Climb ==
    ASSUME NEW L \in Nat, NEW Q, 0 \in Q, \A n \in 1 .. L : n - 1 \in Q => n \in Q
    PROVE  \A n \in 0 .. L : n \in Q
<1> DEFINE T == {n \in 0 .. L : n \notin Q}
<1>1. ASSUME T # {} PROVE FALSE
  <2>1. T \subseteq Nat OBVIOUS
  <2>2. PICK n \in T : \A m \in T : n <= m
    <3> HIDE DEF T
    <3> QED BY <1>1, <2>1, Least
  <2>3. \A m \in T : ~(m < n) BY <2>1, <2>2
  <2>4. n \in 1 .. L /\ n \notin Q BY <2>2
  <2>5. n - 1 \in T BY <2>4
  <2> QED BY <2>3, <2>4, <2>5
<1> QED BY <1>1

\* Running sums begin at 0 and add one number at a time.
LEMMA SumSteps ==
    ASSUME NEW n \in Seq(Nat)
    PROVE  /\ Sums(n)[0] = 0
           /\ \A k \in 1 .. Len(n) : Sums(n)[k] = Sums(n)[k - 1] + n[k]
           /\ \A k \in 0 .. Len(n) : Sums(n)[k] \in Nat
<1> DEFINE L == Len(n)
           Adds(g, k) == g = [i \in 0 .. k |-> IF i = 0 THEN 0 ELSE g[i - 1] + n[i]]
           Q == {k \in 0 .. L : \E g : Adds(g, k)}
<1>1. L \in Nat OBVIOUS
<1>2. \E g : Adds(g, 0)
  <2> DEFINE g == [i \in 0 .. 0 |-> 0]
  <2>1. \A i \in 0 .. 0 : i = 0 OBVIOUS
  <2>2. Adds(g, 0) BY <2>1
  <2> QED BY <2>2
<1>3. ASSUME NEW k \in 1 .. L, \E g : Adds(g, k - 1) PROVE \E g : Adds(g, k)
  <2>1. PICK g : Adds(g, k - 1) BY <1>3
  <2> DEFINE h == [i \in 0 .. k |-> IF i = k THEN g[k - 1] + n[k] ELSE g[i]]
  <2>2. \A i \in 0 .. k : i # 0 => h[i - 1] = g[i - 1] OBVIOUS
  <2>3. \A i \in 0 .. k : h[i] = IF i = 0 THEN 0 ELSE h[i - 1] + n[i]
    <3> TAKE i \in 0 .. k
    <3>1. CASE i = k BY <2>2, <3>1
    <3>2. CASE i # k
      <4>1. h[i] = g[i] /\ i \in 0 .. (k - 1) BY <3>2
      <4>2. g[i] = IF i = 0 THEN 0 ELSE g[i - 1] + n[i] BY <2>1, <4>1
      <4> QED BY <2>2, <4>1, <4>2
    <3> QED BY <3>1, <3>2
  <2>4. h = [i \in 0 .. k |-> h[i]] OBVIOUS
  <2> HIDE DEF h
  <2>5. Adds(h, k) BY <2>3, <2>4
  <2> QED BY <2>5
<1>4. \E g : Adds(g, L)
  <2> HIDE DEF Adds
  <2>1. 0 \in Q BY <1>1, <1>2
  <2>2. \A k \in 1 .. L : k - 1 \in Q => k \in Q BY <1>1, <1>3
  <2>3. \A k \in 0 .. L : k \in Q
    <3> HIDE DEF Q, L
    <3> QED BY <1>1, <2>1, <2>2, Climb
  <2> QED BY <1>1, <2>3
<1> DEFINE s == Sums(n)
<1>5. PICK g : Adds(g, L) BY <1>4
<1>6. s = [i \in 0 .. L |-> IF i = 0 THEN 0 ELSE s[i - 1] + n[i]]
  BY <1>5 DEF Sums
<1> HIDE DEF s
<1>7. s[0] = 0 /\ \A k \in 1 .. L : s[k] = s[k - 1] + n[k] BY <1>1, <1>6
<1>8. \A k \in 0 .. L : s[k] \in Nat
  <2> DEFINE P == {k \in 0 .. L : s[k] \in Nat}
  <2>1. 0 \in P BY <1>1, <1>7
  <2>2. \A k \in 1 .. L : k - 1 \in P => k \in P
    <3> TAKE k \in 1 .. L
    <3> HAVE k - 1 \in P
    <3>1. n[k] \in Nat /\ s[k - 1] \in Nat BY <1>1
    <3> QED BY <1>1, <1>7, <3>1
  <2>3. \A k \in 0 .. L : k \in P
    <3> HIDE DEF P, L
    <3> QED BY <1>1, <2>1, <2>2, Climb
  <2> QED BY <2>3
<1> QED BY <1>7, <1>8 DEF s

-----------------------------------------------------------------------------
(* Overlays as functions from anchors to events.                           *)

\* What an anchor may hold.
EventsAt(a) ==
    {e \in Events :
        /\ a > Len(Base) => e = [NoEvent EXCEPT !.inserts = e.inserts]
        /\ a <= Len(Base) /\ e.replacement = Base[a] => Base[a] \in Long}

\* An overlay in which every event says something that the document does not.
Tidy(ev) ==
    /\ ev = [a \in DOMAIN ev |-> ev[a]] /\ DOMAIN ev \subseteq Regions(Base)
    /\ \A a \in DOMAIN ev : ev[a] \in EventsAt(a) /\ ev[a] # NoEvent

\* The overlay with e at anchor a.
Set(ev, a, e) == Cleaned(Put(ev, a, e), a)

LEMMA BaseFacts ==
    /\ Len(Base) \in Nat /\ None \notin Text
    /\ \A a \in 1 .. Len(Base) : Base[a] \in Text
    /\ \A a \in Regions(Base) : a \in Nat \ {0} /\ (a > Len(Base) <=> a = Len(Base) + 1)
BY BaseAssumption, TextAssumption DEF Regions

LEMMA NoEventIs == \A a \in Regions(Base) : NoEvent \in EventsAt(a)
<1>1. NoEvent \in Events BY DEF NoEvent, Events
<1>2. \A a \in 1 .. Len(Base) : Base[a] # None BY BaseFacts
<1> QED BY <1>1, <1>2, BaseFacts DEF EventsAt, NoEvent

LEMMA AtFacts ==
    ASSUME NEW ev, Tidy(ev), NEW a \in Regions(Base)
    PROVE  At(ev, a) \in EventsAt(a) /\ (a \in DOMAIN ev <=> At(ev, a) # NoEvent)
BY NoEventIs DEF At, Tidy

LEMMA SetFacts ==
    ASSUME NEW ev, Tidy(ev), NEW a \in Regions(Base), NEW e \in EventsAt(a)
    PROVE  /\ Tidy(Set(ev, a, e))
           /\ At(Set(ev, a, e), a) = e
           /\ \A b : b # a => At(Set(ev, a, e), b) = At(ev, b)
<1> DEFINE p == Put(ev, a, e)
<1>1. /\ DOMAIN p = DOMAIN ev \cup {a} /\ p = [b \in DOMAIN p |-> p[b]]
      /\ p[a] = e /\ \A b \in DOMAIN ev : b # a => p[b] = ev[b]
  BY DEF Put
<1> HIDE DEF p
<1>2. At(p, a) = e BY <1>1 DEF At
<1>3. CASE e = NoEvent
  <2> DEFINE q == [b \in DOMAIN p \ {a} |-> p[b]]
  <2>1. Set(ev, a, e) = q BY <1>2, <1>3 DEF Set, Cleaned, Restrict, p
  <2>2. /\ DOMAIN q = DOMAIN ev \ {a} /\ q = [b \in DOMAIN q |-> q[b]]
        /\ \A b \in DOMAIN q : q[b] = ev[b]
    BY <1>1
  <2> HIDE DEF q
  <2>3. Tidy(q) BY <2>2 DEF Tidy
  <2>4. At(q, a) = e /\ \A b : b # a => At(q, b) = At(ev, b) BY <1>3, <2>2 DEF At
  <2> QED BY <2>1, <2>3, <2>4
<1>4. CASE e # NoEvent
  <2>1. Set(ev, a, e) = p BY <1>2, <1>4 DEF Set, Cleaned, p
  <2>2. Tidy(p) BY <1>1, <1>4 DEF Tidy
  <2>3. \A b : b # a => At(p, b) = At(ev, b) BY <1>1 DEF At
  <2> QED BY <1>2, <2>1, <2>2, <2>3
<1> QED BY <1>3, <1>4

LEMMA SameOverlay ==
    ASSUME NEW ev, Tidy(ev), NEW fv, Tidy(fv),
           \A a \in Regions(Base) : At(ev, a) = At(fv, a)
    PROVE  ev = fv
<1>1. DOMAIN ev = DOMAIN fv
  <2>1. \A a \in DOMAIN ev : a \in DOMAIN fv
    <3> TAKE a \in DOMAIN ev
    <3>1. a \in Regions(Base) BY DEF Tidy
    <3> QED BY <3>1, AtFacts
  <2>2. \A a \in DOMAIN fv : a \in DOMAIN ev
    <3> TAKE a \in DOMAIN fv
    <3>1. a \in Regions(Base) BY DEF Tidy
    <3> QED BY <3>1, AtFacts
  <2> QED BY <2>1, <2>2
<1>2. \A a \in DOMAIN ev : ev[a] = fv[a] BY <1>1 DEF At, Tidy
<1>3. ev = [a \in DOMAIN ev |-> ev[a]] /\ fv = [a \in DOMAIN ev |-> fv[a]] BY <1>1 DEF Tidy
<1> QED BY <1>2, <1>3

\* What an anchor held, put back, gives the overlay back.
LEMMA SetBack ==
    ASSUME NEW ev, Tidy(ev), NEW a \in Regions(Base), NEW e \in EventsAt(a)
    PROVE  Set(Set(ev, a, e), a, At(ev, a)) = ev
<1> DEFINE fv == Set(ev, a, e)
           gv == Set(fv, a, At(ev, a))
<1>1. Tidy(fv) /\ \A b : b # a => At(fv, b) = At(ev, b) BY SetFacts
<1>2. At(ev, a) \in EventsAt(a) BY AtFacts
<1> HIDE DEF fv
<1>3. /\ Tidy(gv) /\ At(gv, a) = At(ev, a)
      /\ \A b : b # a => At(gv, b) = At(fv, b)
  BY <1>1, <1>2, SetFacts
<1> HIDE DEF gv
<1>4. gv = ev BY <1>1, <1>3, SameOverlay
<1> QED BY <1>4 DEF gv, fv

-----------------------------------------------------------------------------
(* Steps and what takes them back.                                         *)

LineOps == [op : {"SetLineState"}, anchor : Regions(Base),
            replacement : Text \cup {None}, deleted : BOOLEAN]
TextOps == [op : {"SetInsert", "InsertInsert"}, anchor : Regions(Base),
            index : Nat \ {0}, text : Text]
DropOps == [op : {"RemoveInsert"}, anchor : Regions(Base), index : Nat \ {0}]

LEMMA OpsAre == Ops = LineOps \cup TextOps \cup DropOps
BY DEF Ops, LineOps, TextOps, DropOps

\* The event that op makes of e, and the step back.
Makes(e, op) ==
    CASE op.op = "SetLineState" -> [e EXCEPT !.replacement = op.replacement,
                                             !.deleted = op.deleted]
      [] op.op = "SetInsert" -> [e EXCEPT !.inserts[op.index] = op.text]
      [] op.op = "RemoveInsert" -> [e EXCEPT !.inserts = RemoveAt(@, op.index)]
      [] op.op = "InsertInsert" -> [e EXCEPT !.inserts = InsertAt(@, op.index, op.text)]

TakesBack(e, op) ==
    CASE op.op = "SetLineState" -> SetLine(op.anchor, e)
      [] op.op = "SetInsert" -> SetInsert(op.anchor, op.index, e.inserts[op.index])
      [] op.op = "RemoveInsert" -> InsertInsert(op.anchor, op.index, e.inserts[op.index])
      [] op.op = "InsertInsert" -> RemoveInsert(op.anchor, op.index)

\* op finds its insertion in e.
Reaches(e, op) ==
    /\ op.op \in {"SetInsert", "RemoveInsert"} => op.index <= Len(e.inserts)
    /\ op.op = "InsertInsert" => op.index <= Len(e.inserts) + 1

\* op makes fv of ev.
Step(ev, op, fv) ==
    /\ Tidy(ev) /\ op \in Ops /\ Reaches(At(ev, op.anchor), op)
    /\ Makes(At(ev, op.anchor), op) \in EventsAt(op.anchor)
    /\ fv = Set(ev, op.anchor, Makes(At(ev, op.anchor), op))

LEMMA ApplyOpIs ==
    ASSUME NEW w, NEW op \in Ops
    PROVE  ApplyOp(w, op) = [ev |-> Set(w.ev, op.anchor, Makes(At(w.ev, op.anchor), op)),
                             rec |-> Append(w.rec, TakesBack(At(w.ev, op.anchor), op))]
<1>1. op.op \in {"SetLineState", "SetInsert", "RemoveInsert", "InsertInsert"} BY DEF Ops
<1>2. CASE op.op = "SetLineState" BY <1>2 DEF ApplyOp, Did, Set, Makes, TakesBack
<1>3. CASE op.op = "SetInsert" BY <1>3 DEF ApplyOp, Did, Set, Makes, TakesBack
<1>4. CASE op.op = "RemoveInsert" BY <1>4 DEF ApplyOp, Did, Set, Makes, TakesBack
<1>5. CASE op.op = "InsertInsert" BY <1>5 DEF ApplyOp, Did, Set, Makes, TakesBack
<1> QED BY <1>1, <1>2, <1>3, <1>4, <1>5

LEMMA InsertedAt ==
    ASSUME NEW s \in Seq(Text), NEW i \in 1 .. (Len(s) + 1), NEW t \in Text
    PROVE  LET r == InsertAt(s, i, t) IN
           /\ r \in Seq(Text) /\ Len(r) = Len(s) + 1 /\ r[i] = t
           /\ \A j \in 1 .. (i - 1) : r[j] = s[j]
           /\ \A j \in i .. Len(s) : r[j + 1] = s[j]
           /\ RemoveAt(r, i) = s
<1> DEFINE a == SubSeq(s, 1, i - 1)
           b == SubSeq(s, i, Len(s))
           r == a \o <<t>> \o b
<1>1. Len(s) \in Nat /\ i \in Nat /\ i >= 1 /\ i <= Len(s) + 1 OBVIOUS
<1>2. a \in Seq(Text) /\ Len(a) = i - 1 /\ \A j \in 1 .. (i - 1) : a[j] = s[j] BY <1>1
<1>3. b \in Seq(Text) /\ Len(b) = Len(s) + 1 - i /\ \A j \in 1 .. (Len(s) + 1 - i) : b[j] = s[i + j - 1]
  BY <1>1
<1> HIDE DEF a, b
<1>4. /\ r \in Seq(Text) /\ Len(r) = Len(s) + 1 /\ r[i] = t
      /\ \A j \in 1 .. (i - 1) : r[j] = a[j]
      /\ \A j \in 1 .. (Len(s) + 1 - i) : r[i + j] = b[j]
  <2> DEFINE w == a \o <<t>>
  <2>1. /\ w \in Seq(Text) /\ Len(w) = i /\ w[i] = t
        /\ \A j \in 1 .. (i - 1) : w[j] = a[j]
    BY <1>1, <1>2
  <2>2. r = w \o b OBVIOUS
  <2> HIDE DEF w, r
  <2>3. r \in Seq(Text) /\ Len(r) = Len(s) + 1
    <3>1. r \in Seq(Text) /\ Len(r) = Len(w) + Len(b) BY <1>3, <2>1, <2>2, SMTT(30)
    <3>2. Len(w) + Len(b) = Len(s) + 1 BY <1>1, <1>3, <2>1
    <3> QED BY <3>1, <3>2
  <2>4. \A j \in 1 .. i : r[j] = w[j]
    <3> TAKE j \in 1 .. i
    <3>1. j \in 1 .. (Len(w) + Len(b)) /\ j <= Len(w) BY <1>1, <1>3, <2>1
    <3> QED BY <1>3, <2>1, <2>2, <3>1
  <2>5. \A j \in 1 .. (Len(s) + 1 - i) : r[i + j] = b[j]
    <3> TAKE j \in 1 .. (Len(s) + 1 - i)
    <3>1. i + j \in 1 .. (Len(w) + Len(b)) /\ i + j > Len(w) /\ (i + j) - Len(w) = j
      BY <1>1, <1>3, <2>1
    <3> DEFINE k == i + j
    <3>2. b \in Seq(Text) /\ w \in Seq(Text) /\ r = w \o b BY <1>3, <2>1, <2>2
    <3>3. k \in 1 .. (Len(w) + Len(b)) /\ k > Len(w) /\ k - Len(w) = j BY <3>1
    <3> HIDE DEF k
    <3>4. r[k] = b[j] BY <3>2, <3>3
    <3> QED BY <3>4 DEF k
  <2> QED BY <1>1, <2>1, <2>3, <2>4, <2>5
<1> HIDE DEF r
<1>5. \A j \in 1 .. (i - 1) : r[j] = s[j] BY <1>2, <1>4
<1>6. \A j \in i .. Len(s) : r[j + 1] = s[j]
  <2> TAKE j \in i .. Len(s)
  <2>1. j + 1 - i \in 1 .. (Len(s) + 1 - i) /\ i + (j + 1 - i) = j + 1 /\ i + (j + 1 - i) - 1 = j
    BY <1>1
  <2>2. r[i + (j + 1 - i)] = b[j + 1 - i] BY <1>4, <2>1
  <2>3. b[j + 1 - i] = s[i + (j + 1 - i) - 1] BY <1>3, <2>1
  <2> QED BY <2>1, <2>2, <2>3
<1>7. RemoveAt(r, i) = s
  <2> DEFINE c == SubSeq(r, 1, i - 1)
             d == SubSeq(r, i + 1, Len(r))
             q == c \o d
  <2>1. c \in Seq(Text) /\ Len(c) = i - 1 /\ \A j \in 1 .. (i - 1) : c[j] = r[j] BY <1>1, <1>4
  <2>2. d \in Seq(Text) /\ Len(d) = Len(s) + 1 - i
        /\ \A j \in 1 .. (Len(s) + 1 - i) : d[j] = r[i + j]
    BY <1>1, <1>4
  <2> HIDE DEF c, d
  <2>3. /\ q \in Seq(Text) /\ Len(q) = Len(s)
        /\ \A j \in 1 .. (i - 1) : q[j] = c[j]
        /\ \A j \in i .. Len(s) : q[j] = d[j - (i - 1)]
    BY <1>1, <2>1, <2>2
  <2> HIDE DEF q
  <2>4. \A j \in 1 .. Len(s) : q[j] = s[j]
    <3> TAKE j \in 1 .. Len(s)
    <3>1. CASE j < i BY <1>1, <1>5, <2>1, <2>3, <3>1
    <3>2. CASE j >= i
      <4>1. j \in i .. Len(s) /\ j - (i - 1) \in 1 .. (Len(s) + 1 - i) /\ i + (j - (i - 1)) = j + 1
        BY <1>1, <3>2
      <4>2. q[j] = d[j - (i - 1)] BY <2>3, <4>1
      <4>3. d[j - (i - 1)] = r[i + (j - (i - 1))] BY <2>2, <4>1
      <4> QED BY <1>6, <4>1, <4>2, <4>3
    <3> QED BY <1>1, <3>1, <3>2
  <2>5. q = s BY <2>3, <2>4
  <2> QED BY <2>5 DEF RemoveAt, q, c, d
<1> QED BY <1>4, <1>5, <1>6, <1>7 DEF InsertAt, r, a, b

LEMMA RemovedAt ==
    ASSUME NEW s \in Seq(Text), NEW i \in 1 .. Len(s)
    PROVE  LET r == RemoveAt(s, i) IN
           /\ r \in Seq(Text) /\ Len(r) = Len(s) - 1
           /\ \A j \in 1 .. (i - 1) : r[j] = s[j]
           /\ \A j \in i .. Len(r) : r[j] = s[j + 1]
           /\ InsertAt(r, i, s[i]) = s
<1> DEFINE a == SubSeq(s, 1, i - 1)
           b == SubSeq(s, i + 1, Len(s))
           r == a \o b
<1>1. Len(s) \in Nat /\ i \in Nat /\ i >= 1 /\ i <= Len(s) /\ s[i] \in Text OBVIOUS
<1>2. a \in Seq(Text) /\ Len(a) = i - 1 /\ \A j \in 1 .. (i - 1) : a[j] = s[j] BY <1>1
<1>3. b \in Seq(Text) /\ Len(b) = Len(s) - i /\ \A j \in 1 .. (Len(s) - i) : b[j] = s[i + j]
  BY <1>1
<1> HIDE DEF a, b
<1>4. /\ r \in Seq(Text) /\ Len(r) = Len(s) - 1
      /\ \A j \in 1 .. (i - 1) : r[j] = a[j]
      /\ \A j \in i .. (Len(s) - 1) : r[j] = b[j - (i - 1)]
  <2> HIDE DEF r
  <2>1. r = a \o b BY DEF r
  <2>2. r \in Seq(Text) /\ Len(r) = Len(s) - 1 BY <1>1, <1>2, <1>3, <2>1
  <2>3. \A j \in 1 .. (i - 1) : r[j] = a[j] BY <1>1, <1>2, <1>3, <2>1
  <2>4. \A j \in i .. (Len(s) - 1) : r[j] = b[j - (i - 1)]
    <3> TAKE j \in i .. (Len(s) - 1)
    <3>1. j \in 1 .. (Len(a) + Len(b)) /\ j > Len(a) /\ j - Len(a) = j - (i - 1)
      BY <1>1, <1>2, <1>3
    <3> QED BY <1>2, <1>3, <2>1, <3>1
  <2> QED BY <2>2, <2>3, <2>4
<1> HIDE DEF r
<1>5. \A j \in 1 .. (i - 1) : r[j] = s[j] BY <1>2, <1>4
<1>6. \A j \in i .. (Len(s) - 1) : r[j] = s[j + 1]
  <2> TAKE j \in i .. (Len(s) - 1)
  <2>1. j - (i - 1) \in 1 .. (Len(s) - i) /\ i + (j - (i - 1)) = j + 1 BY <1>1
  <2>2. r[j] = b[j - (i - 1)] BY <1>4
  <2>3. b[j - (i - 1)] = s[i + (j - (i - 1))] BY <1>3, <2>1
  <2> QED BY <2>1, <2>2, <2>3
<1>7. InsertAt(r, i, s[i]) = s
  <2> DEFINE q == InsertAt(r, i, s[i])
  <2>1. i \in 1 .. (Len(r) + 1) BY <1>1, <1>4
  <2>2. /\ q \in Seq(Text) /\ Len(q) = Len(r) + 1 /\ q[i] = s[i]
        /\ \A j \in 1 .. (i - 1) : q[j] = r[j]
        /\ \A j \in i .. Len(r) : q[j + 1] = r[j]
    BY <1>1, <1>4, <2>1, InsertedAt, ZenonT(60)
  <2> HIDE DEF q
  <2>3. \A j \in 1 .. Len(s) : q[j] = s[j]
    <3> TAKE j \in 1 .. Len(s)
    <3>1. CASE j < i BY <1>1, <1>5, <2>2, <3>1
    <3>2. CASE j = i BY <2>2, <3>2
    <3>3. CASE j > i
      <4>1. j - 1 \in i .. Len(r) /\ j - 1 \in i .. (Len(s) - 1) /\ (j - 1) + 1 = j BY <1>1, <1>4, <3>3
      <4>2. q[(j - 1) + 1] = r[j - 1] BY <2>2, <4>1
      <4>3. r[j - 1] = s[(j - 1) + 1] BY <1>6, <4>1
      <4> QED BY <4>1, <4>2, <4>3
    <3> QED BY <1>1, <3>1, <3>2, <3>3
  <2>4. q = s BY <1>1, <1>4, <2>2, <2>3
  <2> QED BY <2>4 DEF q
<1>8. Len(r) = Len(s) - 1 BY <1>4
<1> QED BY <1>4, <1>5, <1>6, <1>7, <1>8 DEF RemoveAt, r, a, b

\* A step back makes of the new event the old one, and can itself be taken back.
LEMMA MakesBack ==
    ASSUME NEW op \in Ops, NEW e \in EventsAt(op.anchor), Reaches(e, op),
           Makes(e, op) \in EventsAt(op.anchor)
    PROVE  LET f == Makes(e, op) back == TakesBack(e, op) IN
           /\ back \in Ops /\ back.anchor = op.anchor
           /\ Reaches(f, back) /\ Makes(f, back) = e
<1> DEFINE f == Makes(e, op)
           back == TakesBack(e, op)
<1>1. /\ e = [inserts |-> e.inserts, replacement |-> e.replacement, deleted |-> e.deleted]
      /\ e.inserts \in Seq(Text) /\ e.replacement \in Text \cup {None} /\ e.deleted \in BOOLEAN
  BY DEF EventsAt, Events
<1>2. op.anchor \in Regions(Base) /\ Len(e.inserts) \in Nat BY <1>1 DEF Ops
<1>3. CASE op.op = "SetLineState"
  <2>1. f = [inserts |-> e.inserts, replacement |-> op.replacement, deleted |-> op.deleted]
    BY <1>1, <1>3 DEF Makes
  <2>2. back = [op |-> "SetLineState", anchor |-> op.anchor,
                replacement |-> e.replacement, deleted |-> e.deleted]
    BY <1>3 DEF TakesBack, SetLine
  <2> HIDE DEF f, back
  <2>3. back \in Ops /\ back.anchor = op.anchor BY <1>1, <1>2, <2>2 DEF Ops
  <2>4. Reaches(f, back) BY <2>2 DEF Reaches
  <2>5. Makes(f, back) = e BY <1>1, <2>1, <2>2 DEF Makes
  <2> QED BY <2>3, <2>4, <2>5 DEF f, back
<1>4. CASE op.op = "SetInsert"
  <2>1. op.index \in 1 .. Len(e.inserts) /\ op.text \in Text BY <1>2, <1>4 DEF Ops, Reaches
  <2> DEFINE s == [e.inserts EXCEPT ![op.index] = op.text]
  <2>2. /\ s \in Seq(Text) /\ Len(s) = Len(e.inserts)
        /\ [s EXCEPT ![op.index] = e.inserts[op.index]] = e.inserts
        /\ e.inserts[op.index] \in Text
    <3> DEFINE q == e.inserts
               i == op.index
               t == op.text
    <3>1. q \in Seq(Text) /\ i \in 1 .. Len(q) /\ t \in Text BY <1>1, <2>1
    <3> HIDE DEF q, i, t
    <3>2. [q EXCEPT ![i] = t] \in Seq(Text) /\ Len([q EXCEPT ![i] = t]) = Len(q) /\ q[i] \in Text
      BY <3>1
    <3>3. [[q EXCEPT ![i] = t] EXCEPT ![i] = q[i]] = q
      <4>1. q = [j \in 1 .. Len(q) |-> q[j]] BY <3>1
      <4>2. [[q EXCEPT ![i] = t] EXCEPT ![i] = q[i]] = [j \in 1 .. Len(q) |-> q[j]]
        BY <3>1
      <4> QED BY <4>1, <4>2
    <3> QED BY <3>2, <3>3 DEF q, i, t
  <2>3. f = [inserts |-> s, replacement |-> e.replacement, deleted |-> e.deleted]
    BY <1>1, <1>4 DEF Makes
  <2>4. back = [op |-> "SetInsert", anchor |-> op.anchor, index |-> op.index,
                text |-> e.inserts[op.index]]
    BY <1>4 DEF TakesBack, SetInsert
  <2> HIDE DEF f, back, s
  <2>5. back \in Ops /\ back.anchor = op.anchor BY <1>2, <2>1, <2>2, <2>4 DEF Ops
  <2>6. Reaches(f, back) BY <2>1, <2>2, <2>3, <2>4 DEF Reaches
  <2>7. Makes(f, back) = [inserts |-> e.inserts, replacement |-> e.replacement, deleted |-> e.deleted]
    BY <2>2, <2>3, <2>4 DEF Makes
  <2> QED BY <1>1, <2>5, <2>6, <2>7 DEF f, back
<1>5. CASE op.op = "RemoveInsert"
  <2>1. op.index \in 1 .. Len(e.inserts) BY <1>2, <1>5 DEF Ops, Reaches
  <2> DEFINE s == RemoveAt(e.inserts, op.index)
  <2>2. /\ Len(s) = Len(e.inserts) - 1 /\ InsertAt(s, op.index, e.inserts[op.index]) = e.inserts
        /\ e.inserts[op.index] \in Text
    BY <1>1, <2>1, RemovedAt
  <2>3. f = [inserts |-> s, replacement |-> e.replacement, deleted |-> e.deleted]
    BY <1>1, <1>5 DEF Makes
  <2>4. back = [op |-> "InsertInsert", anchor |-> op.anchor, index |-> op.index,
                text |-> e.inserts[op.index]]
    BY <1>5 DEF TakesBack, InsertInsert
  <2> HIDE DEF f, back, s
  <2>5. back \in Ops /\ back.anchor = op.anchor BY <1>2, <2>1, <2>2, <2>4 DEF Ops
  <2>6. Reaches(f, back) BY <1>2, <2>1, <2>2, <2>3, <2>4 DEF Reaches
  <2>7. Makes(f, back) = [inserts |-> e.inserts, replacement |-> e.replacement, deleted |-> e.deleted]
    BY <2>2, <2>3, <2>4 DEF Makes
  <2> QED BY <1>1, <2>5, <2>6, <2>7 DEF f, back
<1>6. CASE op.op = "InsertInsert"
  <2>1. op.index \in 1 .. (Len(e.inserts) + 1) /\ op.text \in Text
    BY <1>2, <1>6 DEF Ops, Reaches
  <2> DEFINE s == InsertAt(e.inserts, op.index, op.text)
  <2>2. Len(s) = Len(e.inserts) + 1 /\ RemoveAt(s, op.index) = e.inserts
    BY <1>1, <2>1, InsertedAt
  <2>3. f = [inserts |-> s, replacement |-> e.replacement, deleted |-> e.deleted]
    BY <1>1, <1>6 DEF Makes
  <2>4. back = [op |-> "RemoveInsert", anchor |-> op.anchor, index |-> op.index]
    BY <1>6 DEF TakesBack, RemoveInsert
  <2> HIDE DEF f, back, s
  <2>5. back \in Ops /\ back.anchor = op.anchor BY <1>2, <2>1, <2>4 DEF Ops
  <2>6. Reaches(f, back) BY <1>2, <2>1, <2>2, <2>3, <2>4 DEF Reaches
  <2>7. Makes(f, back) = [inserts |-> e.inserts, replacement |-> e.replacement, deleted |-> e.deleted]
    BY <2>2, <2>3, <2>4 DEF Makes
  <2> QED BY <1>1, <2>5, <2>6, <2>7 DEF f, back
<1>7. op.op \in {"SetLineState", "SetInsert", "RemoveInsert", "InsertInsert"} BY DEF Ops
<1> QED BY <1>3, <1>4, <1>5, <1>6, <1>7

LEMMA StepBack ==
    ASSUME NEW ev, NEW op, NEW fv, Step(ev, op, fv)
    PROVE  LET back == TakesBack(At(ev, op.anchor), op) IN
           /\ \A rec : ApplyOp([ev |-> ev, rec |-> rec], op) = [ev |-> fv, rec |-> Append(rec, back)]
           /\ Step(fv, back, ev) /\ Tidy(fv)
<1> DEFINE e == At(ev, op.anchor)
           back == TakesBack(e, op)
           f == Makes(e, op)
<1>1. /\ Tidy(ev) /\ op \in Ops /\ op.anchor \in Regions(Base) /\ Reaches(e, op)
      /\ f \in EventsAt(op.anchor) /\ fv = Set(ev, op.anchor, f)
  BY DEF Step, Ops
<1>2. e \in EventsAt(op.anchor) BY <1>1, AtFacts
<1>3. Tidy(fv) /\ At(fv, op.anchor) = f
  <2> HIDE DEF f
  <2> QED BY <1>1, SetFacts
<1>4. back \in Ops /\ back.anchor = op.anchor /\ Reaches(f, back) /\ Makes(f, back) = e
  BY <1>1, <1>2, MakesBack
<1>5. Set(fv, op.anchor, e) = ev
  <2> HIDE DEF f
  <2> QED BY <1>1, SetBack
<1>6. \A rec : ApplyOp([ev |-> ev, rec |-> rec], op) = [ev |-> fv, rec |-> Append(rec, back)]
  <2> TAKE rec
  <2> HIDE DEF f, back, e
  <2> DEFINE w == [ev |-> ev, rec |-> rec]
  <2>1. w.ev = ev /\ w.rec = rec OBVIOUS
  <2> HIDE DEF w
  <2>2. ApplyOp(w, op) = [ev |-> Set(ev, op.anchor, f), rec |-> Append(rec, back)]
    BY <1>1, <2>1, ApplyOpIs DEF f, back, e
  <2> QED BY <1>1, <2>2 DEF w
<1> HIDE DEF f, back
<1>7. Step(fv, back, ev) BY <1>2, <1>3, <1>4, <1>5 DEF Step
<1> QED BY <1>3, <1>6, <1>7 DEF back

-----------------------------------------------------------------------------
(* Records.                                                                *)

\* Applied from its end, the record r takes `from' back to `to'.
Leads(r, from, to) ==
    /\ r \in Seq(Ops) /\ Tidy(from)
    /\ \E c : /\ c[Len(r)] = from /\ c[0] = to
              /\ \A n \in 1 .. Len(r) : Step(c[n], r[n], c[n - 1])

LEMMA LeadsNowhere == \A ev : Tidy(ev) => Leads(<<>>, ev, ev)
<1> TAKE ev
<1> HAVE Tidy(ev)
<1> DEFINE c == [n \in {0} |-> ev]
<1>1. Len(<<>>) = 0 /\ <<>> \in Seq(Ops) OBVIOUS
<1>2. c[0] = ev /\ \A n \in 1 .. 0 : Step(c[n], <<>>[n], c[n - 1]) OBVIOUS
<1> HIDE DEF c
<1> QED BY <1>1, <1>2 DEF Leads

LEMMA LeadsEmpty == \A from, to : Leads(<<>>, from, to) => from = to
BY DEF Leads

LEMMA LeadsOn ==
    ASSUME NEW r, NEW from, NEW to, Leads(r, from, to),
           NEW ev, NEW op, Step(ev, op, from)
    PROVE  Leads(Append(r, op), ev, to)
<1>1. PICK c : /\ c[Len(r)] = from /\ c[0] = to
               /\ \A n \in 1 .. Len(r) : Step(c[n], r[n], c[n - 1])
  BY DEF Leads
<1>2. r \in Seq(Ops) /\ op \in Ops /\ Tidy(ev) /\ Len(r) \in Nat BY DEF Leads, Step
<1> DEFINE L == Len(r)
           q == Append(r, op)
           d == [n \in 0 .. (L + 1) |-> IF n = L + 1 THEN ev ELSE c[n]]
<1>3. q \in Seq(Ops) /\ Len(q) = L + 1 /\ q[L + 1] = op /\ \A n \in 1 .. L : q[n] = r[n]
  BY <1>2
<1>4. d[L + 1] = ev /\ \A n \in 0 .. L : d[n] = c[n] BY <1>2
<1> HIDE DEF d, q
<1>5. \A n \in 1 .. (L + 1) : Step(d[n], q[n], d[n - 1])
  <2> TAKE n \in 1 .. (L + 1)
  <2>1. CASE n = L + 1
    <3>1. d[n - 1] = from BY <1>1, <1>2, <1>4, <2>1
    <3> QED BY <1>3, <1>4, <2>1, <3>1
  <2>2. CASE n # L + 1
    <3>1. n \in 1 .. L /\ n \in 0 .. L /\ n - 1 \in 0 .. L BY <1>2, <2>2
    <3> QED BY <1>1, <1>3, <1>4, <3>1
  <2> QED BY <2>1, <2>2
<1>6. d[Len(q)] = ev /\ d[0] = to BY <1>1, <1>2, <1>3, <1>4
<1>7. Leads(q, ev, to) BY <1>2, <1>3, <1>5, <1>6 DEF Leads
<1> QED BY <1>7 DEF q

LEMMA LeadsEnds == \A r, from, to : Leads(r, from, to) => Tidy(from) /\ Tidy(to)
<1> TAKE r, from, to
<1> HAVE Leads(r, from, to)
<1>1. PICK c : /\ c[Len(r)] = from /\ c[0] = to
               /\ \A n \in 1 .. Len(r) : Step(c[n], r[n], c[n - 1])
  BY DEF Leads
<1>2. Len(r) \in Nat BY DEF Leads
<1>3. CASE Len(r) = 0 BY <1>1, <1>3 DEF Leads
<1>4. CASE Len(r) # 0
  <2>1. 1 \in 1 .. Len(r) /\ 1 - 1 = 0 BY <1>2, <1>4
  <2>2. Step(c[1], r[1], to) BY <1>1, <2>1
  <2> QED BY <2>2, StepBack DEF Leads
<1> QED BY <1>3, <1>4

\* Steps in turn: each from what the one before it left.
LEMMA OpsInTurn ==
    ASSUME NEW ev, NEW ops, Len(ops) \in Nat
    PROVE  \E d : /\ d[0] = Work(ev)
                  /\ \A i \in 1 .. Len(ops) : d[i] = ApplyOp(d[i - 1], Reverse(ops)[i])
                  /\ ApplyRecord(ev, ops) = d[Len(ops)]
<1> DEFINE w == Work(ev)
           seq == Reverse(ops)
           L == Len(ops)
           Turns(g, k) == g = [i \in 0 .. k |->
               IF i = 0 THEN w
               ELSE CHOOSE y \in {ApplyOp(v, seq[i]) : v \in {g[i - 1]}} : TRUE]
           Q == {k \in 0 .. L : \E g : Turns(g, k)}
<1>0. \A x, i : (CHOOSE y \in {ApplyOp(v, seq[i]) : v \in {x}} : TRUE) = ApplyOp(x, seq[i])
  OBVIOUS
<1>2. \E g : Turns(g, 0)
  <2> DEFINE g == [i \in 0 .. 0 |-> w]
  <2>1. \A i \in 0 .. 0 : i = 0 OBVIOUS
  <2>2. Turns(g, 0) BY <2>1
  <2> QED BY <2>2
<1>3. ASSUME NEW k \in 1 .. L, \E g : Turns(g, k - 1) PROVE \E g : Turns(g, k)
  <2>1. PICK g : Turns(g, k - 1) BY <1>3
  <2> DEFINE h == [i \in 0 .. k |-> IF i = k THEN ApplyOp(g[k - 1], seq[k]) ELSE g[i]]
  <2>2. \A i \in 0 .. k : i # 0 => h[i - 1] = g[i - 1] OBVIOUS
  <2>3. \A i \in 0 .. k : h[i] = IF i = 0 THEN w
               ELSE CHOOSE y \in {ApplyOp(v, seq[i]) : v \in {h[i - 1]}} : TRUE
    <3> TAKE i \in 0 .. k
    <3>1. CASE i = k
      <4>1. h[i] = ApplyOp(g[k - 1], seq[k]) /\ i # 0 /\ h[i - 1] = g[i - 1] BY <2>2, <3>1
      <4>2. (CHOOSE y \in {ApplyOp(v, seq[i]) : v \in {h[i - 1]}} : TRUE) = ApplyOp(h[i - 1], seq[i])
        BY <1>0
      <4> HIDE DEF h
      <4> QED BY <3>1, <4>1, <4>2
    <3>2. CASE i # k
      <4>1. h[i] = g[i] /\ i \in 0 .. (k - 1) BY <3>2
      <4>2. g[i] = IF i = 0 THEN w
                   ELSE CHOOSE y \in {ApplyOp(v, seq[i]) : v \in {g[i - 1]}} : TRUE
        BY <2>1, <4>1
      <4> QED BY <2>2, <4>1, <4>2
    <3> QED BY <3>1, <3>2
  <2>4. h = [i \in 0 .. k |-> h[i]] OBVIOUS
  <2> HIDE DEF h
  <2>5. Turns(h, k) BY <2>3, <2>4
  <2> QED BY <2>5
<1>4. \E g : Turns(g, L)
  <2> HIDE DEF Turns
  <2>1. 0 \in Q BY <1>2
  <2>2. \A k \in 1 .. L : k - 1 \in Q => k \in Q BY <1>3
  <2>3. \A k \in 0 .. L : k \in Q
    <3> HIDE DEF Q, L
    <3> QED BY <2>1, <2>2, Climb DEF L
  <2> QED BY <2>3
<1> DEFINE d == CHOOSE g : Turns(g, L)
<1>5. Turns(d, L) BY <1>4
<1>8. Len(seq) = L BY DEF Reverse
<1> HIDE DEF seq, w
<1>6. InTurn(ApplyOp, w, seq) = d[L] BY <1>8 DEF InTurn, Of
<1>9. ApplyRecord(ev, ops) = d[L] BY <1>6 DEF ApplyRecord, seq, w
<1> HIDE DEF d
<1>7. d[0] = w /\ \A i \in 1 .. L : d[i] = ApplyOp(d[i - 1], seq[i]) BY <1>0, <1>5
<1> QED BY <1>9, <1>7 DEF seq, w

\* Taking a record back leads where the record leads, and what that records
\* leads back again.
LEMMA LeadsBack ==
    ASSUME NEW r, NEW from, NEW to, Leads(r, from, to)
    PROVE  LET back == ApplyRecord(from, r) IN
           back.ev = to /\ Leads(back.rec, to, from)
<1> DEFINE L == Len(r)
           q == Reverse(r)
<1>1. PICK c : /\ c[L] = from /\ c[0] = to
               /\ \A n \in 1 .. L : Step(c[n], r[n], c[n - 1])
  BY DEF Leads
<1>2. L \in Nat /\ Tidy(from) /\ Len(q) = L /\ \A i \in 1 .. L : q[i] = r[(L - i) + 1]
  BY DEF Leads, Reverse
<1> HIDE DEF q, L
<1>3. PICK d : /\ d[0] = Work(from)
               /\ \A i \in 1 .. L : d[i] = ApplyOp(d[i - 1], q[i])
               /\ ApplyRecord(from, r) = d[L]
  BY <1>2, OpsInTurn DEF q, L
<1> DEFINE P(i) == \E rec : d[i] = [ev |-> c[L - i], rec |-> rec] /\ Leads(rec, c[L - i], from)
           Q == {i \in 0 .. L : P(i)}
<1>4. P(0)
  <2>1. d[0] = [ev |-> c[L - 0], rec |-> <<>>] BY <1>1, <1>2, <1>3 DEF Work
  <2>2. Leads(<<>>, c[L - 0], from) BY <1>1, <1>2, LeadsNowhere
  <2> QED BY <2>1, <2>2
<1>5. ASSUME NEW i \in 1 .. L, P(i - 1) PROVE P(i)
  <2>1. PICK rec : /\ d[i - 1] = [ev |-> c[L - (i - 1)], rec |-> rec]
                   /\ Leads(rec, c[L - (i - 1)], from)
    BY <1>5
  <2>2. (L - i) + 1 \in 1 .. L /\ L - (i - 1) = (L - i) + 1 /\ ((L - i) + 1) - 1 = L - i BY <1>2
  <2>3. Step(c[L - (i - 1)], q[i], c[L - i]) BY <1>1, <1>2, <2>2
  <2> DEFINE back == TakesBack(At(c[L - (i - 1)], q[i].anchor), q[i])
  <2>4. /\ ApplyOp([ev |-> c[L - (i - 1)], rec |-> rec], q[i])
             = [ev |-> c[L - i], rec |-> Append(rec, back)]
        /\ Step(c[L - i], back, c[L - (i - 1)])
    BY <2>3, StepBack
  <2> HIDE DEF back
  <2>5. d[i] = [ev |-> c[L - i], rec |-> Append(rec, back)] BY <1>3, <2>1, <2>4
  <2>6. Leads(Append(rec, back), c[L - i], from) BY <2>1, <2>4, LeadsOn
  <2> QED BY <2>5, <2>6
<1>6. P(L)
  <2> HIDE DEF P
  <2>1. 0 \in Q BY <1>2, <1>4
  <2>2. \A i \in 1 .. L : i - 1 \in Q => i \in Q BY <1>2, <1>5
  <2>3. \A i \in 0 .. L : i \in Q
    <3> HIDE DEF Q
    <3> QED BY <1>2, <2>1, <2>2, Climb
  <2> QED BY <1>2, <2>3
<1>7. L - L = 0 BY <1>2
<1>8. PICK rec : d[L] = [ev |-> to, rec |-> rec] /\ Leads(rec, to, from) BY <1>1, <1>6, <1>7
<1> QED BY <1>3, <1>8

-----------------------------------------------------------------------------
(* Which region shows which line.                                          *)

From(ev, a) == Start(Base, ev, a)
Size(ev, a) == RegionLen(Base, ev, a)
Count(ev) == TotalLines(Base, ev)

LEMMA SizeFacts ==
    ASSUME NEW ev, Tidy(ev), NEW a \in Regions(Base)
    PROVE  /\ At(ev, a).inserts \in Seq(Text) /\ Len(At(ev, a).inserts) \in Nat
           /\ At(ev, a).replacement \in Text \cup {None} /\ At(ev, a).deleted \in BOOLEAN
           /\ Alive(Base, ev, a) \in BOOLEAN
           /\ Size(ev, a) = Len(At(ev, a).inserts) + (IF Alive(Base, ev, a) THEN 1 ELSE 0)
           /\ Size(ev, a) \in Nat
<1>1. At(ev, a) \in Events BY AtFacts DEF EventsAt
<1>2. /\ At(ev, a).inserts \in Seq(Text) /\ At(ev, a).replacement \in Text \cup {None}
      /\ At(ev, a).deleted \in BOOLEAN
  BY <1>1 DEF Events
<1>3. Len(At(ev, a).inserts) \in Nat BY <1>2
<1>4. Alive(Base, ev, a) \in BOOLEAN BY DEF Alive
<1> DEFINE n == Len(At(ev, a).inserts)
<1>5. Size(ev, a) = n + (IF Alive(Base, ev, a) THEN 1 ELSE 0) BY DEF Size, RegionLen
<1>6. n \in Nat BY <1>3
<1> HIDE DEF n
<1>7. Size(ev, a) \in Nat BY <1>5, <1>6
<1> QED BY <1>2, <1>4, <1>5, <1>6, <1>7 DEF n

\* The regions follow one another, and the last ends with the last line.
LEMMA FromFacts ==
    ASSUME NEW ev, Tidy(ev)
    PROVE  /\ From(ev, 1) = 1 /\ \A a \in Regions(Base) : From(ev, a) \in Nat \ {0}
           /\ \A a \in 1 .. Len(Base) : From(ev, a + 1) = From(ev, a) + Size(ev, a)
           /\ Count(ev) \in Nat
           /\ From(ev, Len(Base) + 1) + Size(ev, Len(Base) + 1) = Count(ev) + 1
<1> DEFINE N == Len(Base)
           size == [b \in Regions(Base) |-> RegionLen(Base, ev, b)]
           ins == [b \in Regions(Base) |-> Len(At(ev, b).inserts)]
           del == [b \in Regions(Base) |-> IF b <= Len(Base) /\ At(ev, b).deleted THEN 1 ELSE 0]
<1>1. N \in Nat /\ Regions(Base) = 1 .. (N + 1) BY BaseFacts DEF Regions
<1>2. \A b \in Regions(Base) : size[b] = Size(ev, b) /\ size[b] \in Nat /\ ins[b] \in Nat /\ del[b] \in Nat
  BY SizeFacts DEF Size
<1>3. size \in Seq(Nat) /\ Len(size) = N + 1 /\ ins \in Seq(Nat) /\ Len(ins) = N + 1
      /\ del \in Seq(Nat) /\ Len(del) = N + 1
  BY <1>1, <1>2
<1>4. /\ \A a \in 1 .. N : size[a] = (ins[a] + 1) - del[a]
      /\ size[N + 1] = ins[N + 1] /\ del[N + 1] = 0
  <2>1. ASSUME NEW a \in 1 .. N PROVE size[a] = (ins[a] + 1) - del[a]
    <3>1. a \in Regions(Base) /\ a <= Len(Base) BY <1>1
    <3>2. Size(ev, a) = Len(At(ev, a).inserts) + (IF Alive(Base, ev, a) THEN 1 ELSE 0)
      BY <3>1, SizeFacts
    <3>3. Alive(Base, ev, a) = ~At(ev, a).deleted BY <3>1 DEF Alive
    <3>4. ins[a] = Len(At(ev, a).inserts) /\ ins[a] \in Nat /\ size[a] = Size(ev, a)
          /\ del[a] = IF At(ev, a).deleted THEN 1 ELSE 0
      BY <1>2, <3>1
    <3> DEFINE n == Len(At(ev, a).inserts)
    <3>7. ins[a] = n /\ n \in Nat /\ size[a] = n + (IF At(ev, a).deleted THEN 0 ELSE 1)
          /\ del[a] = IF At(ev, a).deleted THEN 1 ELSE 0
      BY <3>2, <3>3, <3>4
    <3> HIDE DEF size, ins, del, n
    <3>5. CASE At(ev, a).deleted BY <3>7, <3>5
    <3>6. CASE ~At(ev, a).deleted BY <3>7, <3>6
    <3> QED BY <3>5, <3>6
  <2>2. N + 1 \in Regions(Base) /\ ~(N + 1 <= N) BY <1>1
  <2>3. ~Alive(Base, ev, N + 1) BY <2>2 DEF Alive
  <2>4. Size(ev, N + 1) = Len(At(ev, N + 1).inserts) + (IF Alive(Base, ev, N + 1) THEN 1 ELSE 0)
    BY <2>2, SizeFacts
  <2>5. Size(ev, N + 1) = Len(At(ev, N + 1).inserts)
    <3>1. Len(At(ev, N + 1).inserts) \in Nat BY <2>2, SizeFacts
    <3> HIDE DEF N
    <3> QED BY <2>3, <2>4, <3>1
  <2> QED BY <1>2, <2>1, <2>2, <2>5
<1> HIDE DEF size, ins, del
<1> DEFINE s == Sums(size)
           i == Sums(ins)
           d == Sums(del)
<1>5. /\ s[0] = 0 /\ i[0] = 0 /\ d[0] = 0
      /\ \A k \in 1 .. N + 1 : s[k] = s[k - 1] + size[k] /\ i[k] = i[k - 1] + ins[k]
                               /\ d[k] = d[k - 1] + del[k]
      /\ \A k \in 0 .. N + 1 : s[k] \in Nat /\ i[k] \in Nat /\ d[k] \in Nat
  BY <1>3, SumSteps
<1> HIDE DEF s, i, d
<1>6. \A k \in 0 .. N : s[k] = (k + i[k]) - d[k]
  <2> DEFINE Q == {k \in 0 .. N : s[k] = (k + i[k]) - d[k]}
  <2>1. 0 \in Q BY <1>1, <1>5
  <2>2. \A k \in 1 .. N : k - 1 \in Q => k \in Q
    <3> TAKE k \in 1 .. N
    <3> HAVE k - 1 \in Q
    <3>1. s[k - 1] = ((k - 1) + i[k - 1]) - d[k - 1] OBVIOUS
    <3>2. k \in Regions(Base) /\ k \in 1 .. N + 1 /\ k - 1 \in 0 .. N + 1 BY <1>1
    <3>3. /\ s[k] = s[k - 1] + size[k] /\ i[k] = i[k - 1] + ins[k] /\ d[k] = d[k - 1] + del[k]
          /\ size[k] = (ins[k] + 1) - del[k]
          /\ ins[k] \in Nat /\ del[k] \in Nat /\ i[k - 1] \in Nat /\ d[k - 1] \in Nat
      BY <1>2, <1>4, <1>5, <3>2
    <3> HIDE DEF Q
    <3>4. s[k] = (k + i[k]) - d[k] BY <1>1, <3>1, <3>3, SMTT(30)
    <3> QED BY <3>4 DEF Q
  <2>3. \A k \in 0 .. N : k \in Q
    <3> HIDE DEF Q, N
    <3> QED BY <1>1, <2>1, <2>2, Climb
  <2> QED BY <2>3
<1>7. \A a \in Regions(Base) : From(ev, a) = 1 + s[a - 1] BY DEF From, Start, s, size
<1>8. Count(ev) = (N + i[N + 1]) - d[N + 1] BY DEF Count, TotalLines, i, d, ins, del
<1> HIDE DEF N
<1>9. From(ev, 1) = 1 /\ \A a \in Regions(Base) : From(ev, a) \in Nat \ {0}
  BY <1>1, <1>5, <1>7, SMTT(30)
<1>10. \A a \in 1 .. N : From(ev, a + 1) = From(ev, a) + Size(ev, a)
  <2> TAKE a \in 1 .. N
  <2>1. /\ a \in Regions(Base) /\ a + 1 \in Regions(Base) /\ (a + 1) - 1 = a /\ a \in 1 .. N + 1
        /\ a - 1 \in 0 .. N + 1
    BY <1>1
  <2>2. From(ev, a + 1) = 1 + s[a] /\ From(ev, a) = 1 + s[a - 1] BY <1>7, <2>1
  <2>3. s[a] = s[a - 1] + size[a] /\ s[a - 1] \in Nat /\ size[a] \in Nat /\ size[a] = Size(ev, a)
    BY <1>2, <1>5, <2>1
  <2> QED BY <2>2, <2>3
<1>11. Count(ev) \in Nat /\ From(ev, N + 1) + Size(ev, N + 1) = Count(ev) + 1
  <2>1. /\ N + 1 \in Regions(Base) /\ (N + 1) - 1 = N /\ N \in 0 .. N /\ N + 1 \in 1 .. N + 1
        /\ N + 1 \in 0 .. N + 1 /\ N \in 0 .. N + 1
    BY <1>1
  <2>2. From(ev, N + 1) = 1 + s[N] /\ Size(ev, N + 1) = size[N + 1] BY <1>2, <1>7, <2>1
  <2>3. /\ s[N + 1] = s[N] + size[N + 1] /\ i[N + 1] = i[N] + ins[N + 1]
        /\ d[N + 1] = d[N] + del[N + 1]
    BY <1>5, <2>1
  <2>4. s[N] = (N + i[N]) - d[N] BY <1>6, <2>1
  <2>5. s[N] \in Nat /\ i[N] \in Nat /\ d[N] \in Nat /\ ins[N + 1] \in Nat BY <1>2, <1>5, <2>1
  <2>6. Count(ev) = s[N] + ins[N + 1] BY <1>1, <1>4, <1>8, <2>3, <2>4, <2>5
  <2> QED BY <1>4, <2>2, <2>5, <2>6
<1> QED BY <1>9, <1>10, <1>11 DEF N

LEMMA FromGrows ==
    ASSUME NEW ev, Tidy(ev), NEW a \in Regions(Base), NEW b \in Regions(Base), a < b
    PROVE  From(ev, a) + Size(ev, a) <= From(ev, b)
<1> DEFINE N == Len(Base)
           L == b - (a + 1)
           Q == {k \in 0 .. L : From(ev, a) + Size(ev, a) <= From(ev, (a + 1) + k)}
<1>1. N \in Nat /\ Regions(Base) = 1 .. (N + 1) BY BaseFacts DEF Regions
<1>2. /\ From(ev, 1) = 1 /\ \A c \in Regions(Base) : From(ev, c) \in Nat /\ Size(ev, c) \in Nat
      /\ \A c \in 1 .. N : From(ev, c + 1) = From(ev, c) + Size(ev, c)
  BY FromFacts, SizeFacts
<1> HIDE DEF N
<1>3. L \in Nat /\ (a + 1) + L = b /\ a \in 1 .. N /\ a \in Nat /\ b \in Nat BY <1>1
<1>4. 0 \in Q
  <2>1. (a + 1) + 0 = a + 1 BY <1>3
  <2>2. From(ev, a) + Size(ev, a) <= From(ev, a + 1) BY <1>1, <1>2, <1>3
  <2> QED BY <1>3, <2>1, <2>2
<1>5. \A k \in 1 .. L : k - 1 \in Q => k \in Q
  <2> TAKE k \in 1 .. L
  <2> HAVE k - 1 \in Q
  <2>1. /\ a + k \in 1 .. N /\ (a + 1) + (k - 1) = a + k /\ (a + 1) + k = (a + k) + 1
        /\ a \in Regions(Base) /\ a + k \in Regions(Base) /\ (a + k) + 1 \in Regions(Base)
    BY <1>1, <1>3
  <2>2. From(ev, a) + Size(ev, a) <= From(ev, a + k) BY <2>1
  <2>3. From(ev, (a + k) + 1) = From(ev, a + k) + Size(ev, a + k) BY <1>2, <2>1
  <2>4. From(ev, a) + Size(ev, a) <= From(ev, (a + k) + 1)
    <3>1. From(ev, a) \in Nat /\ Size(ev, a) \in Nat /\ From(ev, a + k) \in Nat /\ Size(ev, a + k) \in Nat
      BY <1>2, <2>1
    <3> QED BY <2>2, <2>3, <3>1
  <2> QED BY <2>1, <2>4
<1>6. \A k \in 0 .. L : k \in Q
  <2> HIDE DEF Q, L
  <2> QED BY <1>3, <1>4, <1>5, Climb
<1> QED BY <1>3, <1>6

\* Each line of a region is found where it is shown.
LEMMA LocateIs ==
    ASSUME NEW ev, Tidy(ev), NEW a \in Regions(Base), NEW i \in 1 .. Size(ev, a)
    PROVE  /\ (From(ev, a) + i) - 1 \in 1 .. Count(ev)
           /\ Locate(Base, ev, (From(ev, a) + i) - 1) = [anchor |-> a, index |-> i]
<1> DEFINE l == (From(ev, a) + i) - 1
           N == Len(Base)
           In(b) == From(ev, b) <= l /\ l < From(ev, b) + Size(ev, b)
<1>1. N \in Nat /\ Regions(Base) = 1 .. (N + 1) BY BaseFacts DEF Regions
<1>2. \A c \in Regions(Base) : From(ev, c) \in Nat \ {0} /\ Size(ev, c) \in Nat BY FromFacts, SizeFacts
<1>3. Count(ev) \in Nat /\ From(ev, N + 1) + Size(ev, N + 1) = Count(ev) + 1 BY FromFacts
<1>4. \A b, c \in Regions(Base) : b < c => From(ev, b) + Size(ev, b) <= From(ev, c) BY FromGrows
<1>5. From(ev, a) \in Nat \ {0} /\ Size(ev, a) \in Nat /\ i \in Nat /\ i >= 1 /\ i <= Size(ev, a)
  BY <1>2
<1> HIDE DEF N
<1>6. In(a) /\ l \in Nat \ {0} BY <1>5
<1>7. l <= Count(ev)
  <2>1. CASE a = N + 1 BY <1>3, <1>5, <2>1
  <2>2. CASE a # N + 1
    <3>1. N + 1 \in Regions(Base) /\ a < N + 1 BY <1>1, <2>2
    <3>2. From(ev, a) + Size(ev, a) <= From(ev, N + 1) BY <1>4, <3>1
    <3>3. From(ev, N + 1) \in Nat /\ Size(ev, N + 1) \in Nat BY <1>2, <3>1
    <3> QED BY <1>3, <1>5, <3>2, <3>3
  <2> QED BY <2>1, <2>2
<1> HIDE DEF l
<1>8. \A b \in Regions(Base) : In(b) => b = a
  <2> SUFFICES ASSUME NEW b \in Regions(Base), In(b) PROVE b = a OBVIOUS
  <2>1. /\ From(ev, b) \in Nat /\ Size(ev, b) \in Nat /\ From(ev, a) \in Nat /\ Size(ev, a) \in Nat
        /\ l \in Nat /\ a \in Nat /\ b \in Nat
    BY <1>1, <1>2, <1>6
  <2>2. ~(a < b)
    <3> SUFFICES ASSUME a < b PROVE FALSE OBVIOUS
    <3>1. From(ev, a) + Size(ev, a) <= From(ev, b) BY <1>4
    <3> QED BY <1>6, <2>1, <3>1
  <2>3. ~(b < a)
    <3> SUFFICES ASSUME b < a PROVE FALSE OBVIOUS
    <3>1. From(ev, b) + Size(ev, b) <= From(ev, a) BY <1>4
    <3> QED BY <1>6, <2>1, <3>1
  <2> QED BY <2>1, <2>2, <2>3
<1>9. (CHOOSE b \in Regions(Base) : In(b)) = a
  <2> HIDE DEF In
  <2> QED BY <1>6, <1>8
<1>10. l + (1 - From(ev, a)) = i BY <1>5 DEF l
<1>11. Locate(Base, ev, l) = [anchor |-> a, index |-> l + (1 - From(ev, a))]
  <2>1. (CHOOSE b \in Regions(Base) : /\ Start(Base, ev, b) <= l
                                     /\ l < Start(Base, ev, b) + RegionLen(Base, ev, b)) = a
    BY <1>9 DEF From, Size
  <2> QED BY <2>1 DEF Locate, From
<1>12. l \in 1 .. Count(ev) BY <1>3, <1>6, <1>7
<1> QED BY <1>10, <1>11, <1>12 DEF l

\* Each line is in a region.
LEMMA LocateFinds ==
    ASSUME NEW ev, Tidy(ev), NEW l \in 1 .. Count(ev)
    PROVE  \E a \in Regions(Base) : \E i \in 1 .. Size(ev, a) :
               l = (From(ev, a) + i) - 1 /\ Locate(Base, ev, l) = [anchor |-> a, index |-> i]
<1> DEFINE N == Len(Base)
<1>1. N \in Nat /\ Regions(Base) = 1 .. (N + 1) BY BaseFacts DEF Regions
<1>2. \A c \in Regions(Base) : From(ev, c) \in Nat \ {0} /\ Size(ev, c) \in Nat BY FromFacts, SizeFacts
<1>3. /\ Count(ev) \in Nat /\ From(ev, N + 1) + Size(ev, N + 1) = Count(ev) + 1
      /\ From(ev, 1) = 1 /\ \A c \in 1 .. N : From(ev, c + 1) = From(ev, c) + Size(ev, c)
  BY FromFacts
<1>4. l \in Nat /\ l >= 1 /\ l <= Count(ev) BY <1>3
<1> HIDE DEF N
<1>5. PICK a \in Regions(Base) : From(ev, a) <= l /\ l < From(ev, a) + Size(ev, a)
  <2> SUFFICES ASSUME \A a \in Regions(Base) : From(ev, a) <= l => From(ev, a) + Size(ev, a) <= l
               PROVE  FALSE
    BY <1>2, <1>4
  <2> DEFINE Q == {k \in 0 .. N : From(ev, k + 1) <= l}
  <2>1. 0 \in Q BY <1>1, <1>3, <1>4
  <2>2. \A k \in 1 .. N : k - 1 \in Q => k \in Q
    <3> TAKE k \in 1 .. N
    <3> HAVE k - 1 \in Q
    <3>1. (k - 1) + 1 = k /\ k \in Regions(Base) BY <1>1
    <3>2. From(ev, k) <= l BY <3>1
    <3>3. From(ev, k) + Size(ev, k) <= l BY <3>1, <3>2
    <3>4. From(ev, k + 1) = From(ev, k) + Size(ev, k) BY <1>3
    <3> QED BY <3>3, <3>4
  <2>3. \A k \in 0 .. N : k \in Q
    <3> HIDE DEF Q
    <3> QED BY <1>1, <2>1, <2>2, Climb
  <2>4. From(ev, N + 1) <= l /\ N + 1 \in Regions(Base) BY <1>1, <2>3
  <2>5. From(ev, N + 1) + Size(ev, N + 1) <= l BY <2>4
  <2> QED BY <1>3, <1>4, <2>5
<1> DEFINE i == (l + 1) - From(ev, a)
<1>6. i \in 1 .. Size(ev, a) /\ l = (From(ev, a) + i) - 1 BY <1>2, <1>4, <1>5
<1> HIDE DEF i
<1>7. Locate(Base, ev, l) = [anchor |-> a, index |-> i] BY <1>6, LocateIs
<1> QED BY <1>6, <1>7

-----------------------------------------------------------------------------
(* The view.                                                               *)

LEMMA FlattenSteps ==
    ASSUME NEW T, NEW seqs \in Seq(Seq(T)), seqs # <<>>
    PROVE  \E f : /\ f[1] = seqs[1]
                  /\ \A k \in 2 .. Len(seqs) : f[k] = f[k - 1] \o seqs[k]
                  /\ FlattenSeq(seqs) = f[Len(seqs)]
<1> DEFINE L == Len(seqs)
           Joins(g, k) == g = [i \in 1 .. k |-> IF i = 1 THEN seqs[i] ELSE g[i - 1] \o seqs[i]]
           Q == {k \in 0 .. L : \E g : Joins(g, k)}
<1>1. L \in Nat \ {0} OBVIOUS
<1>2. \E g : Joins(g, 0)
  <2> DEFINE g == [i \in 1 .. 0 |-> <<>>]
  <2>1. Joins(g, 0) OBVIOUS
  <2> QED BY <2>1
<1>3. ASSUME NEW k \in 1 .. L, \E g : Joins(g, k - 1) PROVE \E g : Joins(g, k)
  <2>1. PICK g : Joins(g, k - 1) BY <1>3
  <2> DEFINE h == [i \in 1 .. k |-> IF i = k THEN (IF k = 1 THEN seqs[k] ELSE g[k - 1] \o seqs[k])
                                             ELSE g[i]]
  <2>2. \A i \in 1 .. k : i # 1 => h[i - 1] = g[i - 1] OBVIOUS
  <2>3. \A i \in 1 .. k : h[i] = IF i = 1 THEN seqs[i] ELSE h[i - 1] \o seqs[i]
    <3> TAKE i \in 1 .. k
    <3>1. CASE i = k BY <2>2, <3>1
    <3>2. CASE i # k
      <4>1. h[i] = g[i] /\ i \in 1 .. (k - 1) BY <3>2
      <4>2. g[i] = IF i = 1 THEN seqs[i] ELSE g[i - 1] \o seqs[i] BY <2>1, <4>1
      <4> QED BY <2>2, <4>1, <4>2
    <3> QED BY <3>1, <3>2
  <2>4. h = [i \in 1 .. k |-> h[i]] OBVIOUS
  <2> HIDE DEF h
  <2>5. Joins(h, k) BY <2>3, <2>4
  <2> QED BY <2>5
<1>4. \E g : Joins(g, L)
  <2> HIDE DEF Joins
  <2>1. 0 \in Q BY <1>1, <1>2
  <2>2. \A k \in 1 .. L : k - 1 \in Q => k \in Q BY <1>1, <1>3
  <2>3. \A k \in 0 .. L : k \in Q
    <3> HIDE DEF Q, L
    <3> QED BY <1>1, <2>1, <2>2, Climb
  <2> QED BY <1>1, <2>3
<1> DEFINE f == CHOOSE g : Joins(g, L)
<1>5. Joins(f, L) BY <1>4
<1>6. FlattenSeq(seqs) = f[L] BY <1>1 DEF FlattenSeq
<1> HIDE DEF f
<1> HIDE DEF L
<1>7. \A k \in 1 .. L : f[k] = IF k = 1 THEN seqs[k] ELSE f[k - 1] \o seqs[k] BY <1>5
<1>8. f[1] = seqs[1] BY <1>1, <1>7
<1>9. \A k \in 2 .. L : f[k] = f[k - 1] \o seqs[k]
  <2> TAKE k \in 2 .. L
  <2>1. k \in 1 .. L /\ k # 1 BY <1>1
  <2> QED BY <1>7, <2>1
<1> QED BY <1>6, <1>8, <1>9 DEF L

LEMMA RegionFacts ==
    ASSUME NEW ev, Tidy(ev), NEW a \in Regions(Base)
    PROVE  LET r == Region(Base, ev, a) ins == At(ev, a).inserts IN
           /\ r \in Seq(Text) /\ Len(r) = Size(ev, a)
           /\ \A i \in 1 .. Len(ins) : r[i] = ins[i]
           /\ Alive(Base, ev, a) => r[Len(ins) + 1] = OwnText(Base, ev, a)
<1> DEFINE ins == At(ev, a).inserts
           r == Region(Base, ev, a)
           t == OwnText(Base, ev, a)
<1>1. /\ ins \in Seq(Text) /\ Len(ins) \in Nat
      /\ At(ev, a).replacement \in Text \cup {None} /\ Alive(Base, ev, a) \in BOOLEAN
      /\ Size(ev, a) = Len(ins) + (IF Alive(Base, ev, a) THEN 1 ELSE 0)
  BY SizeFacts
<1>2. CASE Alive(Base, ev, a)
  <2>1. a \in 1 .. Len(Base) BY <1>2, BaseFacts DEF Alive
  <2>2. t \in Text BY <1>1, <2>1, BaseFacts DEF OwnText
  <2>3. r = ins \o <<t>> /\ Size(ev, a) = Len(ins) + 1 BY <1>1, <1>2 DEF Region
  <2> HIDE DEF ins, r, t
  <2>4. r \in Seq(Text) /\ Len(r) = Len(ins) + 1 BY <1>1, <2>2, <2>3
  <2>5. r[Len(ins) + 1] = t /\ \A i \in 1 .. Len(ins) : r[i] = ins[i] BY <1>1, <2>2, <2>3
  <2> QED BY <2>3, <2>4, <2>5 DEF ins, r, t
<1>3. CASE ~Alive(Base, ev, a)
  <2>1. r = ins \o <<>> /\ Size(ev, a) = Len(ins) + 0 BY <1>1, <1>3 DEF Region
  <2> HIDE DEF ins, r, t
  <2>2. r = ins /\ Size(ev, a) = Len(ins) BY <1>1, <2>1
  <2> QED BY <1>1, <1>3, <2>2 DEF ins, r, t
<1> QED BY <1>1, <1>2, <1>3

LEMMA InEarlier ==
    \A x, y, z, i \in Nat : x >= 1 /\ i >= 1 /\ i <= y /\ x + y <= z
                              => (x + i) - 1 \in 1 .. (z - 1)
OBVIOUS

\* Where M parts come to lie when they are joined: part k from F[k] on.
Lies(T, M, r, F) ==
    /\ M \in Nat \ {0} /\ r \in Seq(Seq(T)) /\ Len(r) = M
    /\ F[1] = 1 /\ \A k \in 1 .. M : F[k] \in Nat \ {0}
    /\ \A k \in 2 .. M : F[k] = F[k - 1] + Len(r[k - 1])
    /\ \A b, c \in 1 .. M : b < c => F[b] + Len(r[b]) <= F[c]

LEMMA Joined ==
    ASSUME NEW T, NEW M, NEW r, NEW F, Lies(T, M, r, F)
    PROVE  LET v == FlattenSeq(r) IN
           /\ v \in Seq(T) /\ Len(v) = (F[M] + Len(r[M])) - 1
           /\ \A a \in 1 .. M : \A i \in 1 .. Len(r[a]) : v[(F[a] + i) - 1] = r[a][i]
<1>0. /\ M \in Nat \ {0} /\ r \in Seq(Seq(T)) /\ Len(r) = M
      /\ F[1] = 1 /\ \A k \in 1 .. M : F[k] \in Nat \ {0}
      /\ \A k \in 2 .. M : F[k] = F[k - 1] + Len(r[k - 1])
      /\ \A b, c \in 1 .. M : b < c => F[b] + Len(r[b]) <= F[c]
  BY DEF Lies
<1> DEFINE To(a) == (F[a] + Len(r[a])) - 1
<1>1. \A a \in 1 .. M : r[a] \in Seq(T) /\ Len(r[a]) \in Nat BY <1>0
<1>2. r # <<>> BY <1>0
<1>3. PICK f : /\ f[1] = r[1]
               /\ \A k \in 2 .. M : f[k] = f[k - 1] \o r[k]
               /\ FlattenSeq(r) = f[M]
  BY <1>2, <1>0, FlattenSteps
<1> DEFINE P(k) == /\ f[k] \in Seq(T) /\ Len(f[k]) = To(k)
                   /\ \A a \in 1 .. k : \A i \in 1 .. Len(r[a]) :
                        f[k][(F[a] + i) - 1] = r[a][i]
<1>4. P(1)
  <2>1. 1 \in 1 .. M BY <1>0
  <2>2. To(1) = Len(r[1]) BY <1>1, <1>0, <2>1
  <2>3. \A a \in 1 .. 1 : a = 1 OBVIOUS
  <2>4. \A i \in 1 .. Len(r[1]) : (F[1] + i) - 1 = i BY <1>1, <1>0, <2>1
  <2>5. f[1] \in Seq(T) /\ Len(f[1]) = To(1) BY <1>1, <1>3, <1>0, <2>1, <2>2
  <2>6. \A i \in 1 .. Len(r[1]) : f[1][(F[1] + i) - 1] = r[1][i] BY <1>3, <1>0, <2>4
  <2> QED BY <2>3, <2>5, <2>6
<1>5. ASSUME NEW k \in 2 .. M, P(k - 1) PROVE P(k)
  <2>1. k \in 1 .. M /\ k - 1 \in 1 .. M /\ (k - 1) + 1 = k BY <1>0
  <2>2. /\ f[k - 1] \in Seq(T) /\ Len(f[k - 1]) = To(k - 1)
        /\ r[k] \in Seq(T) /\ f[k] = f[k - 1] \o r[k]
    BY <1>1, <1>3, <1>5, <2>1
  <2>3. F[k] = F[k - 1] + Len(r[k - 1]) BY <1>0
  <2>4. /\ F[k] \in Nat \ {0} /\ Len(r[k]) \in Nat
        /\ F[k - 1] \in Nat \ {0} /\ Len(r[k - 1]) \in Nat
    BY <1>1, <1>0, <2>1
  <2>5. To(k - 1) = F[k] - 1 BY <2>3, <2>4
  <2>6. Len(f[k - 1]) = F[k] - 1 BY <2>2, <2>5
  <2>7. f[k] \in Seq(T) /\ Len(f[k]) = To(k)
    <3>1. f[k] \in Seq(T) /\ Len(f[k]) = Len(f[k - 1]) + Len(r[k])
      <4> DEFINE A == f[k - 1]  B == r[k]  C == f[k]
      <4>1. A \in Seq(T) /\ B \in Seq(T) /\ C = A \o B BY <2>2
      <4> HIDE DEF A, B, C
      <4>2. C \in Seq(T) /\ Len(C) = Len(A) + Len(B) BY <4>1
      <4> QED BY <4>2 DEF A, B, C
    <3>2. Len(f[k - 1]) + Len(r[k]) = To(k) BY <2>4, <2>6
    <3> QED BY <3>1, <3>2
  <2>8. ASSUME NEW a \in 1 .. k, NEW i \in 1 .. Len(r[a])
        PROVE  f[k][(F[a] + i) - 1] = r[a][i]
    <3> DEFINE j == (F[a] + i) - 1
    <3>1. a \in 1 .. M /\ F[a] \in Nat \ {0} /\ Len(r[a]) \in Nat /\ i \in Nat /\ i >= 1 /\ i <= Len(r[a])
      <4>1. a \in 1 .. M BY <1>0
      <4> QED BY <1>1, <1>0, <4>1
    <3>2. CASE a = k
      <4> DEFINE A == f[k - 1]  B == r[k]  C == f[k]
      <4>1. A \in Seq(T) /\ B \in Seq(T) /\ C = A \o B /\ Len(A) = F[k] - 1 BY <2>2, <2>6
      <4>2. B[i] = r[a][i] /\ j = (F[k] + i) - 1 /\ i <= Len(B) BY <3>1, <3>2
      <4> HIDE DEF A, B, C
      <4>3. Len(B) \in Nat BY <4>1
      <4>4. j \in 1 .. (Len(A) + Len(B)) /\ j > Len(A) /\ j - Len(A) = i
        <5>1. Len(A) \in Int /\ F[k] \in Nat /\ F[k] >= 1 BY <2>4, <4>1
        <5>0. i \in Nat /\ i >= 1 /\ i <= Len(B) /\ Len(A) = F[k] - 1 BY <3>1, <4>1, <4>2
        <5>2. /\ (F[k] + i) - 1 \in 1 .. (Len(A) + Len(B)) /\ (F[k] + i) - 1 > Len(A)
              /\ ((F[k] + i) - 1) - Len(A) = i
          BY <4>3, <5>0, <5>1, SMTT(30)
        <5> QED BY <4>2, <5>2
      <4> HIDE DEF j
      <4>5. C[j] = B[i]
        <5>1. A \in Seq(T) /\ B \in Seq(T) /\ C = A \o B BY <4>1
        <5> QED BY <4>4, <5>1
      <4> QED BY <4>2, <4>5 DEF C, j
    <3>3. CASE a # k
      <4>1. a \in 1 .. (k - 1) /\ a < k BY <3>1, <3>3
      <4>2. F[a] + Len(r[a]) <= F[k] BY <1>0, <2>1, <3>1, <4>1
      <4>6. j \in 1 .. (F[k] - 1)
        <5>1. F[a] \in Nat /\ F[a] >= 1 /\ F[k] \in Nat BY <2>4, <3>1
        <5> QED BY <3>1, <4>2, <5>1, InEarlier
      <4>3. j \in 1 .. Len(f[k - 1]) BY <2>6, <4>6
      <4>4. f[k - 1][j] = r[a][i] BY <1>5, <4>1
      <4>5. f[k][j] = f[k - 1][j]
        <5> DEFINE A == f[k - 1]  B == r[k]  C == f[k]
        <5>1. A \in Seq(T) /\ B \in Seq(T) /\ C = A \o B /\ j \in 1 .. Len(A) BY <2>2, <4>3
        <5> HIDE DEF j, A, B, C
        <5>2. C[j] = A[j] BY <5>1
        <5> QED BY <5>2 DEF A, C
      <4> QED BY <4>4, <4>5
    <3> QED BY <3>2, <3>3
  <2> QED BY <2>7, <2>8
<1>6. P(M)
  <2> HIDE DEF P
  <2> DEFINE L == M - 1
             Q == {k \in 0 .. L : P(k + 1)}
  <2>1. L \in Nat /\ L + 1 = M /\ 0 \in Q BY <1>4, <1>0
  <2>2. \A k \in 1 .. L : k - 1 \in Q => k \in Q
    <3> TAKE k \in 1 .. L
    <3> HAVE k - 1 \in Q
    <3>1. k + 1 \in 2 .. M /\ (k + 1) - 1 = k /\ (k - 1) + 1 = k BY <1>0
    <3>2. P((k + 1) - 1) BY <3>1
    <3>3. P(k + 1) BY <1>5, <3>1, <3>2
    <3> QED BY <3>3
  <2>3. \A k \in 0 .. L : k \in Q
    <3> HIDE DEF Q, L
    <3> QED BY <2>1, <2>2, Climb
  <2>4. L \in 0 .. L BY <2>1
  <2>5. P(L + 1) BY <2>3, <2>4
  <2> QED BY <2>1, <2>5
<1> QED BY <1>3, <1>6

\* The view is the regions in their order, each from where it begins.
LEMMA ViewFacts ==
    ASSUME NEW ev, Tidy(ev)
    PROVE  LET v == View(Base, ev) IN
           /\ v \in Seq(Text) /\ Len(v) = Count(ev)
           /\ \A a \in Regions(Base) : \A i \in 1 .. Size(ev, a) :
                v[(From(ev, a) + i) - 1] = Region(Base, ev, a)[i]
<1> DEFINE N == Len(Base)
           M == N + 1
           r == [a \in Regions(Base) |-> Region(Base, ev, a)]
           F == [a \in 1 .. M |-> From(ev, a)]
<1>1. N \in Nat /\ Regions(Base) = 1 .. M /\ M \in Nat \ {0} BY BaseFacts DEF Regions
<1>2. \A a \in 1 .. M : r[a] \in Seq(Text) /\ Len(r[a]) = Size(ev, a) BY <1>1, RegionFacts
<1>3. r \in Seq(Seq(Text)) /\ Len(r) = M BY <1>1, <1>2
<1>4. \A a \in 1 .. M : r[a] = Region(Base, ev, a) /\ F[a] = From(ev, a) BY <1>1
<1>5. View(Base, ev) = FlattenSeq(r) BY DEF View
<1> HIDE DEF r, F
<1>6. F[1] = 1 /\ \A a \in 1 .. M : F[a] \in Nat \ {0} BY <1>1, <1>4, FromFacts
<1>7. \A a \in 2 .. M : F[a] = F[a - 1] + Len(r[a - 1])
  <2> TAKE a \in 2 .. M
  <2>1. a \in 1 .. M /\ a - 1 \in 1 .. N /\ a - 1 \in 1 .. M /\ (a - 1) + 1 = a BY <1>1
  <2>2. From(ev, (a - 1) + 1) = From(ev, a - 1) + Size(ev, a - 1) BY <2>1, FromFacts
  <2> QED BY <1>2, <1>4, <2>1, <2>2
<1>8. \A b, c \in 1 .. M : b < c => F[b] + Len(r[b]) <= F[c] BY <1>1, <1>2, <1>4, FromGrows
<1>9. From(ev, M) + Size(ev, M) = Count(ev) + 1 /\ Count(ev) \in Nat /\ M \in 1 .. M
  BY <1>1, FromFacts
<1>10. (F[M] + Len(r[M])) - 1 = Count(ev)
  <2>1. F[M] + Len(r[M]) = Count(ev) + 1 BY <1>2, <1>4, <1>9
  <2> QED BY <1>9, <2>1
<1> HIDE DEF M, N
<1>11. /\ FlattenSeq(r) \in Seq(Text) /\ Len(FlattenSeq(r)) = (F[M] + Len(r[M])) - 1
       /\ \A a \in 1 .. M : \A i \in 1 .. Len(r[a]) : FlattenSeq(r)[(F[a] + i) - 1] = r[a][i]
  <2>1. Lies(Text, M, r, F) BY <1>1, <1>3, <1>6, <1>7, <1>8 DEF Lies
  <2> QED BY <2>1, Joined
<1> QED BY <1>1, <1>2, <1>4, <1>5, <1>10, <1>11

\* The walks agree on each line, whatever a tidy overlay holds.
LEMMA TidyWalks ==
    ASSUME NEW ev, Tidy(ev)
    PROVE  /\ TotalLines(Base, ev) = Len(View(Base, ev))
           /\ \A l \in 1 .. TotalLines(Base, ev) : LineText(Base, ev, l) = View(Base, ev)[l]
<1>1. TotalLines(Base, ev) = Count(ev) BY DEF Count
<1>2. ASSUME NEW l \in 1 .. Count(ev) PROVE LineText(Base, ev, l) = View(Base, ev)[l]
  <2>0. PICK a \in Regions(Base) : \E i \in 1 .. Size(ev, a) :
            l = (From(ev, a) + i) - 1 /\ Locate(Base, ev, l) = [anchor |-> a, index |-> i]
    BY LocateFinds
  <2>1. PICK i \in 1 .. Size(ev, a) :
            l = (From(ev, a) + i) - 1 /\ Locate(Base, ev, l) = [anchor |-> a, index |-> i]
    BY <2>0
  <2>2. View(Base, ev)[l] = Region(Base, ev, a)[i] BY <2>1, ViewFacts
  <2> DEFINE ins == At(ev, a).inserts
  <2>3. /\ Len(ins) \in Nat /\ Size(ev, a) = Len(ins) + (IF Alive(Base, ev, a) THEN 1 ELSE 0)
        /\ Alive(Base, ev, a) \in BOOLEAN
    BY SizeFacts
  <2>4. /\ \A j \in 1 .. Len(ins) : Region(Base, ev, a)[j] = ins[j]
        /\ Alive(Base, ev, a) => Region(Base, ev, a)[Len(ins) + 1] = OwnText(Base, ev, a)
    BY RegionFacts
  <2>5. LineText(Base, ev, l) = IF i <= Len(ins) THEN ins[i] ELSE OwnText(Base, ev, a)
    BY <2>1 DEF LineText, IsInsert
  <2> HIDE DEF ins
  <2>6. CASE i <= Len(ins) BY <2>2, <2>3, <2>4, <2>5, <2>6
  <2>7. CASE ~(i <= Len(ins))
    <3>1. Alive(Base, ev, a) /\ i = Len(ins) + 1 BY <2>3, <2>7
    <3> QED BY <2>2, <2>4, <2>5, <2>7, <3>1
  <2> QED BY <2>6, <2>7
<1> QED BY <1>1, <1>2, ViewFacts

-----------------------------------------------------------------------------
(* One anchor changes: the view changes there and nowhere else.            *)

\* y is x with the o elements past the first p replaced by parts.
Swaps(x, y, p, o, parts) ==
    /\ x \in Seq(Text) /\ y \in Seq(Text) /\ parts \in Seq(Text)
    /\ p \in Nat /\ o \in Nat /\ p + o <= Len(x)
    /\ Len(y) = (Len(x) - o) + Len(parts)
    /\ \A i \in 1 .. p : y[i] = x[i]
    /\ \A i \in 1 .. Len(parts) : y[p + i] = parts[i]
    /\ \A i \in 1 .. (Len(x) - (p + o)) : y[(p + Len(parts)) + i] = x[(p + o) + i]

LEMMA SetMoves ==
    ASSUME NEW ev, Tidy(ev), NEW fv, Tidy(fv), NEW a \in Regions(Base),
           \A b : b # a => At(fv, b) = At(ev, b)
    PROVE  /\ \A b \in Regions(Base) : b # a => /\ Size(fv, b) = Size(ev, b)
                                                /\ Region(Base, fv, b) = Region(Base, ev, b)
           /\ \A b \in Regions(Base) : b <= a => From(fv, b) = From(ev, b)
           /\ \A b \in Regions(Base) : b > a =>
                From(fv, b) = (From(ev, b) + Size(fv, a)) - Size(ev, a)
           /\ Count(fv) = (Count(ev) + Size(fv, a)) - Size(ev, a)
<1> DEFINE N == Len(Base)
           M == N + 1
           more == Size(fv, a) - Size(ev, a)
<1>1. N \in Nat /\ Regions(Base) = 1 .. M /\ M \in Nat \ {0} /\ M = N + 1 BY BaseFacts DEF Regions
<1>2. \A b \in Regions(Base) : b # a => /\ Size(fv, b) = Size(ev, b)
                                        /\ Region(Base, fv, b) = Region(Base, ev, b)
  <2> TAKE b \in Regions(Base)
  <2> HAVE b # a
  <2>1. At(fv, b) = At(ev, b) OBVIOUS
  <2>2. Alive(Base, fv, b) = Alive(Base, ev, b) BY <2>1 DEF Alive
  <2>3. OwnText(Base, fv, b) = OwnText(Base, ev, b) BY <2>1 DEF OwnText
  <2>4. Size(fv, b) = Size(ev, b) BY <2>1, <2>2 DEF Size, RegionLen
  <2>5. Region(Base, fv, b) = Region(Base, ev, b) BY <2>1, <2>2, <2>3 DEF Region
  <2> QED BY <2>4, <2>5
<1>3. \A c \in Regions(Base) : /\ From(ev, c) \in Nat /\ Size(ev, c) \in Nat
                               /\ From(fv, c) \in Nat /\ Size(fv, c) \in Nat
  BY FromFacts, SizeFacts
<1>4. /\ From(ev, 1) = 1 /\ From(fv, 1) = 1 /\ Count(ev) \in Nat /\ Count(fv) \in Nat
      /\ \A c \in 1 .. N : /\ From(ev, c + 1) = From(ev, c) + Size(ev, c)
                           /\ From(fv, c + 1) = From(fv, c) + Size(fv, c)
      /\ From(ev, M) + Size(ev, M) = Count(ev) + 1 /\ From(fv, M) + Size(fv, M) = Count(fv) + 1
  BY FromFacts
<1>5. more \in Int /\ Size(fv, a) \in Nat /\ Size(ev, a) \in Nat /\ a \in Nat BY <1>1, <1>3
<1> HIDE DEF N, M
<1>6. \A k \in 0 .. N : From(fv, k + 1) = From(ev, k + 1) + (IF k + 1 <= a THEN 0 ELSE more)
  <2> DEFINE P(k) == From(fv, k + 1) = From(ev, k + 1) + (IF k + 1 <= a THEN 0 ELSE more)
             Q == {k \in 0 .. N : P(k)}
  <2>1. 0 \in Q BY <1>1, <1>4
  <2>2. \A k \in 1 .. N : k - 1 \in Q => k \in Q
    <3> TAKE k \in 1 .. N
    <3> HAVE k - 1 \in Q
    <3>1. (k - 1) + 1 = k /\ k \in Regions(Base) /\ k + 1 \in Regions(Base) /\ k \in Nat BY <1>1
    <3>2. From(fv, k) = From(ev, k) + (IF k <= a THEN 0 ELSE more) BY <3>1
    <3>3. /\ From(ev, k + 1) = From(ev, k) + Size(ev, k)
          /\ From(fv, k + 1) = From(fv, k) + Size(fv, k)
          /\ From(ev, k) \in Nat /\ Size(ev, k) \in Nat
      BY <1>3, <1>4, <3>1
    <3>4. CASE k < a
      <4>1. Size(fv, k) = Size(ev, k) BY <1>2, <3>1, <3>4
      <4>0. k <= a BY <1>5, <3>1, <3>4
      <4>5. From(fv, k) = From(ev, k) BY <3>2, <3>3, <4>0
      <4>2. From(fv, k + 1) = From(ev, k + 1) BY <3>3, <4>1, <4>5
      <4>3. k + 1 <= a /\ From(ev, k + 1) \in Nat BY <1>3, <1>5, <3>1, <3>4
      <4>4. P(k) BY <4>2, <4>3
      <4> QED BY <4>4
    <3>5. CASE k = a
      <4>1. Size(fv, k) = Size(ev, k) + more BY <1>5, <3>5
      <4>2. ~(k + 1 <= a) /\ k <= a BY <1>5, <3>5
      <4>3. P(k)
        <5> HIDE DEF more
        <5> QED BY <1>5, <3>2, <3>3, <4>1, <4>2
      <4> QED BY <4>3
    <3>6. CASE k > a
      <4>1. Size(fv, k) = Size(ev, k) BY <1>2, <3>1, <3>6
      <4>2. ~(k + 1 <= a) /\ ~(k <= a) BY <1>5, <3>1, <3>6
      <4>3. P(k)
        <5> HIDE DEF more
        <5> QED BY <1>5, <3>2, <3>3, <4>1, <4>2
      <4> QED BY <4>3
    <3> QED BY <1>5, <3>1, <3>4, <3>5, <3>6
  <2>3. \A k \in 0 .. N : k \in Q
    <3> HIDE DEF Q
    <3> QED BY <1>1, <2>1, <2>2, Climb
  <2> QED BY <2>3
<1>7. \A b \in Regions(Base) : From(fv, b) = From(ev, b) + (IF b <= a THEN 0 ELSE more)
  <2> TAKE b \in Regions(Base)
  <2>1. b - 1 \in 0 .. N /\ (b - 1) + 1 = b BY <1>1
  <2>2. From(fv, (b - 1) + 1) = From(ev, (b - 1) + 1) + (IF (b - 1) + 1 <= a THEN 0 ELSE more)
    BY <1>6, <2>1
  <2> QED BY <2>1, <2>2
<1>8. \A b \in Regions(Base) : b <= a => From(fv, b) = From(ev, b) BY <1>3, <1>7
<1>9. \A b \in Regions(Base) : b > a => From(fv, b) = (From(ev, b) + Size(fv, a)) - Size(ev, a)
  <2> TAKE b \in Regions(Base)
  <2> HAVE b > a
  <2>1. ~(b <= a) BY <1>1, <1>5
  <2>2. From(fv, b) = From(ev, b) + more /\ From(ev, b) \in Nat BY <1>3, <1>7, <2>1
  <2> QED BY <1>5, <2>2
<1>10. Count(fv) = (Count(ev) + Size(fv, a)) - Size(ev, a)
  <2>1. M \in Regions(Base) BY <1>1
  <2>2. CASE a = M
    <3>1. From(fv, M) = From(ev, M) /\ From(ev, M) \in Nat BY <1>1, <1>3, <1>8, <2>1, <2>2
    <3> QED BY <1>4, <1>5, <2>2, <3>1
  <2>3. CASE a # M
    <3>1. M > a BY <1>1, <1>5, <2>3
    <3>2. From(fv, M) = (From(ev, M) + Size(fv, a)) - Size(ev, a) /\ From(ev, M) \in Nat
          /\ Size(fv, M) = Size(ev, M) /\ Size(ev, M) \in Nat
      BY <1>2, <1>3, <1>9, <2>1, <2>3, <3>1
    <3> QED BY <1>4, <1>5, <3>2
  <2> QED BY <2>2, <2>3
<1> QED BY <1>2, <1>8, <1>9, <1>10

LEMMA FromEnds ==
    ASSUME NEW ev, Tidy(ev), NEW a \in Regions(Base)
    PROVE  From(ev, a) + Size(ev, a) <= Count(ev) + 1
<1> DEFINE M == Len(Base) + 1
<1>1. M \in Regions(Base) /\ a <= M /\ a \in Nat /\ M \in Nat BY BaseFacts DEF Regions
<1>2. From(ev, M) + Size(ev, M) = Count(ev) + 1 BY FromFacts
<1>3. /\ From(ev, M) \in Nat /\ Size(ev, M) \in Nat /\ From(ev, a) \in Nat /\ Size(ev, a) \in Nat
      /\ Count(ev) \in Nat
  BY <1>1, FromFacts, SizeFacts
<1> HIDE DEF M
<1>4. CASE a = M BY <1>2, <1>3, <1>4
<1>5. CASE a # M
  <2>1. From(ev, a) + Size(ev, a) <= From(ev, M) BY <1>1, <1>5, FromGrows
  <2> QED BY <1>2, <1>3, <2>1
<1> QED BY <1>4, <1>5

\* A splice of a region is a splice of the view.
LEMMA LocalSwap ==
    ASSUME NEW ev, Tidy(ev), NEW fv, Tidy(fv), NEW a \in Regions(Base),
           \A b : b # a => At(fv, b) = At(ev, b),
           NEW p, NEW o, NEW parts, Swaps(Region(Base, ev, a), Region(Base, fv, a), p, o, parts)
    PROVE  Swaps(View(Base, ev), View(Base, fv), (From(ev, a) - 1) + p, o, parts)
<1> DEFINE x == View(Base, ev)
           y == View(Base, fv)
           A == From(ev, a)
           S == Size(ev, a)
           T == Size(fv, a)
           K == Len(parts)
           P == (A - 1) + p
           r(b) == Region(Base, ev, b)
           q == Region(Base, fv, a)
           C == Count(ev)
           D == Count(fv)
<1>1. /\ x \in Seq(Text) /\ y \in Seq(Text) /\ Len(x) = C /\ Len(y) = D
      /\ \A b \in Regions(Base) : \A i \in 1 .. Size(ev, b) : x[(From(ev, b) + i) - 1] = r(b)[i]
      /\ \A b \in Regions(Base) : \A i \in 1 .. Size(fv, b) :
            y[(From(fv, b) + i) - 1] = Region(Base, fv, b)[i]
  BY ViewFacts
<1>2. /\ \A b \in Regions(Base) : b # a => Size(fv, b) = Size(ev, b) /\ Region(Base, fv, b) = r(b)
      /\ \A b \in Regions(Base) : b <= a => From(fv, b) = From(ev, b)
      /\ \A b \in Regions(Base) : b > a => From(fv, b) = (From(ev, b) + T) - S
      /\ D = (C + T) - S
  BY SetMoves
<1>3. /\ \A b \in Regions(Base) : b \in Nat /\ From(ev, b) \in Nat \ {0} /\ Size(ev, b) \in Nat
      /\ C \in Nat /\ D \in Nat /\ A \in Nat \ {0} /\ S \in Nat /\ T \in Nat /\ a \in Nat
  BY BaseFacts, FromFacts, SizeFacts
<1>4. /\ \A b \in Regions(Base) : b > a => A + S <= From(ev, b)
      /\ \A b \in Regions(Base) : b < a => From(ev, b) + Size(ev, b) <= A
      /\ A + S <= C + 1
  BY FromGrows, FromEnds
<1>5. /\ r(a) \in Seq(Text) /\ Len(r(a)) = S /\ q \in Seq(Text) /\ Len(q) = T
  BY RegionFacts
<1>6. /\ parts \in Seq(Text) /\ p \in Nat /\ o \in Nat /\ p + o <= S /\ T = (S - o) + K
      /\ \A i \in 1 .. p : q[i] = r(a)[i]
      /\ \A i \in 1 .. K : q[p + i] = parts[i]
      /\ \A i \in 1 .. (S - (p + o)) : q[(p + K) + i] = r(a)[(p + o) + i]
  BY <1>5 DEF Swaps
<1>7. K \in Nat BY <1>6
<1>8. \A l \in 1 .. C : \E b \in Regions(Base) : \E j \in 1 .. Size(ev, b) : l = (From(ev, b) + j) - 1
  BY LocateFinds
<1>9. From(fv, a) = A /\ Region(Base, fv, a) = q BY <1>2, <1>3
<1> HIDE DEF x, y, A, S, T, K, P, r, q, C, D
<1>10. P \in Nat /\ P + o <= C /\ D = (C - o) + K BY <1>2, <1>3, <1>4, <1>6, <1>7 DEF P
<1>11. \A i \in 1 .. P : y[i] = x[i]
  <2> TAKE i \in 1 .. P
  <2>1. i \in 1 .. C BY <1>3, <1>6, <1>10, SMTT(30)
  <2>2. PICK b \in Regions(Base) : \E j \in 1 .. Size(ev, b) : i = (From(ev, b) + j) - 1
    BY <1>8, <2>1
  <2>3. PICK j \in 1 .. Size(ev, b) : i = (From(ev, b) + j) - 1 BY <2>2
  <2>4. b \in Nat /\ From(ev, b) \in Nat \ {0} /\ Size(ev, b) \in Nat /\ j \in Nat BY <1>3
  <2>5. CASE b = a
    <3>1. From(ev, b) = A /\ Size(ev, b) = S BY <2>5 DEF A, S
    <3>2. j \in 1 .. p /\ j \in 1 .. T BY <1>3, <1>6, <1>7, <1>10, <2>3, <2>4, <3>1 DEF P
    <3>3. y[(A + j) - 1] = q[j] BY <1>1, <1>9, <3>2 DEF T
    <3>4. x[(A + j) - 1] = r(a)[j] BY <1>1, <2>3, <2>5 DEF A
    <3> QED BY <1>6, <2>3, <3>1, <3>2, <3>3, <3>4
  <2>6. CASE b < a
    <3>1. From(fv, b) = From(ev, b) /\ Size(fv, b) = Size(ev, b) /\ Region(Base, fv, b) = r(b)
      BY <1>2, <1>3, <2>4, <2>6
    <3>2. y[(From(fv, b) + j) - 1] = Region(Base, fv, b)[j] BY <1>1, <2>3, <3>1
    <3>3. x[(From(ev, b) + j) - 1] = r(b)[j] BY <1>1, <2>3
    <3> QED BY <2>3, <3>1, <3>2, <3>3
  <2>7. CASE b > a
    <3>1. A + S <= From(ev, b) BY <1>4, <2>7
    <3> QED BY <1>3, <1>6, <2>3, <2>4, <3>1, SMTT(30) DEF P
  <2> QED BY <1>3, <2>4, <2>5, <2>6, <2>7
<1>12. \A i \in 1 .. K : y[P + i] = parts[i]
  <2> TAKE i \in 1 .. K
  <2>0. i \in Nat /\ i >= 1 /\ i <= K /\ P = (A - 1) + p BY <1>7 DEF P
  <2>1. p + i \in 1 .. T /\ (A + (p + i)) - 1 = P + i
    <3>1. p + i <= T /\ p + i \in Nat /\ p + i >= 1 BY <1>3, <1>6, <1>7, <2>0
    <3>2. (A + (p + i)) - 1 = P + i BY <1>3, <1>6, <2>0
    <3> QED BY <1>3, <3>1, <3>2
  <2>2. y[(From(fv, a) + (p + i)) - 1] = q[p + i] BY <1>1, <1>9, <2>1 DEF T
  <2> QED BY <1>6, <1>9, <2>1, <2>2
<1>13. \A i \in 1 .. (C - (P + o)) : y[(P + K) + i] = x[(P + o) + i]
  <2> TAKE i \in 1 .. (C - (P + o))
  <2> DEFINE l == (P + o) + i
  <2>1. l \in 1 .. C /\ i \in Nat /\ l \in Nat /\ (P + K) + i = (l - o) + K /\ i >= 1
    BY <1>3, <1>6, <1>7, <1>10
  <2>2. PICK b \in Regions(Base) : \E j \in 1 .. Size(ev, b) : l = (From(ev, b) + j) - 1
    BY <1>8, <2>1
  <2>3. PICK j \in 1 .. Size(ev, b) : l = (From(ev, b) + j) - 1 BY <2>2
  <2>4. b \in Nat /\ From(ev, b) \in Nat \ {0} /\ Size(ev, b) \in Nat /\ j \in Nat BY <1>3
  <2>0. l = (P + o) + i OBVIOUS
  <2> HIDE DEF l
  <2>5. CASE b = a
    <3>1. From(ev, b) = A /\ Size(ev, b) = S BY <2>5 DEF A, S
    <3>2. j = (p + o) + i BY <1>3, <1>6, <2>0, <2>1, <2>3, <2>4, <3>1, SMTT(30) DEF P
    <3>3. i \in 1 .. (S - (p + o)) /\ (p + K) + i \in 1 .. T /\ (A + ((p + K) + i)) - 1 = (P + K) + i
      BY <1>3, <1>6, <1>7, <2>1, <2>4, <3>1, <3>2 DEF P
    <3>4. y[(A + ((p + K) + i)) - 1] = q[(p + K) + i] BY <1>1, <1>9, <3>3 DEF T
    <3>5. x[(A + j) - 1] = r(a)[j] BY <1>1, <2>3, <2>5 DEF A
    <3> QED BY <1>6, <2>0, <2>3, <3>1, <3>2, <3>3, <3>4, <3>5
  <2>6. CASE b < a
    <3>1. From(ev, b) + Size(ev, b) <= A BY <1>4, <2>6
    <3>2. l <= A - 1 BY <1>3, <2>1, <2>3, <2>4, <3>1
    <3>3. l >= A BY <1>3, <1>6, <1>10, <2>0, <2>1 DEF P
    <3> QED BY <1>3, <2>1, <3>2, <3>3
  <2>7. CASE b > a
    <3>1. From(fv, b) = (From(ev, b) + T) - S /\ Size(fv, b) = Size(ev, b) /\ Region(Base, fv, b) = r(b)
      BY <1>2, <1>3, <2>4, <2>7
    <3>2. (From(fv, b) + j) - 1 = (P + K) + i
      <4>1. (From(fv, b) + j) - 1 = (l + T) - S BY <1>3, <2>1, <2>3, <2>4, <3>1
      <4>2. (l + T) - S = (l - o) + K BY <1>3, <1>6, <1>7, <2>1
      <4> QED BY <2>1, <4>1, <4>2
    <3>3. y[(From(fv, b) + j) - 1] = Region(Base, fv, b)[j] BY <1>1, <2>3, <3>1
    <3>4. x[(From(ev, b) + j) - 1] = r(b)[j] BY <1>1, <2>3
    <3> QED BY <2>0, <2>3, <3>1, <3>2, <3>3, <3>4
  <2> QED BY <1>3, <2>4, <2>5, <2>6, <2>7
<1>14. Swaps(x, y, P, o, parts)
  BY <1>1, <1>6, <1>10, <1>11, <1>12, <1>13 DEF Swaps, K
<1> QED BY <1>14 DEF x, y, P, A

LEMMA SwapsIs ==
    ASSUME NEW x, NEW y, NEW parts, NEW l0 \in Nat \ {0}, NEW l1 \in Nat, NEW p, NEW o,
           p = l0 - 1, o = (l1 + 1) - l0, Swaps(x, y, p, o, parts)
    PROVE  y = Spliced(x, l0, l1, parts)
<1> DEFINE A == SubSeq(x, 1, l0 - 1)
           B == SubSeq(x, l1 + 1, Len(x))
           E == A \o parts
           F == E \o B
           K == Len(parts)
<1>1. /\ x \in Seq(Text) /\ y \in Seq(Text) /\ parts \in Seq(Text)
      /\ p \in Nat /\ o \in Nat /\ p + o <= Len(x) /\ Len(y) = (Len(x) - o) + K
      /\ \A i \in 1 .. p : y[i] = x[i]
      /\ \A i \in 1 .. K : y[p + i] = parts[i]
      /\ \A i \in 1 .. (Len(x) - (p + o)) : y[(p + K) + i] = x[(p + o) + i]
  BY DEF Swaps
<1>2. p + o = l1 /\ K \in Nat /\ Len(x) \in Nat /\ p = l0 - 1
  <2>1. K \in Nat /\ Len(x) \in Nat BY <1>1
  <2>2. p + o = l1 /\ p = l0 - 1 OBVIOUS
  <2> QED BY <2>1, <2>2
<1>3. A \in Seq(Text) /\ Len(A) = p /\ \A i \in 1 .. p : A[i] = x[i] BY <1>1, <1>2
<1>4. B \in Seq(Text) /\ Len(B) = Len(x) - l1 /\ \A i \in 1 .. (Len(x) - l1) : B[i] = x[l1 + i]
  <2>1. x \in Seq(Text) /\ Len(x) \in Nat /\ l1 <= Len(x) BY <1>1, <1>2
  <2>2. B \in Seq(Text) /\ Len(B) = Len(x) - l1 BY <2>1
  <2>3. \A i \in 1 .. (Len(x) - l1) : B[i] = x[l1 + i] BY <2>1
  <2> QED BY <2>2, <2>3
<1> HIDE DEF A, B
<1>5. /\ E \in Seq(Text) /\ Len(E) = p + K /\ \A i \in 1 .. p : E[i] = A[i]
      /\ \A i \in 1 .. K : E[p + i] = parts[i]
  <2>1. E \in Seq(Text) /\ Len(E) = p + K
    <3>0. A \in Seq(Text) /\ parts \in Seq(Text) BY <1>1, <1>3
    <3>1. E \in Seq(Text) /\ Len(E) = Len(A) + Len(parts) BY <3>0
    <3> QED BY <1>3, <3>1
  <2>2. \A i \in 1 .. p : E[i] = A[i] BY <1>1, <1>2, <1>3
  <2>3. \A i \in 1 .. K : E[p + i] = parts[i]
    <3> TAKE i \in 1 .. K
    <3>1. p + i \in 1 .. (Len(A) + Len(parts)) /\ p + i > Len(A) /\ (p + i) - Len(A) = i
      BY <1>1, <1>2, <1>3
    <3> QED BY <1>1, <1>3, <3>1, SMTT(30)
  <2> QED BY <2>1, <2>2, <2>3
<1> HIDE DEF E, K
<1>6. /\ F \in Seq(Text) /\ Len(F) = (p + K) + Len(B) /\ \A i \in 1 .. (p + K) : F[i] = E[i]
      /\ \A i \in 1 .. Len(B) : F[(p + K) + i] = B[i]
  <2>1. F \in Seq(Text) /\ Len(F) = (p + K) + Len(B)
    <3>0. E \in Seq(Text) /\ B \in Seq(Text) BY <1>4, <1>5
    <3>1. F \in Seq(Text) /\ Len(F) = Len(E) + Len(B) BY <3>0
    <3> QED BY <1>5, <3>1
  <2>2. \A i \in 1 .. (p + K) : F[i] = E[i]
    <3> TAKE i \in 1 .. (p + K)
    <3>1. i \in 1 .. Len(E) BY <1>5
    <3> QED BY <1>4, <1>5, <3>1
  <2>3. \A i \in 1 .. Len(B) : F[(p + K) + i] = B[i]
    <3> TAKE i \in 1 .. Len(B)
    <3>1. /\ (p + K) + i \in 1 .. (Len(E) + Len(B)) /\ (p + K) + i > Len(E)
          /\ ((p + K) + i) - Len(E) = i
      BY <1>1, <1>2, <1>4, <1>5
    <3> QED BY <1>4, <1>5, <3>1, SMTT(30)
  <2> QED BY <2>1, <2>2, <2>3
<1> HIDE DEF F
<1>7. Len(F) = Len(y) BY <1>1, <1>2, <1>4, <1>6, SMTT(30)
<1>8. ASSUME NEW j \in 1 .. Len(y) PROVE y[j] = F[j]
  <2>1. CASE j <= p
    <3>1. j \in 1 .. p /\ j \in 1 .. (p + K) BY <1>1, <1>2, <2>1
    <3> QED BY <1>1, <1>3, <1>5, <1>6, <3>1, SMTT(30)
  <2>2. CASE j > p /\ j <= p + K
    <3>1. j - p \in 1 .. K /\ p + (j - p) = j /\ j \in 1 .. (p + K) BY <1>1, <1>2, <2>2
    <3>2. y[p + (j - p)] = parts[j - p] /\ E[p + (j - p)] = parts[j - p] BY <1>1, <1>5, <3>1
    <3> QED BY <1>6, <3>1, <3>2
  <2>3. CASE j > p + K
    <3> DEFINE i == j - (p + K)
    <3>1. /\ i \in 1 .. (Len(x) - (p + o)) /\ i \in 1 .. Len(B) /\ (p + K) + i = j
          /\ i \in 1 .. (Len(x) - l1)
      BY <1>1, <1>2, <1>4, <2>3
    <3> HIDE DEF i
    <3>2. y[(p + K) + i] = x[(p + o) + i] /\ F[(p + K) + i] = B[i] /\ B[i] = x[l1 + i]
      BY <1>1, <1>4, <1>6, <3>1
    <3> QED BY <1>2, <3>1, <3>2
  <2> QED BY <1>1, <1>2, <2>1, <2>2, <2>3
<1>9. y = F
  <2>1. y = [j \in 1 .. Len(y) |-> y[j]] /\ F = [j \in 1 .. Len(F) |-> F[j]] BY <1>1, <1>6
  <2> QED BY <1>7, <1>8, <2>1
<1> QED BY <1>9 DEF Spliced, F, E, A, B

LEMMA SwapsNothing ==
    ASSUME NEW x \in Seq(Text), NEW p \in 0 .. (Len(x) - 1)
    PROVE  Swaps(x, x, p, 1, <<x[p + 1]>>)
<1> DEFINE t == x[p + 1]
           s == <<t>>
<1>1. Len(x) \in Nat /\ p \in Nat /\ p + 1 \in 1 .. Len(x) OBVIOUS
<1>2. t \in Text BY <1>1
<1>3. s \in Seq(Text) /\ Len(s) = 1 /\ s[1] = t BY <1>2
<1> HIDE DEF s
<1>4. p + 1 <= Len(x) /\ Len(x) = (Len(x) - 1) + Len(s) /\ 1 \in Nat BY <1>1, <1>3
<1>5. \A i \in 1 .. Len(s) : x[p + i] = s[i] BY <1>3
<1>6. \A i \in 1 .. (Len(x) - (p + 1)) : x[(p + Len(s)) + i] = x[(p + 1) + i] BY <1>3
<1> QED BY <1>1, <1>3, <1>4, <1>5, <1>6 DEF Swaps, s

\* What follows both, and what comes before both, changes nothing.
LEMMA SwapsBefore ==
    ASSUME NEW x, NEW y, NEW p, NEW o, NEW s, Swaps(x, y, p, o, s), NEW z \in Seq(Text)
    PROVE  Swaps(x \o z, y \o z, p, o, s)
<1> DEFINE u == x \o z
           v == y \o z
           K == Len(s)
           X == Len(x)
           Y == Len(y)
           Z == Len(z)
<1>1. /\ x \in Seq(Text) /\ y \in Seq(Text) /\ s \in Seq(Text)
      /\ p \in Nat /\ o \in Nat /\ p + o <= X /\ Y = (X - o) + K
      /\ \A i \in 1 .. p : y[i] = x[i]
      /\ \A i \in 1 .. K : y[p + i] = s[i]
      /\ \A i \in 1 .. (X - (p + o)) : y[(p + K) + i] = x[(p + o) + i]
  BY DEF Swaps
<1>0. x \in Seq(Text) /\ y \in Seq(Text) BY <1>1
<1>2. X \in Nat /\ Y \in Nat /\ Z \in Nat /\ K \in Nat BY <1>1
<1>3. u \in Seq(Text) /\ Len(u) = X + Z /\ v \in Seq(Text) /\ Len(v) = Y + Z BY <1>0
<1>4. /\ \A i \in 1 .. X : u[i] = x[i]
      /\ \A i \in 1 .. Y : v[i] = y[i]
  BY <1>0
<1>5. \A i \in 1 .. Z : u[X + i] = z[i] /\ v[Y + i] = z[i]
  <2> TAKE i \in 1 .. Z
  <2>1. X + i \in 1 .. (X + Z) /\ X + i > X /\ (X + i) - X = i
        /\ Y + i \in 1 .. (Y + Z) /\ Y + i > Y /\ (Y + i) - Y = i
    <3> HIDE DEF X, Y, Z
    <3> QED BY <1>2
  <2> QED BY <1>0, <2>1
<1> HIDE DEF u, v, K, X, Y, Z
<1>6. \A i \in 1 .. p : v[i] = u[i]
  <2> TAKE i \in 1 .. p
  <2>1. i \in 1 .. X /\ i \in 1 .. Y BY <1>1, <1>2
  <2> QED BY <1>1, <1>4, <2>1
<1>7. \A i \in 1 .. K : v[p + i] = s[i]
  <2> TAKE i \in 1 .. K
  <2>1. p + i \in 1 .. Y BY <1>1, <1>2
  <2> QED BY <1>1, <1>4, <2>1
<1>8. \A i \in 1 .. ((X + Z) - (p + o)) : v[(p + K) + i] = u[(p + o) + i]
  <2> TAKE i \in 1 .. ((X + Z) - (p + o))
  <2>1. CASE (p + o) + i <= X
    <3>1. (p + o) + i \in 1 .. X /\ (p + K) + i \in 1 .. Y /\ i \in 1 .. (X - (p + o))
      BY <1>1, <1>2, <2>1
    <3> QED BY <1>1, <1>4, <3>1
  <2>2. CASE (p + o) + i > X
    <3> DEFINE j == ((p + o) + i) - X
    <3>1. j \in 1 .. Z /\ X + j = (p + o) + i /\ Y + j = (p + K) + i BY <1>1, <1>2, <2>2
    <3> QED BY <1>5, <3>1
  <2> QED BY <1>1, <1>2, <2>1, <2>2
<1>9. p + o <= Len(u) /\ Len(v) = (Len(u) - o) + K
  <2>1. p \in Nat /\ o \in Nat /\ p + o <= X /\ Y = (X - o) + K BY <1>1
  <2>2. Len(u) = X + Z /\ Len(v) = Y + Z BY <1>3
  <2>3. p + o <= X + Z /\ Y + Z = ((X + Z) - o) + K BY <1>2, <2>1
  <2> QED BY <2>2, <2>3
<1>10. Swaps(u, v, p, o, s) BY <1>1, <1>3, <1>6, <1>7, <1>8, <1>9 DEF Swaps, K
<1> QED BY <1>10 DEF u, v

LEMMA SwapsAfter ==
    ASSUME NEW x, NEW y, NEW p, NEW o, NEW s, Swaps(x, y, p, o, s), NEW z \in Seq(Text)
    PROVE  Swaps(z \o x, z \o y, Len(z) + p, o, s)
<1> DEFINE u == z \o x
           v == z \o y
           K == Len(s)
           X == Len(x)
           Y == Len(y)
           Z == Len(z)
<1>1. /\ x \in Seq(Text) /\ y \in Seq(Text) /\ s \in Seq(Text)
      /\ p \in Nat /\ o \in Nat /\ p + o <= X /\ Y = (X - o) + K
      /\ \A i \in 1 .. p : y[i] = x[i]
      /\ \A i \in 1 .. K : y[p + i] = s[i]
      /\ \A i \in 1 .. (X - (p + o)) : y[(p + K) + i] = x[(p + o) + i]
  BY DEF Swaps
<1>0. x \in Seq(Text) /\ y \in Seq(Text) BY <1>1
<1>2. X \in Nat /\ Y \in Nat /\ Z \in Nat /\ K \in Nat BY <1>1
<1>3. u \in Seq(Text) /\ Len(u) = Z + X /\ v \in Seq(Text) /\ Len(v) = Z + Y BY <1>0
<1>4. \A i \in 1 .. Z : u[i] = z[i] /\ v[i] = z[i] BY <1>0
<1>5. /\ \A i \in 1 .. X : u[Z + i] = x[i]
      /\ \A i \in 1 .. Y : v[Z + i] = y[i]
  <2>1. ASSUME NEW i \in 1 .. X PROVE u[Z + i] = x[i]
    <3>1. Z + i \in 1 .. (Z + X) /\ Z + i > Z /\ (Z + i) - Z = i
      <4> HIDE DEF X, Y, Z
      <4> QED BY <1>2
    <3> QED BY <1>0, <3>1
  <2>2. ASSUME NEW i \in 1 .. Y PROVE v[Z + i] = y[i]
    <3>1. Z + i \in 1 .. (Z + Y) /\ Z + i > Z /\ (Z + i) - Z = i
      <4> HIDE DEF X, Y, Z
      <4> QED BY <1>2
    <3> QED BY <1>0, <3>1
  <2> QED BY <2>1, <2>2
<1> HIDE DEF u, v, K, X, Y, Z
<1> DEFINE P == Z + p
<1>11. /\ p \in Nat /\ o \in Nat /\ p + o <= X /\ Y = (X - o) + K
       /\ X \in Nat /\ Y \in Nat /\ Z \in Nat /\ K \in Nat
  BY <1>1, <1>2
<1>6. \A i \in 1 .. P : v[i] = u[i]
  <2> TAKE i \in 1 .. P
  <2>1. CASE i <= Z
    <3>1. i \in 1 .. Z BY <1>1, <1>2, <2>1
    <3> QED BY <1>4, <3>1
  <2>2. CASE i > Z
    <3>1. i - Z \in 1 .. p /\ i - Z \in 1 .. X /\ i - Z \in 1 .. Y /\ Z + (i - Z) = i
      BY <1>1, <1>2, <2>2
    <3>2. u[Z + (i - Z)] = x[i - Z] /\ v[Z + (i - Z)] = y[i - Z] /\ y[i - Z] = x[i - Z]
      BY <1>1, <1>5, <3>1
    <3> QED BY <3>1, <3>2
  <2> QED BY <1>1, <1>2, <2>1, <2>2
<1>7. \A i \in 1 .. K : v[P + i] = s[i]
  <2> TAKE i \in 1 .. K
  <2>1. p + i \in 1 .. Y /\ Z + (p + i) = P + i BY <1>1, <1>2
  <2>2. v[Z + (p + i)] = y[p + i] BY <1>5, <2>1
  <2> QED BY <1>1, <2>1, <2>2
<1>8. \A i \in 1 .. ((Z + X) - (P + o)) : v[(P + K) + i] = u[(P + o) + i]
  <2> TAKE i \in 1 .. ((Z + X) - (P + o))
  <2>1. /\ (p + o) + i \in 1 .. X /\ (p + K) + i \in 1 .. Y /\ i \in 1 .. (X - (p + o))
        /\ Z + ((p + o) + i) = (P + o) + i /\ Z + ((p + K) + i) = (P + K) + i
    BY <1>11
  <2>2. u[Z + ((p + o) + i)] = x[(p + o) + i] /\ v[Z + ((p + K) + i)] = y[(p + K) + i]
    BY <1>5, <2>1
  <2> QED BY <1>1, <2>1, <2>2
<1>9. P \in Nat /\ P + o <= Len(u) /\ Len(v) = (Len(u) - o) + K BY <1>3, <1>11
<1> HIDE DEF P
<1>10. Swaps(u, v, P, o, s) BY <1>1, <1>3, <1>6, <1>7, <1>8, <1>9 DEF Swaps, K
<1> QED BY <1>10 DEF u, v, P, Z

\* One splice after another, where the first ended.
LEMMA SwapsThen ==
    ASSUME NEW x, NEW y, NEW z, NEW p, NEW o, NEW s, NEW n, NEW t,
           Swaps(x, y, p, o, s), Swaps(y, z, p + Len(s), n, t)
    PROVE  Swaps(x, z, p, o + n, s \o t)
<1> DEFINE K == Len(s)
           J == Len(t)
           X == Len(x)
           Y == Len(y)
           r == s \o t
<1>1. /\ x \in Seq(Text) /\ y \in Seq(Text) /\ s \in Seq(Text)
      /\ p \in Nat /\ o \in Nat /\ p + o <= X /\ Y = (X - o) + K
      /\ \A i \in 1 .. p : y[i] = x[i]
      /\ \A i \in 1 .. K : y[p + i] = s[i]
      /\ \A i \in 1 .. (X - (p + o)) : y[(p + K) + i] = x[(p + o) + i]
  BY DEF Swaps
<1>2. /\ z \in Seq(Text) /\ t \in Seq(Text)
      /\ n \in Nat /\ (p + K) + n <= Y /\ Len(z) = (Y - n) + J
      /\ \A i \in 1 .. (p + K) : z[i] = y[i]
      /\ \A i \in 1 .. J : z[(p + K) + i] = t[i]
      /\ \A i \in 1 .. (Y - ((p + K) + n)) : z[((p + K) + J) + i] = y[((p + K) + n) + i]
  BY DEF Swaps
<1>0. s \in Seq(Text) /\ t \in Seq(Text) BY <1>1, <1>2
<1>3. X \in Nat /\ Y \in Nat /\ K \in Nat /\ J \in Nat BY <1>1, <1>2
<1>4. r \in Seq(Text) /\ Len(r) = K + J /\ \A i \in 1 .. K : r[i] = s[i] BY <1>0
<1>5. \A i \in 1 .. J : r[K + i] = t[i]
  <2> TAKE i \in 1 .. J
  <2>1. K + i \in 1 .. (K + J) /\ K + i > K /\ (K + i) - K = i
    <3> HIDE DEF K, J
    <3> QED BY <1>3
  <2> QED BY <1>0, <2>1
<1> HIDE DEF K, J, X, Y, r
<1>11. /\ p \in Nat /\ o \in Nat /\ p + o <= X /\ Y = (X - o) + K
       /\ n \in Nat /\ (p + K) + n <= Y /\ Len(z) = (Y - n) + J /\ Len(r) = K + J
       /\ X \in Nat /\ Y \in Nat /\ K \in Nat /\ J \in Nat
  BY <1>1, <1>2, <1>3, <1>4
<1>6. \A i \in 1 .. p : z[i] = x[i]
  <2> TAKE i \in 1 .. p
  <2>1. i \in 1 .. (p + K) BY <1>1, <1>3
  <2> QED BY <1>1, <1>2, <2>1
<1>7. \A i \in 1 .. Len(r) : z[p + i] = r[i]
  <2> TAKE i \in 1 .. Len(r)
  <2>1. CASE i <= K
    <3>1. i \in 1 .. K /\ p + i \in 1 .. (p + K) BY <1>1, <1>3, <1>4, <2>1, SMTT(30)
    <3> QED BY <1>1, <1>2, <1>4, <3>1
  <2>2. CASE i > K
    <3>1. i - K \in 1 .. J /\ K + (i - K) = i /\ (p + K) + (i - K) = p + i BY <1>1, <1>3, <1>4, <2>2
    <3>2. r[K + (i - K)] = t[i - K] /\ z[(p + K) + (i - K)] = t[i - K] BY <1>2, <1>5, <3>1
    <3> QED BY <3>1, <3>2
  <2> QED BY <1>3, <1>4, <2>1, <2>2
<1>8. \A i \in 1 .. (X - (p + (o + n))) : z[(p + Len(r)) + i] = x[(p + (o + n)) + i]
  <2> TAKE i \in 1 .. (X - (p + (o + n)))
  <2>1. /\ i \in 1 .. (Y - ((p + K) + n)) /\ n + i \in 1 .. (X - (p + o))
        /\ ((p + K) + J) + i = (p + Len(r)) + i /\ ((p + K) + n) + i = (p + K) + (n + i)
        /\ (p + o) + (n + i) = (p + (o + n)) + i
    BY <1>11
  <2>2. z[((p + K) + J) + i] = y[((p + K) + n) + i] /\ y[(p + K) + (n + i)] = x[(p + o) + (n + i)]
    BY <1>1, <1>2, <2>1
  <2> QED BY <2>1, <2>2
<1>9. o + n \in Nat /\ p + (o + n) <= X /\ Len(z) = (X - (o + n)) + Len(r) BY <1>11
<1>10. Swaps(x, z, p, o + n, r)
  BY <1>1, <1>2, <1>4, <1>6, <1>7, <1>8, <1>9 DEF Swaps, X
<1> QED BY <1>10 DEF r

\* Lines taken out from the last one up.
LEMMA SwapsUp ==
    ASSUME NEW x, NEW y, NEW z, NEW p, NEW o,
           Swaps(x, y, p + 1, o, <<>>), p \in Nat, Swaps(y, z, p, 1, <<>>)
    PROVE  Swaps(x, z, p, o + 1, <<>>)
<1> DEFINE X == Len(x)
           Y == Len(y)
           r == <<>>
           K == Len(r)
<1>0. r \in Seq(Text) /\ K = 0 OBVIOUS
<1> HIDE DEF r
<1>1. /\ x \in Seq(Text) /\ y \in Seq(Text) /\ o \in Nat
      /\ (p + 1) + o <= X /\ Y = (X - o) + K
      /\ \A i \in 1 .. (p + 1) : y[i] = x[i]
      /\ \A i \in 1 .. (X - ((p + 1) + o)) : y[((p + 1) + K) + i] = x[((p + 1) + o) + i]
  BY DEF Swaps, r
<1>2. /\ z \in Seq(Text) /\ p + 1 <= Y /\ Len(z) = (Y - 1) + K
      /\ \A i \in 1 .. p : z[i] = y[i]
      /\ \A i \in 1 .. (Y - (p + 1)) : z[(p + K) + i] = y[(p + 1) + i]
  BY DEF Swaps, r
<1>3. X \in Nat /\ Y \in Nat BY <1>1
<1> HIDE DEF X, Y, K
<1>4. \A i \in 1 .. p : z[i] = x[i]
  <2> TAKE i \in 1 .. p
  <2>1. i \in 1 .. (p + 1) OBVIOUS
  <2> QED BY <1>1, <1>2, <2>1
<1>5. \A i \in 1 .. (X - (p + (o + 1))) : z[(p + K) + i] = x[(p + (o + 1)) + i]
  <2> TAKE i \in 1 .. (X - (p + (o + 1)))
  <2>1. /\ i \in 1 .. (X - ((p + 1) + o)) /\ i \in 1 .. (Y - (p + 1))
        /\ ((p + 1) + K) + i = (p + 1) + i /\ ((p + 1) + o) + i = (p + (o + 1)) + i
    BY <1>0, <1>1, <1>3
  <2>2. z[(p + K) + i] = y[(p + 1) + i] /\ y[((p + 1) + K) + i] = x[((p + 1) + o) + i]
    BY <1>1, <1>2, <2>1
  <2> QED BY <2>1, <2>2
<1>6. o + 1 \in Nat /\ p + (o + 1) <= X /\ Len(z) = (X - (o + 1)) + K BY <1>0, <1>1, <1>2, <1>3
<1>7. \A i \in 1 .. K : z[p + i] = r[i] BY <1>0
<1>8. Swaps(x, z, p, o + 1, r)
  BY <1>0, <1>1, <1>2, <1>4, <1>5, <1>6, <1>7 DEF Swaps, X, K
<1> QED BY <1>8 DEF r

-----------------------------------------------------------------------------
(* Work in progress: its record takes it back, and each edit of a line      *)
(* splices the view.                                                       *)

\* w has been made of ev0, and its record leads back there.
Grown(w, ev0) == w = [ev |-> w.ev, rec |-> w.rec] /\ Leads(w.rec, w.ev, ev0)

\* u is grown from ev0 too, and its view is that of w, spliced.
Grows(w, u, ev0, p, o, parts) ==
    Grown(u, ev0) /\ Swaps(View(Base, w.ev), View(Base, u.ev), p, o, parts)

\* What anchor a shows with the event e.
Shows(a, e) ==
    e.inserts \o (IF a <= Len(Base) /\ ~e.deleted
                  THEN <<IF e.replacement = None THEN Base[a] ELSE e.replacement>>
                  ELSE <<>>)

LEMMA RegionShows == \A ev, a : Region(Base, ev, a) = Shows(a, At(ev, a))
BY DEF Region, Shows, Alive, OwnText

LEMMA WorkGrown == \A ev : Tidy(ev) => Grown(Work(ev), ev)
BY LeadsNowhere DEF Grown, Work

LEMMA GrownTidy == \A w, ev0 : Grown(w, ev0) => Tidy(w.ev) /\ Tidy(ev0)
BY LeadsEnds DEF Grown

LEMMA DidGrows ==
    ASSUME NEW w, NEW ev0, Grown(w, ev0), NEW a \in Regions(Base), NEW f \in EventsAt(a),
           NEW op \in Ops, op.anchor = a, Reaches(f, op), Makes(f, op) = At(w.ev, a),
           NEW p, NEW o, NEW parts, Swaps(Shows(a, At(w.ev, a)), Shows(a, f), p, o, parts)
    PROVE  Grows(w, Did(w, a, f, op), ev0, (From(w.ev, a) - 1) + p, o, parts)
<1> DEFINE ev == w.ev
           fv == Set(ev, a, f)
           u == Did(w, a, f, op)
<1>1. Leads(w.rec, ev, ev0) /\ Tidy(ev) BY GrownTidy DEF Grown
<1>2. u = [ev |-> fv, rec |-> Append(w.rec, op)] BY DEF Did, Set
<1>3. At(ev, a) \in EventsAt(a) BY <1>1, AtFacts
<1>4. Set(fv, a, At(ev, a)) = ev BY <1>1, SetBack
<1>5. Tidy(fv) /\ At(fv, a) = f /\ \A b : b # a => At(fv, b) = At(ev, b) BY <1>1, SetFacts
<1> HIDE DEF ev, fv, u
<1>6. Makes(f, op) = At(ev, a) BY DEF ev
<1>7. Step(fv, op, ev) BY <1>3, <1>4, <1>5, <1>6 DEF Step
<1>8. Leads(Append(w.rec, op), fv, ev0) BY <1>1, <1>7, LeadsOn
<1>9. u.ev = fv /\ u.rec = Append(w.rec, op) BY <1>2
<1>10. Grown(u, ev0) BY <1>2, <1>8, <1>9 DEF Grown
<1>11. Region(Base, ev, a) = Shows(a, At(ev, a)) /\ Region(Base, fv, a) = Shows(a, f)
  BY <1>5, RegionShows
<1>12. Swaps(Region(Base, ev, a), Region(Base, fv, a), p, o, parts) BY <1>11 DEF ev
<1>13. Swaps(View(Base, ev), View(Base, fv), (From(ev, a) - 1) + p, o, parts)
  BY <1>1, <1>5, <1>12, LocalSwap
<1> QED BY <1>9, <1>10, <1>13 DEF Grows, ev, u

\* One insertion more, one less, or another in its place.
LEMMA InsertSwaps ==
    ASSUME NEW s \in Seq(Text), NEW i \in 1 .. (Len(s) + 1), NEW t \in Text
    PROVE  Swaps(s, InsertAt(s, i, t), i - 1, 0, <<t>>)
<1> DEFINE r == InsertAt(s, i, t)
           q == <<t>>
<1>1. /\ r \in Seq(Text) /\ Len(r) = Len(s) + 1 /\ r[i] = t
      /\ \A j \in 1 .. (i - 1) : r[j] = s[j]
      /\ \A j \in i .. Len(s) : r[j + 1] = s[j]
  BY InsertedAt
<1>2. q \in Seq(Text) /\ Len(q) = 1 /\ q[1] = t OBVIOUS
<1> HIDE DEF r, q
<1> DEFINE p == i - 1
<1>3. p \in Nat /\ Len(s) \in Nat /\ p + 0 <= Len(s) /\ Len(r) = (Len(s) - 0) + Len(q) BY <1>1, <1>2
<1>4. \A j \in 1 .. Len(q) : r[p + j] = q[j]
  <2> TAKE j \in 1 .. Len(q)
  <2>1. j = 1 /\ p + j = i BY <1>2
  <2> QED BY <1>1, <1>2, <2>1
<1>5. \A j \in 1 .. (Len(s) - (p + 0)) : r[(p + Len(q)) + j] = s[(p + 0) + j]
  <2> TAKE j \in 1 .. (Len(s) - (p + 0))
  <2>1. (p + 0) + j \in i .. Len(s) /\ ((p + 0) + j) + 1 = (p + Len(q)) + j BY <1>2, <1>3
  <2>2. r[((p + 0) + j) + 1] = s[(p + 0) + j] BY <1>1, <2>1
  <2> QED BY <2>1, <2>2
<1>6. 0 \in Nat OBVIOUS
<1> HIDE DEF p
<1>7. \A j \in 1 .. p : r[j] = s[j] BY <1>1 DEF p
<1>8. Swaps(s, r, p, 0, q) BY <1>1, <1>2, <1>3, <1>4, <1>5, <1>6, <1>7 DEF Swaps
<1> QED BY <1>8 DEF r, p, q

LEMMA RemoveSwaps ==
    ASSUME NEW s \in Seq(Text), NEW i \in 1 .. Len(s)
    PROVE  Swaps(s, RemoveAt(s, i), i - 1, 1, <<>>)
<1> DEFINE r == RemoveAt(s, i)
           q == <<>>
<1>1. /\ r \in Seq(Text) /\ Len(r) = Len(s) - 1
      /\ \A j \in 1 .. (i - 1) : r[j] = s[j]
      /\ \A j \in i .. Len(r) : r[j] = s[j + 1]
  BY RemovedAt
<1>2. q \in Seq(Text) /\ Len(q) = 0 OBVIOUS
<1> HIDE DEF r, q
<1> DEFINE p == i - 1
<1>3. p \in Nat /\ Len(s) \in Nat /\ p + 1 <= Len(s) /\ Len(r) = (Len(s) - 1) + Len(q) BY <1>1, <1>2
<1>4. \A j \in 1 .. Len(q) : r[p + j] = q[j] BY <1>2
<1>5. \A j \in 1 .. (Len(s) - (p + 1)) : r[(p + Len(q)) + j] = s[(p + 1) + j]
  <2> TAKE j \in 1 .. (Len(s) - (p + 1))
  <2>1. p + j \in i .. Len(r) /\ (p + j) + 1 = (p + 1) + j /\ (p + Len(q)) + j = p + j
    BY <1>1, <1>2, <1>3
  <2>2. r[p + j] = s[(p + j) + 1] BY <1>1, <2>1
  <2> QED BY <2>1, <2>2
<1>6. 1 \in Nat OBVIOUS
<1> HIDE DEF p
<1>7. \A j \in 1 .. p : r[j] = s[j] BY <1>1 DEF p
<1>8. Swaps(s, r, p, 1, q) BY <1>1, <1>2, <1>3, <1>4, <1>5, <1>6, <1>7 DEF Swaps
<1> QED BY <1>8 DEF r, p, q

LEMMA SetSwaps ==
    ASSUME NEW s \in Seq(Text), NEW i \in 1 .. Len(s), NEW t \in Text
    PROVE  Swaps(s, [s EXCEPT ![i] = t], i - 1, 1, <<t>>)
<1> DEFINE r == [s EXCEPT ![i] = t]
           q == <<t>>
<1>1. /\ r \in Seq(Text) /\ Len(r) = Len(s) /\ r[i] = t
      /\ \A j \in 1 .. Len(s) : j # i => r[j] = s[j]
  OBVIOUS
<1>2. q \in Seq(Text) /\ Len(q) = 1 /\ q[1] = t OBVIOUS
<1> HIDE DEF r, q
<1> DEFINE p == i - 1
<1>3. p \in Nat /\ Len(s) \in Nat /\ p + 1 <= Len(s) /\ Len(r) = (Len(s) - 1) + Len(q) BY <1>1, <1>2
<1>4. \A j \in 1 .. Len(q) : r[p + j] = q[j]
  <2> TAKE j \in 1 .. Len(q)
  <2>1. j = 1 /\ p + j = i BY <1>2
  <2> QED BY <1>1, <1>2, <2>1
<1>5. \A j \in 1 .. (Len(s) - (p + 1)) : r[(p + Len(q)) + j] = s[(p + 1) + j]
  <2> TAKE j \in 1 .. (Len(s) - (p + 1))
  <2>1. (p + 1) + j \in 1 .. Len(s) /\ (p + 1) + j # i /\ (p + Len(q)) + j = (p + 1) + j
    BY <1>2, <1>3
  <2> QED BY <1>1, <2>1
<1>7. \A j \in 1 .. p : r[j] = s[j]
  <2> TAKE j \in 1 .. p
  <2>1. j \in 1 .. Len(s) /\ j # i BY <1>3
  <2> QED BY <1>1, <2>1
<1>6. 1 \in Nat OBVIOUS
<1> HIDE DEF p
<1>8. Swaps(s, r, p, 1, q) BY <1>1, <1>2, <1>3, <1>4, <1>5, <1>6, <1>7 DEF Swaps
<1> QED BY <1>8 DEF r, p, q

LEMMA OwnSwaps ==
    ASSUME NEW s \in Seq(Text), NEW x \in Text, NEW t \in Text
    PROVE  /\ Swaps(s \o <<x>>, s \o <<t>>, Len(s), 1, <<t>>)
           /\ Swaps(s \o <<x>>, s \o <<>>, Len(s), 1, <<>>)
<1> DEFINE q == <<x>>
<1>1. q \in Seq(Text) /\ Len(q) = 1 /\ 1 \in 1 .. Len(q) /\ 1 - 1 = 0 /\ Len(s) \in Nat OBVIOUS
<1>2. [q EXCEPT ![1] = t] = <<t>> OBVIOUS
<1>3. RemoveAt(q, 1) = <<>>
  <2> DEFINE r == RemoveAt(q, 1)
  <2> HIDE DEF q
  <2>1. r \in Seq(Text) /\ Len(r) = 0 BY <1>1, RemovedAt
  <2> HIDE DEF r
  <2>2. r = <<>> BY <2>1
  <2> QED BY <2>2 DEF r
<1> HIDE DEF q
<1>4. Swaps(q, <<t>>, 0, 1, <<t>>) BY <1>1, <1>2, SetSwaps, ZenonT(60)
<1>5. Swaps(q, <<>>, 0, 1, <<>>) BY <1>1, <1>3, RemoveSwaps
<1>6. Len(s) + 0 = Len(s) BY <1>1
<1>7. Swaps(s \o q, s \o <<t>>, Len(s) + 0, 1, <<t>>) BY <1>4, SwapsAfter
<1>8. Swaps(s \o q, s \o <<>>, Len(s) + 0, 1, <<>>) BY <1>5, SwapsAfter
<1> QED BY <1>6, <1>7, <1>8 DEF q

\* What may be said of anchor a, and of the line i of its region.
LEMMA EventIs ==
    ASSUME NEW a \in Regions(Base), NEW e \in EventsAt(a)
    PROVE  /\ e = [inserts |-> e.inserts, replacement |-> e.replacement, deleted |-> e.deleted]
           /\ e.inserts \in Seq(Text) /\ Len(e.inserts) \in Nat
           /\ e.replacement \in Text \cup {None} /\ e.deleted \in BOOLEAN
           /\ e.deleted => e.replacement = None
           /\ a > Len(Base) => e.replacement = None /\ e.deleted = FALSE
           /\ a <= Len(Base) /\ e.replacement = Base[a] => Base[a] \in Long
BY DEF EventsAt, Events, NoEvent

LEMMA OnlyInserts ==
    \A s : [NoEvent EXCEPT !.inserts = s]
               = [inserts |-> s, replacement |-> None, deleted |-> FALSE]
<1>1. /\ NoEvent = [inserts |-> NoEvent.inserts, replacement |-> NoEvent.replacement,
                     deleted |-> NoEvent.deleted]
      /\ NoEvent.replacement = None /\ NoEvent.deleted = FALSE
  BY DEF NoEvent
<1>2. \A e, s : e = [inserts |-> e.inserts, replacement |-> e.replacement, deleted |-> e.deleted]
          => [e EXCEPT !.inserts = s]
               = [inserts |-> s, replacement |-> e.replacement, deleted |-> e.deleted]
  OBVIOUS
<1> TAKE s
<1>3. [NoEvent EXCEPT !.inserts = s] = [inserts |-> s, replacement |-> NoEvent.replacement,
                                        deleted |-> NoEvent.deleted]
  BY <1>1, <1>2
<1> QED BY <1>1, <1>3

\* The same anchor with other insertions, or another line of its own.
LEMMA EventWith ==
    ASSUME NEW a \in Regions(Base), NEW e \in EventsAt(a)
    PROVE  /\ \A s \in Seq(Text) :
                /\ [inserts |-> s, replacement |-> e.replacement, deleted |-> e.deleted]
                        \in EventsAt(a)
                /\ Shows(a, [inserts |-> s, replacement |-> e.replacement, deleted |-> e.deleted])
                     = s \o Shows(a, [inserts |-> <<>>, replacement |-> e.replacement,
                                      deleted |-> e.deleted])
           /\ Shows(a, [inserts |-> <<>>, replacement |-> e.replacement, deleted |-> e.deleted])
                \in Seq(Text)
           /\ a <= Len(Base) =>
                /\ \A t \in Text :
                     [inserts |-> e.inserts, replacement |-> Replacement(a, t), deleted |-> FALSE]
                        \in EventsAt(a)
                /\ [inserts |-> e.inserts, replacement |-> None, deleted |-> TRUE] \in EventsAt(a)
<1>1. /\ e = [inserts |-> e.inserts, replacement |-> e.replacement, deleted |-> e.deleted]
      /\ e.inserts \in Seq(Text) /\ Len(e.inserts) \in Nat
      /\ e.replacement \in Text \cup {None} /\ e.deleted \in BOOLEAN
      /\ e.deleted => e.replacement = None
      /\ a > Len(Base) => e.replacement = None /\ e.deleted = FALSE
      /\ a <= Len(Base) /\ e.replacement = Base[a] => Base[a] \in Long
  BY EventIs
<1>2. a \in Nat /\ Len(Base) \in Nat /\ a >= 1 /\ (a <= Len(Base) => Base[a] \in Text)
      /\ None \notin Text
  BY BaseFacts
<1>3. ASSUME NEW s \in Seq(Text)
      PROVE  [inserts |-> s, replacement |-> e.replacement, deleted |-> e.deleted] \in EventsAt(a)
  <2> DEFINE f == [inserts |-> s, replacement |-> e.replacement, deleted |-> e.deleted]
  <2>1. f \in Events BY <1>1 DEF Events
  <2>2. a > Len(Base) => f = [NoEvent EXCEPT !.inserts = f.inserts]
    <3> HAVE a > Len(Base)
    <3>1. f = [inserts |-> s, replacement |-> None, deleted |-> FALSE] BY <1>1
    <3>2. [NoEvent EXCEPT !.inserts = s] = [inserts |-> s, replacement |-> None, deleted |-> FALSE]
      BY OnlyInserts
    <3> QED BY <3>1, <3>2
  <2> QED BY <1>1, <2>1, <2>2 DEF EventsAt
<1> DEFINE g == [inserts |-> <<>>, replacement |-> e.replacement, deleted |-> e.deleted]
           own == IF a <= Len(Base) /\ ~e.deleted
                  THEN <<IF e.replacement = None THEN Base[a] ELSE e.replacement>> ELSE <<>>
<1>4. own \in Seq(Text) BY <1>1, <1>2
<1>5. Shows(a, g) = <<>> \o own BY DEF Shows
<1>6. <<>> \o own = own
  <2> HIDE DEF own
  <2> QED BY <1>4
<1>7. \A s : Shows(a, [inserts |-> s, replacement |-> e.replacement, deleted |-> e.deleted])
                = s \o own
  BY DEF Shows
<1>8. ASSUME a <= Len(Base), NEW t \in Text
      PROVE  [inserts |-> e.inserts, replacement |-> Replacement(a, t), deleted |-> FALSE]
                \in EventsAt(a)
  <2> DEFINE f == [inserts |-> e.inserts, replacement |-> Replacement(a, t), deleted |-> FALSE]
  <2>1. Replacement(a, t) \in Text \cup {None} BY DEF Replacement
  <2>2. f \in Events BY <1>1, <2>1 DEF Events
  <2>3. Replacement(a, t) = Base[a] => Base[a] \in Long BY <1>2, <1>8 DEF Replacement
  <2>4. ~(a > Len(Base)) BY <1>2, <1>8
  <2> QED BY <2>2, <2>3, <2>4 DEF EventsAt
<1>9. ASSUME a <= Len(Base)
      PROVE  [inserts |-> e.inserts, replacement |-> None, deleted |-> TRUE] \in EventsAt(a)
  <2> DEFINE f == [inserts |-> e.inserts, replacement |-> None, deleted |-> TRUE]
  <2>2. f \in Events BY <1>1 DEF Events
  <2>3. None # Base[a] BY <1>2, <1>9
  <2>4. ~(a > Len(Base)) BY <1>2, <1>9
  <2> QED BY <2>2, <2>3, <2>4 DEF EventsAt
<1> HIDE DEF own
<1>10. Shows(a, g) = own BY <1>5, <1>6
<1> QED BY <1>3, <1>4, <1>7, <1>8, <1>9, <1>10

\* insert_line_before_inner
LEMMA InsertsLine ==
    ASSUME NEW w, NEW ev0, Grown(w, ev0), NEW l \in 1 .. (Count(w.ev) + 1), NEW t \in Text
    PROVE  Grows(w, InsertLineInner(w, l, t), ev0, l - 1, 0, <<t>>)
<1> DEFINE ev == w.ev
           N == Len(Base)
           ref == IF l > TotalLines(Base, ev)
                  THEN [anchor |-> N + 1, index |-> Len(At(ev, N + 1).inserts) + 1]
                  ELSE Locate(Base, ev, l)
<1>1. Tidy(ev) BY GrownTidy
<1>2. N + 1 \in Regions(Base) /\ N \in Nat BY BaseFacts DEF Regions
<1>3. Count(ev) \in Nat /\ From(ev, N + 1) + Size(ev, N + 1) = Count(ev) + 1 BY <1>1, FromFacts
<1>4. PICK a \in Regions(Base) : \E i \in 1 .. (Len(At(ev, a).inserts) + 1) :
            ref = [anchor |-> a, index |-> i] /\ l = (From(ev, a) + i) - 1
  <2>1. CASE l > Count(ev)
    <3> DEFINE n == Len(At(ev, N + 1).inserts)
    <3>1. ref = [anchor |-> N + 1, index |-> n + 1] BY <2>1 DEF Count
    <3>2. /\ n \in Nat
          /\ Size(ev, N + 1) = n + (IF Alive(Base, ev, N + 1) THEN 1 ELSE 0)
      BY <1>1, <1>2, SizeFacts
    <3>3. ~Alive(Base, ev, N + 1) BY <1>2 DEF Alive
    <3>4. From(ev, N + 1) \in Nat BY <1>1, <1>2, FromFacts
    <3> HIDE DEF n, N
    <3>5. l = (From(ev, N + 1) + (n + 1)) - 1 /\ n + 1 \in 1 .. (n + 1) BY <1>3, <2>1, <3>2, <3>3, <3>4
    <3> QED BY <1>2, <3>1, <3>5 DEF n
  <2>2. CASE ~(l > Count(ev))
    <3>1. l \in 1 .. Count(ev) /\ ref = Locate(Base, ev, l) BY <1>3, <2>2 DEF Count
    <3>2. PICK a \in Regions(Base) : \E i \in 1 .. Size(ev, a) :
              l = (From(ev, a) + i) - 1 /\ Locate(Base, ev, l) = [anchor |-> a, index |-> i]
      BY <1>1, <3>1, LocateFinds
    <3>3. PICK i \in 1 .. Size(ev, a) :
              l = (From(ev, a) + i) - 1 /\ Locate(Base, ev, l) = [anchor |-> a, index |-> i]
      BY <3>2
    <3> DEFINE n == Len(At(ev, a).inserts)
    <3>4. n \in Nat /\ Size(ev, a) = n + (IF Alive(Base, ev, a) THEN 1 ELSE 0)
      BY <1>1, SizeFacts
    <3> HIDE DEF n, ref
    <3>5. i \in 1 .. (n + 1) BY <3>4
    <3> QED BY <3>1, <3>3, <3>5 DEF n
  <2> QED BY <2>1, <2>2
<1>5. PICK i \in 1 .. (Len(At(ev, a).inserts) + 1) :
            ref = [anchor |-> a, index |-> i] /\ l = (From(ev, a) + i) - 1
  BY <1>4
<1> DEFINE e == At(ev, a)
           s == InsertAt(e.inserts, i, t)
           f == [inserts |-> s, replacement |-> e.replacement, deleted |-> e.deleted]
           op == RemoveInsert(a, i)
           own == Shows(a, [inserts |-> <<>>, replacement |-> e.replacement, deleted |-> e.deleted])
<1>6. e \in EventsAt(a) BY <1>1, AtFacts
<1>7. /\ e = [inserts |-> e.inserts, replacement |-> e.replacement, deleted |-> e.deleted]
      /\ e.inserts \in Seq(Text) /\ Len(e.inserts) \in Nat
  BY <1>6, EventIs
<1>8. InsertLineInner(w, l, t) = Did(w, a, f, op)
  <2>1. ref.anchor = a /\ ref.index = i BY <1>5
  <2>2. [e EXCEPT !.inserts = InsertAt(@, i, t)] = f BY <1>7
  <2>3. InsertLineInner(w, l, t)
          = Did(w, ref.anchor, [At(ev, ref.anchor) EXCEPT !.inserts = InsertAt(@, ref.index, t)],
                RemoveInsert(ref.anchor, ref.index))
    BY DEF InsertLineInner
  <2> HIDE DEF ref, f
  <2> QED BY <2>1, <2>2, <2>3
<1>9. s \in Seq(Text) /\ Len(s) = Len(e.inserts) + 1 /\ RemoveAt(s, i) = e.inserts
  BY <1>7, InsertedAt
<1>10. op = [op |-> "RemoveInsert", anchor |-> a, index |-> i] BY DEF RemoveInsert
<1>11. Swaps(e.inserts, s, i - 1, 0, <<t>>) BY <1>7, InsertSwaps
<1>12. /\ f \in EventsAt(a) /\ own \in Seq(Text)
       /\ Shows(a, f) = s \o own /\ Shows(a, e) = e.inserts \o own
  <2> DEFINE with(q) == [inserts |-> q, replacement |-> e.replacement, deleted |-> e.deleted]
  <2>1. /\ \A q \in Seq(Text) : with(q) \in EventsAt(a) /\ Shows(a, with(q)) = q \o own
        /\ own \in Seq(Text)
    <3> HIDE DEF e
    <3> QED BY <1>6, EventWith
  <2>2. e = with(e.inserts) /\ f = with(s) BY <1>7
  <2> HIDE DEF with, f, s, e, own
  <2>3. Shows(a, e) = e.inserts \o own BY <1>7, <2>1, <2>2
  <2> QED BY <1>9, <2>1, <2>2, <2>3
<1> HIDE DEF ref, s, own, op
<1>13. op \in Ops /\ op.anchor = a /\ Reaches(f, op) /\ Makes(f, op) = e
  <2>1. op \in DropOps BY <1>10 DEF DropOps
  <2>2. Reaches(f, op) BY <1>7, <1>9, <1>10 DEF Reaches
  <2>3. Makes(f, op) = [inserts |-> RemoveAt(s, i), replacement |-> e.replacement, deleted |-> e.deleted]
    BY <1>10 DEF Makes
  <2> QED BY <1>7, <1>9, <1>10, <2>1, <2>2, <2>3, OpsAre
<1> HIDE DEF f
<1>14. Swaps(Shows(a, e), Shows(a, f), i - 1, 0, <<t>>) BY <1>11, <1>12, SwapsBefore
<1>15. Grows(w, Did(w, a, f, op), ev0, (From(ev, a) - 1) + (i - 1), 0, <<t>>)
  BY <1>12, <1>13, <1>14, DidGrows
<1>16. (From(ev, a) - 1) + (i - 1) = l - 1
  <2>1. From(ev, a) \in Nat BY <1>1, FromFacts
  <2>2. i \in Nat BY <1>7
  <2> QED BY <1>5, <2>1, <2>2
<1> QED BY <1>8, <1>15, <1>16

\* An insertion taken out or set anew, and a line of the document set anew.
LEMMA RemovesInsert ==
    ASSUME NEW w, NEW ev0, Grown(w, ev0), NEW a \in Regions(Base),
           NEW i \in 1 .. Len(At(w.ev, a).inserts)
    PROVE  LET e == At(w.ev, a) IN
           Grows(w, Did(w, a, [e EXCEPT !.inserts = RemoveAt(@, i)],
                        InsertInsert(a, i, e.inserts[i])),
                 ev0, (From(w.ev, a) - 1) + (i - 1), 1, <<>>)
<1> DEFINE ev == w.ev
           e == At(ev, a)
           s == RemoveAt(e.inserts, i)
           f == [inserts |-> s, replacement |-> e.replacement, deleted |-> e.deleted]
           op == InsertInsert(a, i, e.inserts[i])
           own == Shows(a, [inserts |-> <<>>, replacement |-> e.replacement, deleted |-> e.deleted])
           with(q) == [inserts |-> q, replacement |-> e.replacement, deleted |-> e.deleted]
<1>1. e \in EventsAt(a) BY GrownTidy, AtFacts
<1>2. /\ e = [inserts |-> e.inserts, replacement |-> e.replacement, deleted |-> e.deleted]
      /\ e.inserts \in Seq(Text) /\ Len(e.inserts) \in Nat
  BY <1>1, EventIs
<1>3. [e EXCEPT !.inserts = RemoveAt(@, i)] = f BY <1>2
<1>4. /\ s \in Seq(Text) /\ Len(s) = Len(e.inserts) - 1
      /\ InsertAt(s, i, e.inserts[i]) = e.inserts /\ e.inserts[i] \in Text
  BY <1>2, RemovedAt
<1>5. op = [op |-> "InsertInsert", anchor |-> a, index |-> i, text |-> e.inserts[i]]
  BY DEF InsertInsert
<1>6. Swaps(e.inserts, s, i - 1, 1, <<>>) BY <1>2, RemoveSwaps
<1>7. /\ \A q \in Seq(Text) : with(q) \in EventsAt(a) /\ Shows(a, with(q)) = q \o own
      /\ own \in Seq(Text)
  <2> HIDE DEF e
  <2> QED BY <1>1, EventWith
<1>8. e = with(e.inserts) /\ f = with(s) BY <1>2
<1> HIDE DEF s, own, op, with
<1>9. op \in Ops /\ op.anchor = a /\ Reaches(f, op) /\ Makes(f, op) = e
  <2>1. op \in TextOps BY <1>4, <1>5 DEF TextOps
  <2>2. Reaches(f, op) BY <1>2, <1>4, <1>5 DEF Reaches
  <2>3. Makes(f, op) = [inserts |-> InsertAt(s, i, e.inserts[i]), replacement |-> e.replacement,
                        deleted |-> e.deleted]
    BY <1>5 DEF Makes
  <2> QED BY <1>2, <1>4, <1>5, <2>1, <2>2, <2>3, OpsAre
<1> HIDE DEF f, e
<1>10. f \in EventsAt(a) /\ Shows(a, f) = s \o own /\ Shows(a, e) = e.inserts \o own
  BY <1>2, <1>4, <1>7, <1>8
<1>11. Swaps(Shows(a, e), Shows(a, f), i - 1, 1, <<>>) BY <1>6, <1>7, <1>10, SwapsBefore
<1>12. Grows(w, Did(w, a, f, op), ev0, (From(w.ev, a) - 1) + (i - 1), 1, <<>>)
  BY <1>9, <1>10, <1>11, DidGrows DEF e
<1> QED BY <1>3, <1>12 DEF e, op

LEMMA SetsInsert ==
    ASSUME NEW w, NEW ev0, Grown(w, ev0), NEW a \in Regions(Base),
           NEW i \in 1 .. Len(At(w.ev, a).inserts), NEW t \in Text
    PROVE  LET e == At(w.ev, a) IN
           Grows(w, Did(w, a, [e EXCEPT !.inserts[i] = t], SetInsert(a, i, e.inserts[i])),
                 ev0, (From(w.ev, a) - 1) + (i - 1), 1, <<t>>)
<1> DEFINE ev == w.ev
           e == At(ev, a)
           s == [e.inserts EXCEPT ![i] = t]
           f == [inserts |-> s, replacement |-> e.replacement, deleted |-> e.deleted]
           op == SetInsert(a, i, e.inserts[i])
           own == Shows(a, [inserts |-> <<>>, replacement |-> e.replacement, deleted |-> e.deleted])
           with(q) == [inserts |-> q, replacement |-> e.replacement, deleted |-> e.deleted]
<1>1. e \in EventsAt(a) BY GrownTidy, AtFacts
<1>2. /\ e = [inserts |-> e.inserts, replacement |-> e.replacement, deleted |-> e.deleted]
      /\ e.inserts \in Seq(Text) /\ Len(e.inserts) \in Nat
  BY <1>1, EventIs
<1>3. [e EXCEPT !.inserts[i] = t] = f
  <2> HIDE DEF e
  <2> QED BY <1>2
<1>4. /\ s \in Seq(Text) /\ Len(s) = Len(e.inserts)
      /\ [s EXCEPT ![i] = e.inserts[i]] = e.inserts /\ e.inserts[i] \in Text
  <2> DEFINE q == e.inserts
  <2>1. q \in Seq(Text) /\ i \in 1 .. Len(q) BY <1>2
  <2> HIDE DEF q
  <2>2. [q EXCEPT ![i] = t] \in Seq(Text) /\ Len([q EXCEPT ![i] = t]) = Len(q) /\ q[i] \in Text
    BY <2>1
  <2>3. [[q EXCEPT ![i] = t] EXCEPT ![i] = q[i]] = q
    <3>1. q = [j \in 1 .. Len(q) |-> q[j]] BY <2>1
    <3>2. [[q EXCEPT ![i] = t] EXCEPT ![i] = q[i]] = [j \in 1 .. Len(q) |-> q[j]] BY <2>1
    <3> QED BY <3>1, <3>2
  <2> QED BY <2>2, <2>3 DEF q
<1>5. op = [op |-> "SetInsert", anchor |-> a, index |-> i, text |-> e.inserts[i]] BY DEF SetInsert
<1>6. Swaps(e.inserts, s, i - 1, 1, <<t>>)
  <2> DEFINE q == e.inserts
  <2>1. q \in Seq(Text) /\ i \in 1 .. Len(q) BY <1>2
  <2> HIDE DEF q
  <2>2. Swaps(q, [q EXCEPT ![i] = t], i - 1, 1, <<t>>) BY <2>1, SetSwaps
  <2> QED BY <2>2 DEF q
<1>7. /\ \A q \in Seq(Text) : with(q) \in EventsAt(a) /\ Shows(a, with(q)) = q \o own
      /\ own \in Seq(Text)
  <2> HIDE DEF e
  <2> QED BY <1>1, EventWith
<1>8. e = with(e.inserts) /\ f = with(s) BY <1>2
<1> HIDE DEF s, own, op, with
<1>9. op \in Ops /\ op.anchor = a /\ Reaches(f, op) /\ Makes(f, op) = e
  <2>1. op \in TextOps BY <1>4, <1>5 DEF TextOps
  <2>2. Reaches(f, op) BY <1>2, <1>4, <1>5 DEF Reaches
  <2>3. Makes(f, op) = [inserts |-> [s EXCEPT ![i] = e.inserts[i]], replacement |-> e.replacement,
                        deleted |-> e.deleted]
    BY <1>5 DEF Makes
  <2> QED BY <1>2, <1>4, <1>5, <2>1, <2>2, <2>3, OpsAre
<1> HIDE DEF f, e
<1>10. f \in EventsAt(a) /\ Shows(a, f) = s \o own /\ Shows(a, e) = e.inserts \o own
  BY <1>2, <1>4, <1>7, <1>8
<1>11. Swaps(Shows(a, e), Shows(a, f), i - 1, 1, <<t>>) BY <1>6, <1>7, <1>10, SwapsBefore
<1>12. Grows(w, Did(w, a, f, op), ev0, (From(w.ev, a) - 1) + (i - 1), 1, <<t>>)
  BY <1>9, <1>10, <1>11, DidGrows DEF e
<1> QED BY <1>3, <1>12 DEF e, op

\* The anchor's own line gets another text, or goes.
LEMMA SetsOwnLine ==
    ASSUME NEW w, NEW ev0, Grown(w, ev0), NEW a \in Regions(Base), Alive(Base, w.ev, a),
           NEW parts, NEW r, NEW d \in BOOLEAN,
           \/ d = FALSE /\ \E t \in Text : r = Replacement(a, t) /\ parts = <<t>>
           \/ d = TRUE /\ r = None /\ parts = <<>>
    PROVE  Grows(w, SetOwnLine(w, a, r, d), ev0,
                 (From(w.ev, a) - 1) + Len(At(w.ev, a).inserts), 1, parts)
<1> DEFINE ev == w.ev
           e == At(ev, a)
           f == [inserts |-> e.inserts, replacement |-> r, deleted |-> d]
           op == SetLine(a, e)
           x == IF e.replacement = None THEN Base[a] ELSE e.replacement
           n == Len(e.inserts)
<1>1. e \in EventsAt(a) /\ Tidy(ev) BY GrownTidy, AtFacts
<1>2. /\ e = [inserts |-> e.inserts, replacement |-> e.replacement, deleted |-> e.deleted]
      /\ e.inserts \in Seq(Text) /\ n \in Nat /\ e.replacement \in Text \cup {None}
      /\ e.deleted \in BOOLEAN
  BY <1>1, EventIs
<1>3. a <= Len(Base) /\ e.deleted = FALSE
  <2>1. a <= Len(Base) /\ ~e.deleted BY DEF Alive
  <2> QED BY <1>2, <2>1
<1>4. a \in 1 .. Len(Base) /\ Base[a] \in Text /\ x \in Text /\ None \notin Text
  BY <1>2, <1>3, BaseFacts
<1>5. Shows(a, e) = e.inserts \o <<x>> BY <1>3 DEF Shows
<1>6. (d = FALSE /\ r = None => parts = <<Base[a]>>) /\ (d = FALSE /\ r # None => parts = <<r>>)
      /\ r \in Text \cup {None} /\ (d = FALSE => parts[1] \in Text /\ parts = <<parts[1]>>)
  BY <1>4 DEF Replacement
<1>7. f \in EventsAt(a) BY <1>1, <1>3, EventWith
<1>8. Shows(a, f) = e.inserts \o parts
  <2>1. CASE d = FALSE BY <1>3, <1>6, <2>1 DEF Shows
  <2>2. CASE d = TRUE BY <2>2 DEF Shows
  <2> QED BY <2>1, <2>2
<1>9. Swaps(Shows(a, e), Shows(a, f), n, 1, parts)
  <2> HIDE DEF e, f, x
  <2>1. CASE d = FALSE
    <3> DEFINE t == parts[1]
    <3>1. t \in Text /\ parts = <<t>> BY <1>6, <2>1
    <3> HIDE DEF t
    <3> QED BY <1>2, <1>4, <1>5, <1>8, <3>1, OwnSwaps
  <2>2. CASE d = TRUE BY <1>2, <1>4, <1>5, <1>8, <2>2, OwnSwaps
  <2> QED BY <2>1, <2>2
<1>10. op = [op |-> "SetLineState", anchor |-> a, replacement |-> e.replacement,
             deleted |-> e.deleted]
  BY DEF SetLine
<1>11. [e EXCEPT !.replacement = r, !.deleted = d] = f
  <2> HIDE DEF e
  <2>1. ASSUME NEW y, NEW b,
               y = [inserts |-> y.inserts, replacement |-> y.replacement, deleted |-> y.deleted]
        PROVE  [y EXCEPT !.replacement = r, !.deleted = b]
                 = [inserts |-> y.inserts, replacement |-> r, deleted |-> b]
    <3> DEFINE z == [y EXCEPT !.replacement = r, !.deleted = b]
    <3>1. DOMAIN z = {"inserts", "replacement", "deleted"} BY <2>1
    <3>2. z.inserts = y.inserts /\ z.replacement = r /\ z.deleted = b BY <2>1
    <3>3. z = [i \in {"inserts", "replacement", "deleted"} |-> z[i]] BY <3>1
    <3> DEFINE q == [inserts |-> y.inserts, replacement |-> r, deleted |-> b]
    <3>4. q = [i \in {"inserts", "replacement", "deleted"} |-> q[i]] OBVIOUS
    <3>5. q.inserts = y.inserts /\ q.replacement = r /\ q.deleted = b OBVIOUS
    <3> HIDE DEF z, q
    <3>6. \A i \in {"inserts", "replacement", "deleted"} : z[i] = q[i] BY <3>2, <3>5
    <3>7. z = q BY <3>3, <3>4, <3>6
    <3> QED BY <3>7 DEF z, q
  <2>2. e = [inserts |-> e.inserts, replacement |-> e.replacement, deleted |-> e.deleted] BY <1>2
  <2> QED BY <2>1, <2>2
<1> HIDE DEF op
<1>12. op \in Ops /\ op.anchor = a /\ Reaches(f, op) /\ Makes(f, op) = e
  <2>1. op \in LineOps BY <1>2, <1>10 DEF LineOps
  <2>2. Reaches(f, op) BY <1>10 DEF Reaches
  <2>3. Makes(f, op) = [inserts |-> e.inserts, replacement |-> e.replacement, deleted |-> e.deleted]
    BY <1>10 DEF Makes
  <2> QED BY <1>2, <1>10, <2>1, <2>2, <2>3, OpsAre
<1>13. CASE e.replacement = r /\ e.deleted = d
  <2>1. SetOwnLine(w, a, r, d) = w BY <1>13 DEF SetOwnLine
  <2>2. parts = <<x>> BY <1>3, <1>6, <1>13
  <2>3. /\ n + 1 \in 1 .. Size(ev, a)
        /\ From(ev, a) \in Nat \ {0} /\ (From(ev, a) + (n + 1)) - 1 \in 1 .. Count(ev)
    <3>1. Size(ev, a) = n + 1
      <4>1. Size(ev, a) = n + (IF Alive(Base, ev, a) THEN 1 ELSE 0) BY <1>1, SizeFacts
      <4> QED BY <4>1
    <3>2. n + 1 \in 1 .. Size(ev, a)
      <4> HIDE DEF n
      <4> QED BY <1>2, <3>1
    <3>3. (From(ev, a) + (n + 1)) - 1 \in 1 .. Count(ev) BY <1>1, <3>2, LocateIs
    <3>4. From(ev, a) \in Nat \ {0} BY <1>1, FromFacts
    <3> QED BY <3>2, <3>3, <3>4
  <2> DEFINE v == View(Base, ev)
             p == (From(ev, a) - 1) + n
  <2>4. v[(From(ev, a) + (n + 1)) - 1] = Region(Base, ev, a)[n + 1] BY <1>1, <2>3, ViewFacts
  <2>5. Region(Base, ev, a)[n + 1] = x
    <3>1. Region(Base, ev, a)[n + 1] = OwnText(Base, ev, a) BY <1>1, RegionFacts
    <3> QED BY <3>1 DEF OwnText
  <2>6. v \in Seq(Text) /\ Len(v) = Count(ev) BY <1>1, ViewFacts
  <2> HIDE DEF v, n, x, e, ev
  <2>7. p \in 0 .. (Len(v) - 1) /\ p + 1 = (From(ev, a) + (n + 1)) - 1
    <3>1. p \in Nat /\ p + 1 = (From(ev, a) + (n + 1)) - 1 BY <1>2, <2>3
    <3>2. Len(v) \in Nat BY <2>6
    <3> HIDE DEF p
    <3> QED BY <2>3, <2>6, <3>1, <3>2
  <2> HIDE DEF p
  <2>8. v[p + 1] = x BY <2>4, <2>5, <2>7
  <2>9. Swaps(v, v, p, 1, <<v[p + 1]>>) BY <2>6, <2>7, SwapsNothing
  <2>10. Swaps(v, v, p, 1, parts) BY <2>2, <2>8, <2>9
  <2> QED BY <2>1, <2>10 DEF Grows, v, p, n, e, ev
<1>14. CASE ~(e.replacement = r /\ e.deleted = d)
  <2>1. SetOwnLine(w, a, r, d) = Did(w, a, f, op) BY <1>11, <1>14 DEF SetOwnLine, op
  <2> HIDE DEF f
  <2>2. Grows(w, Did(w, a, f, op), ev0, (From(ev, a) - 1) + n, 1, parts)
    BY <1>7, <1>9, <1>12, DidGrows
  <2> QED BY <2>1, <2>2
<1> QED BY <1>13, <1>14

\* Where line l is.
LEMMA LineIsAt ==
    ASSUME NEW ev, Tidy(ev), NEW l \in 1 .. Count(ev)
    PROVE  \E a \in Regions(Base) : \E i \in Nat :
               /\ Locate(Base, ev, l) = [anchor |-> a, index |-> i]
               /\ l - 1 = (From(ev, a) - 1) + (i - 1) /\ i >= 1
               /\ Len(At(ev, a).inserts) \in Nat
               /\ \/ i <= Len(At(ev, a).inserts)
                  \/ i = Len(At(ev, a).inserts) + 1 /\ Alive(Base, ev, a)
<1>1. PICK a \in Regions(Base) : \E i \in 1 .. Size(ev, a) :
          l = (From(ev, a) + i) - 1 /\ Locate(Base, ev, l) = [anchor |-> a, index |-> i]
  BY LocateFinds
<1>2. PICK i \in 1 .. Size(ev, a) :
          l = (From(ev, a) + i) - 1 /\ Locate(Base, ev, l) = [anchor |-> a, index |-> i]
  BY <1>1
<1> DEFINE n == Len(At(ev, a).inserts)
<1>3. /\ n \in Nat /\ Size(ev, a) = n + (IF Alive(Base, ev, a) THEN 1 ELSE 0)
      /\ Alive(Base, ev, a) \in BOOLEAN
  BY SizeFacts
<1>4. From(ev, a) \in Nat \ {0} BY FromFacts
<1> HIDE DEF n
<1>5. i <= n \/ (i = n + 1 /\ Alive(Base, ev, a)) BY <1>3
<1>6. l - 1 = (From(ev, a) - 1) + (i - 1) /\ i \in Nat /\ i >= 1 BY <1>2, <1>3, <1>4
<1> QED BY <1>2, <1>3, <1>5, <1>6 DEF n

\* delete_line_inner
LEMMA DeletesLine ==
    ASSUME NEW w, NEW ev0, Grown(w, ev0), NEW l \in 1 .. Count(w.ev)
    PROVE  Grows(w, DeleteLineInner(w, l), ev0, l - 1, 1, <<>>)
<1> DEFINE ev == w.ev
<1>1. Tidy(ev) BY GrownTidy
<1>2. PICK a \in Regions(Base) : \E i \in Nat :
               /\ Locate(Base, ev, l) = [anchor |-> a, index |-> i]
               /\ l - 1 = (From(ev, a) - 1) + (i - 1) /\ i >= 1
               /\ Len(At(ev, a).inserts) \in Nat
               /\ \/ i <= Len(At(ev, a).inserts)
                  \/ i = Len(At(ev, a).inserts) + 1 /\ Alive(Base, ev, a)
  BY <1>1, LineIsAt
<1>3. PICK i \in Nat :
               /\ Locate(Base, ev, l) = [anchor |-> a, index |-> i]
               /\ l - 1 = (From(ev, a) - 1) + (i - 1) /\ i >= 1
               /\ Len(At(ev, a).inserts) \in Nat
               /\ \/ i <= Len(At(ev, a).inserts)
                  \/ i = Len(At(ev, a).inserts) + 1 /\ Alive(Base, ev, a)
  BY <1>2
<1> DEFINE ref == Locate(Base, ev, l)
           n == Len(At(ev, a).inserts)
<1>4. ref.anchor = a /\ ref.index = i BY <1>3
<1> HIDE DEF ref
<1>5. CASE i <= n
  <2>1. i \in 1 .. Len(At(w.ev, a).inserts) BY <1>3, <1>5
  <2>2. IsInsert(ev, ref) BY <1>4, <1>5 DEF IsInsert
  <2>3. DeleteLineInner(w, l)
          = Did(w, a, [At(ev, a) EXCEPT !.inserts = RemoveAt(@, i)],
                InsertInsert(a, i, At(ev, a).inserts[i]))
    BY <1>4, <2>2 DEF DeleteLineInner, ref
  <2> QED BY <1>3, <2>1, <2>3, RemovesInsert
<1>6. CASE ~(i <= n)
  <2>1. Alive(Base, w.ev, a) /\ i = n + 1 BY <1>3, <1>6
  <2>2. ~IsInsert(ev, ref) BY <1>4, <1>6 DEF IsInsert
  <2>3. DeleteLineInner(w, l) = SetOwnLine(w, a, None, TRUE)
    BY <1>4, <2>2 DEF DeleteLineInner, ref
  <2>4. Grows(w, SetOwnLine(w, a, None, TRUE), ev0, (From(ev, a) - 1) + n, 1, <<>>)
    BY <2>1, SetsOwnLine
  <2>5. i - 1 = n
    <3> HIDE DEF n
    <3> QED BY <1>3, <2>1 DEF n
  <2>6. l - 1 = (From(ev, a) - 1) + n BY <1>3, <2>5
  <2> QED BY <2>3, <2>4, <2>6
<1> QED BY <1>5, <1>6

\* replace_line_inner
LEMMA ReplacesLine ==
    ASSUME NEW w, NEW ev0, Grown(w, ev0), NEW l \in 1 .. Count(w.ev), NEW t \in Text
    PROVE  Grows(w, ReplaceLineInner(w, l, t), ev0, l - 1, 1, <<t>>)
<1> DEFINE ev == w.ev
<1>1. Tidy(ev) BY GrownTidy
<1>2. PICK a \in Regions(Base) : \E i \in Nat :
               /\ Locate(Base, ev, l) = [anchor |-> a, index |-> i]
               /\ l - 1 = (From(ev, a) - 1) + (i - 1) /\ i >= 1
               /\ Len(At(ev, a).inserts) \in Nat
               /\ \/ i <= Len(At(ev, a).inserts)
                  \/ i = Len(At(ev, a).inserts) + 1 /\ Alive(Base, ev, a)
  BY <1>1, LineIsAt
<1>3. PICK i \in Nat :
               /\ Locate(Base, ev, l) = [anchor |-> a, index |-> i]
               /\ l - 1 = (From(ev, a) - 1) + (i - 1) /\ i >= 1
               /\ Len(At(ev, a).inserts) \in Nat
               /\ \/ i <= Len(At(ev, a).inserts)
                  \/ i = Len(At(ev, a).inserts) + 1 /\ Alive(Base, ev, a)
  BY <1>2
<1> DEFINE ref == Locate(Base, ev, l)
           e == At(ev, a)
           n == Len(e.inserts)
<1>4. ref.anchor = a /\ ref.index = i BY <1>3
<1> HIDE DEF ref
<1>5. CASE i <= n /\ e.inserts[i] = t
  <2>1. IsInsert(ev, ref) BY <1>4, <1>5 DEF IsInsert
  <2>2. ReplaceLineInner(w, l, t) = w BY <1>4, <1>5, <2>1 DEF ReplaceLineInner, ref
  <2> DEFINE v == View(Base, ev)
             p == l - 1
  <2>3. i \in 1 .. n /\ i \in 1 .. Size(ev, a)
    <3>1. n \in Nat /\ Size(ev, a) = n + (IF Alive(Base, ev, a) THEN 1 ELSE 0)
      BY <1>1, SizeFacts
    <3>2. i <= n BY <1>5
    <3> HIDE DEF n
    <3> QED BY <1>3, <3>1, <3>2
  <2>4. From(ev, a) \in Nat \ {0} BY <1>1, FromFacts
  <2>5. l = (From(ev, a) + i) - 1 BY <1>3, <2>4
  <2>6. v[l] = Region(Base, ev, a)[i] BY <1>1, <2>3, <2>5, ViewFacts
  <2>7. Region(Base, ev, a)[i] = t BY <1>1, <1>5, <2>3, RegionFacts
  <2>8. v \in Seq(Text) /\ Len(v) = Count(ev) BY <1>1, ViewFacts
  <2> HIDE DEF v
  <2>9. p \in 0 .. (Len(v) - 1) /\ p + 1 = l BY <2>8
  <2> HIDE DEF p
  <2>10. Swaps(v, v, p, 1, <<v[p + 1]>>) BY <2>8, <2>9, SwapsNothing
  <2>11. Swaps(v, v, p, 1, <<t>>) BY <2>6, <2>7, <2>9, <2>10
  <2> QED BY <2>2, <2>11 DEF Grows, v, p
<1>6. CASE i <= n /\ e.inserts[i] # t
  <2>1. i \in 1 .. Len(At(w.ev, a).inserts) BY <1>3, <1>6
  <2>2. IsInsert(ev, ref) BY <1>4, <1>6 DEF IsInsert
  <2>3. ReplaceLineInner(w, l, t)
          = Did(w, a, [At(ev, a) EXCEPT !.inserts[i] = t], SetInsert(a, i, At(ev, a).inserts[i]))
    BY <1>4, <1>6, <2>2 DEF ReplaceLineInner, ref
  <2> QED BY <1>3, <2>1, <2>3, SetsInsert
<1>7. CASE ~(i <= n)
  <2>1. Alive(Base, w.ev, a) /\ i = n + 1 BY <1>3, <1>7
  <2>2. ~IsInsert(ev, ref) BY <1>4, <1>7 DEF IsInsert
  <2>3. ReplaceLineInner(w, l, t) = SetOwnLine(w, a, Replacement(a, t), FALSE)
    BY <1>4, <2>2 DEF ReplaceLineInner, ref
  <2>4. Grows(w, SetOwnLine(w, a, Replacement(a, t), FALSE), ev0, (From(ev, a) - 1) + n, 1, <<t>>)
    BY <2>1, SetsOwnLine
  <2>5. i - 1 = n
    <3> HIDE DEF n
    <3> QED BY <1>3, <2>1 DEF n
  <2>6. l - 1 = (From(ev, a) - 1) + n BY <1>3, <2>5
  <2> QED BY <2>3, <2>4, <2>6
<1> QED BY <1>5, <1>6, <1>7

\* Edits of several lines: each step from what the one before it left.
LEMMA InsertsInTurn ==
    ASSUME NEW w, NEW l \in Nat, NEW texts \in Seq(Text)
    PROVE  \E d : /\ d[0] = w
                  /\ \A i \in 1 .. Len(texts) : d[i] = InsertLineInner(d[i - 1], l + i - 1, texts[i])
                  /\ InsertLines(w, l, texts) = d[Len(texts)]
<1> DEFINE L == Len(texts)
           seq == [k \in 1 .. Len(texts) |-> k]
           Turns(g, k) == g = [i \in 0 .. k |->
               IF i = 0 THEN w
               ELSE CHOOSE y \in {InsertLineInner(v, l + seq[i] - 1, texts[seq[i]]) : v \in {g[i - 1]}} : TRUE]
           Q == {k \in 0 .. L : \E g : Turns(g, k)}
<1>0. \A x, i : (CHOOSE y \in {InsertLineInner(v, l + seq[i] - 1, texts[seq[i]]) : v \in {x}} : TRUE) = InsertLineInner(x, l + seq[i] - 1, texts[seq[i]])
  OBVIOUS
<1>1. L \in Nat OBVIOUS
<1>2. \E g : Turns(g, 0)
  <2> DEFINE g == [i \in 0 .. 0 |-> w]
  <2>1. \A i \in 0 .. 0 : i = 0 OBVIOUS
  <2>2. Turns(g, 0) BY <2>1
  <2> QED BY <2>2
<1>3. ASSUME NEW k \in 1 .. L, \E g : Turns(g, k - 1) PROVE \E g : Turns(g, k)
  <2>1. PICK g : Turns(g, k - 1) BY <1>3
  <2> DEFINE h == [i \in 0 .. k |-> IF i = k THEN InsertLineInner(g[k - 1], l + seq[k] - 1, texts[seq[k]]) ELSE g[i]]
  <2>2. \A i \in 0 .. k : i # 0 => h[i - 1] = g[i - 1] OBVIOUS
  <2>3. \A i \in 0 .. k : h[i] = IF i = 0 THEN w
               ELSE CHOOSE y \in {InsertLineInner(v, l + seq[i] - 1, texts[seq[i]]) : v \in {h[i - 1]}} : TRUE
    <3> TAKE i \in 0 .. k
    <3>1. CASE i = k BY <1>0, <2>2, <3>1
    <3>2. CASE i # k
      <4>1. h[i] = g[i] /\ i \in 0 .. (k - 1) BY <3>2
      <4>2. g[i] = IF i = 0 THEN w
                   ELSE CHOOSE y \in {InsertLineInner(v, l + seq[i] - 1, texts[seq[i]]) : v \in {g[i - 1]}} : TRUE
        BY <2>1, <4>1
      <4> QED BY <2>2, <4>1, <4>2
    <3> QED BY <3>1, <3>2
  <2>4. h = [i \in 0 .. k |-> h[i]] OBVIOUS
  <2> HIDE DEF h
  <2>5. Turns(h, k) BY <2>3, <2>4
  <2> QED BY <2>5
<1>4. \E g : Turns(g, L)
  <2> HIDE DEF Turns
  <2>1. 0 \in Q BY <1>1, <1>2
  <2>2. \A k \in 1 .. L : k - 1 \in Q => k \in Q BY <1>1, <1>3
  <2>3. \A k \in 0 .. L : k \in Q
    <3> HIDE DEF Q, L
    <3> QED BY <1>1, <2>1, <2>2, Climb
  <2> QED BY <1>1, <2>3
<1> DEFINE d == CHOOSE g : Turns(g, L)
<1>5. Turns(d, L) BY <1>4
<1>6. Len(seq) = L BY <1>1
<1>7. \A i \in 1 .. L : seq[i] = i OBVIOUS
<1> HIDE DEF seq, L
<1>8. InsertLines(w, l, texts) = d[L] BY <1>6 DEF InsertLines, InTurn, Of, seq
<1> HIDE DEF d
<1>9. d[0] = w /\ \A i \in 1 .. L : d[i] = InsertLineInner(d[i - 1], l + i - 1, texts[i]) BY <1>0, <1>1, <1>5, <1>7, SMTT(30)
<1> QED BY <1>8, <1>9 DEF L

Deletions(d, w, l0, l1, L) ==
    /\ d[0] = w
    /\ \A i \in 1 .. L : d[i] = DeleteLineInner(d[i - 1], (l1 + 1) - i)
    /\ DeleteLines(w, l0, l1) = d[L]

LEMMA DeletesInTurn ==
    ASSUME NEW w, NEW l0 \in Nat, NEW l1 \in Nat, NEW L \in Nat, L = (l1 - l0) + 1
    PROVE  \E d : Deletions(d, w, l0, l1, L)
<1> DEFINE seq == [k \in 1 .. (l1 - l0 + 1) |-> l1 + 1 - k]
           Turns(g, k) == g = [i \in 0 .. k |->
               IF i = 0 THEN w
               ELSE CHOOSE y \in {DeleteLineInner(v, seq[i]) : v \in {g[i - 1]}} : TRUE]
           Q == {k \in 0 .. L : \E g : Turns(g, k)}
<1>0. \A x, i : (CHOOSE y \in {DeleteLineInner(v, seq[i]) : v \in {x}} : TRUE) = DeleteLineInner(x, seq[i])
  OBVIOUS
<1>1. L \in Nat OBVIOUS
<1>2. \E g : Turns(g, 0)
  <2> DEFINE g == [i \in 0 .. 0 |-> w]
  <2>1. \A i \in 0 .. 0 : i = 0 OBVIOUS
  <2>2. Turns(g, 0) BY <2>1
  <2> QED BY <2>2
<1>3. ASSUME NEW k \in 1 .. L, \E g : Turns(g, k - 1) PROVE \E g : Turns(g, k)
  <2>1. PICK g : Turns(g, k - 1) BY <1>3
  <2> DEFINE h == [i \in 0 .. k |-> IF i = k THEN DeleteLineInner(g[k - 1], seq[k]) ELSE g[i]]
  <2>2. \A i \in 0 .. k : i # 0 => h[i - 1] = g[i - 1] OBVIOUS
  <2>3. \A i \in 0 .. k : h[i] = IF i = 0 THEN w
               ELSE CHOOSE y \in {DeleteLineInner(v, seq[i]) : v \in {h[i - 1]}} : TRUE
    <3> TAKE i \in 0 .. k
    <3>1. CASE i = k BY <1>0, <2>2, <3>1
    <3>2. CASE i # k
      <4>1. h[i] = g[i] /\ i \in 0 .. (k - 1) BY <3>2
      <4>2. g[i] = IF i = 0 THEN w
                   ELSE CHOOSE y \in {DeleteLineInner(v, seq[i]) : v \in {g[i - 1]}} : TRUE
        BY <2>1, <4>1
      <4> QED BY <2>2, <4>1, <4>2
    <3> QED BY <3>1, <3>2
  <2>4. h = [i \in 0 .. k |-> h[i]] OBVIOUS
  <2> HIDE DEF h
  <2>5. Turns(h, k) BY <2>3, <2>4
  <2> QED BY <2>5
<1>4. \E g : Turns(g, L)
  <2> HIDE DEF Turns
  <2>1. 0 \in Q BY <1>1, <1>2
  <2>2. \A k \in 1 .. L : k - 1 \in Q => k \in Q BY <1>1, <1>3
  <2>3. \A k \in 0 .. L : k \in Q
    <3> HIDE DEF Q
    <3> QED BY <1>1, <2>1, <2>2, Climb
  <2> QED BY <1>1, <2>3
<1> DEFINE d == CHOOSE g : Turns(g, L)
<1>5. Turns(d, L) BY <1>4
<1>6. Len(seq) = L BY <1>1
<1>7. \A i \in 1 .. L : seq[i] = (l1 + 1) - i OBVIOUS
<1> HIDE DEF seq
<1>8. DeleteLines(w, l0, l1) = d[L] BY <1>6 DEF DeleteLines, InTurn, Of, seq
<1> HIDE DEF d
<1>9. d[0] = w /\ \A i \in 1 .. L : d[i] = DeleteLineInner(d[i - 1], (l1 + 1) - i) BY <1>0, <1>1, <1>5, <1>7
<1>10. Deletions(d, w, l0, l1, L) BY <1>8, <1>9 DEF Deletions
<1> QED BY <1>10

LEMMA RowsInTurn ==
    ASSUME NEW l0 \in Nat, NEW l1 \in Nat, NEW rows, l0 <= l1 + 1
    PROVE  \E d : /\ d[0] = Work(events)
                  /\ \A i \in 1 .. ((l1 - l0) + 1) : d[i] = ReplaceLineInner(d[i - 1], (l0 + i) - 1, rows[(l0 + i) - 1])
                  /\ ReplaceRows(l0, l1, rows) = d[((l1 - l0) + 1)]
<1> DEFINE w == Work(events)
           L == ((l1 - l0) + 1)
           seq == [k \in 1 .. (l1 - l0 + 1) |-> l0 + k - 1]
           Turns(g, k) == g = [i \in 0 .. k |->
               IF i = 0 THEN w
               ELSE CHOOSE y \in {ReplaceLineInner(v, seq[i], rows[seq[i]]) : v \in {g[i - 1]}} : TRUE]
           Q == {k \in 0 .. L : \E g : Turns(g, k)}
<1>0. \A x, i : (CHOOSE y \in {ReplaceLineInner(v, seq[i], rows[seq[i]]) : v \in {x}} : TRUE) = ReplaceLineInner(x, seq[i], rows[seq[i]])
  OBVIOUS
<1>1. L \in Nat OBVIOUS
<1>2. \E g : Turns(g, 0)
  <2> DEFINE g == [i \in 0 .. 0 |-> w]
  <2>1. \A i \in 0 .. 0 : i = 0 OBVIOUS
  <2>2. Turns(g, 0) BY <2>1
  <2> QED BY <2>2
<1>3. ASSUME NEW k \in 1 .. L, \E g : Turns(g, k - 1) PROVE \E g : Turns(g, k)
  <2>1. PICK g : Turns(g, k - 1) BY <1>3
  <2> DEFINE h == [i \in 0 .. k |-> IF i = k THEN ReplaceLineInner(g[k - 1], seq[k], rows[seq[k]]) ELSE g[i]]
  <2>2. \A i \in 0 .. k : i # 0 => h[i - 1] = g[i - 1] OBVIOUS
  <2>3. \A i \in 0 .. k : h[i] = IF i = 0 THEN w
               ELSE CHOOSE y \in {ReplaceLineInner(v, seq[i], rows[seq[i]]) : v \in {h[i - 1]}} : TRUE
    <3> TAKE i \in 0 .. k
    <3>1. CASE i = k BY <1>0, <2>2, <3>1
    <3>2. CASE i # k
      <4>1. h[i] = g[i] /\ i \in 0 .. (k - 1) BY <3>2
      <4>2. g[i] = IF i = 0 THEN w
                   ELSE CHOOSE y \in {ReplaceLineInner(v, seq[i], rows[seq[i]]) : v \in {g[i - 1]}} : TRUE
        BY <2>1, <4>1
      <4> QED BY <2>2, <4>1, <4>2
    <3> QED BY <3>1, <3>2
  <2>4. h = [i \in 0 .. k |-> h[i]] OBVIOUS
  <2> HIDE DEF h
  <2>5. Turns(h, k) BY <2>3, <2>4
  <2> QED BY <2>5
<1>4. \E g : Turns(g, L)
  <2> HIDE DEF Turns
  <2>1. 0 \in Q BY <1>1, <1>2
  <2>2. \A k \in 1 .. L : k - 1 \in Q => k \in Q BY <1>1, <1>3
  <2>3. \A k \in 0 .. L : k \in Q
    <3> HIDE DEF Q, L
    <3> QED BY <1>1, <2>1, <2>2, Climb
  <2> QED BY <1>1, <2>3
<1> DEFINE d == CHOOSE g : Turns(g, L)
<1>5. Turns(d, L) BY <1>4
<1>6. Len(seq) = L BY <1>1
<1>7. \A i \in 1 .. L : seq[i] = (l0 + i) - 1 OBVIOUS
<1> HIDE DEF seq, L, w
<1>8. ReplaceRows(l0, l1, rows) = d[L] BY <1>6 DEF ReplaceRows, InTurn, Of, seq, w
<1> HIDE DEF d
<1>9. d[0] = w /\ \A i \in 1 .. L : d[i] = ReplaceLineInner(d[i - 1], (l0 + i) - 1, rows[(l0 + i) - 1]) BY <1>0, <1>1, <1>5, <1>7
<1> QED BY <1>8, <1>9 DEF L, w

LEMMA SwapsNone ==
    ASSUME NEW x \in Seq(Text), NEW p \in 0 .. Len(x)
    PROVE  Swaps(x, x, p, 0, <<>>)
<1> DEFINE s == <<>>
<1>1. s \in Seq(Text) /\ Len(s) = 0 /\ Len(x) \in Nat /\ p \in Nat /\ 0 \in Nat OBVIOUS
<1> HIDE DEF s
<1>2. p + 0 <= Len(x) /\ Len(x) = (Len(x) - 0) + Len(s) BY <1>1
<1>3. \A i \in 1 .. Len(s) : x[p + i] = s[i] BY <1>1
<1>4. \A i \in 1 .. (Len(x) - (p + 0)) : x[(p + Len(s)) + i] = x[(p + 0) + i] BY <1>1
<1>5. Swaps(x, x, p, 0, s) BY <1>1, <1>2, <1>3, <1>4 DEF Swaps
<1> QED BY <1>5 DEF s

LEMMA GrowsFacts ==
    ASSUME NEW w, NEW u, NEW ev0, NEW p, NEW o, NEW parts, Grown(w, ev0), Grows(w, u, ev0, p, o, parts)
    PROVE  /\ Grown(u, ev0) /\ Count(w.ev) \in Nat /\ Count(u.ev) \in Nat
           /\ p \in Nat /\ o \in Nat /\ parts \in Seq(Text) /\ p + o <= Count(w.ev)
           /\ Count(u.ev) = (Count(w.ev) - o) + Len(parts)
<1>1. Grown(u, ev0) /\ Swaps(View(Base, w.ev), View(Base, u.ev), p, o, parts) BY DEF Grows
<1>2. Tidy(w.ev) /\ Tidy(u.ev) BY <1>1, GrownTidy
<1>3. /\ Len(View(Base, w.ev)) = Count(w.ev) /\ Len(View(Base, u.ev)) = Count(u.ev)
      /\ Count(w.ev) \in Nat /\ Count(u.ev) \in Nat
  BY <1>2, ViewFacts, FromFacts
<1> QED BY <1>1, <1>3 DEF Swaps

LEMMA GrowsNone ==
    ASSUME NEW w, NEW ev0, Grown(w, ev0), NEW p \in 0 .. Count(w.ev)
    PROVE  Grows(w, w, ev0, p, 0, <<>>)
<1>1. View(Base, w.ev) \in Seq(Text) /\ Len(View(Base, w.ev)) = Count(w.ev)
  BY GrownTidy, ViewFacts
<1>2. Swaps(View(Base, w.ev), View(Base, w.ev), p, 0, <<>>) BY <1>1, SwapsNone
<1> QED BY <1>2 DEF Grows

LEMMA GrowsThen ==
    ASSUME NEW w, NEW u, NEW v, NEW ev0, NEW p, NEW o, NEW s, NEW n, NEW t,
           Grows(w, u, ev0, p, o, s), Grows(u, v, ev0, p + Len(s), n, t)
    PROVE  Grows(w, v, ev0, p, o + n, s \o t)
BY SwapsThen DEF Grows

LEMMA LinesInsert ==
    ASSUME NEW w, NEW ev0, Grown(w, ev0), NEW l \in 1 .. (Count(w.ev) + 1),
           NEW texts \in Seq(Text)
    PROVE  Grows(w, InsertLines(w, l, texts), ev0, l - 1, 0, texts)
<1> DEFINE L == Len(texts)
           C == Count(w.ev)
           p == l - 1
           s(i) == SubSeq(texts, 1, i)
<1>1. L \in Nat /\ C \in Nat /\ l \in Nat /\ l >= 1 /\ l <= C + 1 BY GrownTidy, FromFacts
<1>2. PICK d : /\ d[0] = w
               /\ \A i \in 1 .. L : d[i] = InsertLineInner(d[i - 1], l + i - 1, texts[i])
               /\ InsertLines(w, l, texts) = d[L]
  BY <1>1, InsertsInTurn, ZenonT(60)
<1>3. /\ s(0) = <<>> /\ s(L) = texts
      /\ \A i \in 0 .. L : s(i) \in Seq(Text) /\ Len(s(i)) = i
      /\ \A i \in 1 .. L : s(i) = s(i - 1) \o <<texts[i]>> /\ texts[i] \in Text
  <2>1. s(0) = <<>> /\ s(L) = texts OBVIOUS
  <2>2. \A i \in 0 .. L : s(i) \in Seq(Text) /\ Len(s(i)) = i OBVIOUS
  <2>3. \A i \in 1 .. L : s(i) = s(i - 1) \o <<texts[i]>> /\ texts[i] \in Text OBVIOUS
  <2> QED BY <2>1, <2>2, <2>3
<1> DEFINE P(i) == Grows(w, d[i], ev0, p, 0, s(i))
           Q == {i \in 0 .. L : P(i)}
<1> HIDE DEF L, C, s
<1>4. P(0)
  <2>1. p \in 0 .. Count(w.ev) BY <1>1 DEF C
  <2>2. Grows(w, w, ev0, p, 0, <<>>) BY <2>1, GrowsNone
  <2> QED BY <1>2, <1>3, <2>2
<1>5. ASSUME NEW i \in 1 .. L, P(i - 1) PROVE P(i)
  <2> DEFINE u == d[i - 1]
             q == s(i - 1)
             t == texts[i]
             k == l + i - 1
  <2>1. Grows(w, u, ev0, p, 0, q) BY <1>5
  <2>2. q \in Seq(Text) /\ Len(q) = i - 1 /\ s(i) = q \o <<t>> /\ t \in Text
    <3>1. i - 1 \in 0 .. L BY <1>1
    <3>2. q \in Seq(Text) /\ Len(q) = i - 1 BY <1>3, <3>1
    <3>3. s(i) = q \o <<t>> /\ t \in Text BY <1>3
    <3> QED BY <3>2, <3>3
  <2>3. d[i] = InsertLineInner(u, k, t) BY <1>2
  <2> HIDE DEF u, q, t
  <2>4. Grown(u, ev0) /\ Count(u.ev) = (C - 0) + Len(q) BY <2>1, GrowsFacts DEF C
  <2>5. k \in 1 .. (Count(u.ev) + 1) /\ k - 1 = p + Len(q) BY <1>1, <2>2, <2>4
  <2> HIDE DEF k
  <2>6. Grows(u, InsertLineInner(u, k, t), ev0, k - 1, 0, <<t>>) BY <2>2, <2>4, <2>5, InsertsLine
  <2>7. Grows(w, InsertLineInner(u, k, t), ev0, p, 0 + 0, q \o <<t>>)
    BY <2>1, <2>5, <2>6, GrowsThen
  <2>8. 0 + 0 = 0 OBVIOUS
  <2> QED BY <2>2, <2>3, <2>7, <2>8
<1>6. P(L)
  <2> HIDE DEF P
  <2>1. 0 \in Q BY <1>1, <1>4
  <2>2. \A i \in 1 .. L : i - 1 \in Q => i \in Q BY <1>1, <1>5
  <2>3. \A i \in 0 .. L : i \in Q
    <3> HIDE DEF Q
    <3> QED BY <1>1, <2>1, <2>2, Climb
  <2> QED BY <1>1, <2>3
<1> QED BY <1>2, <1>3, <1>6

LEMMA LinesDelete ==
    ASSUME NEW w, NEW ev0, Grown(w, ev0), NEW l0 \in Nat \ {0}, NEW l1 \in Nat,
           l0 <= l1 + 1, l1 <= Count(w.ev)
    PROVE  Grows(w, DeleteLines(w, l0, l1), ev0, l0 - 1, (l1 - l0) + 1, <<>>)
<1> DEFINE L == (l1 - l0) + 1
           C == Count(w.ev)
<1>1. L \in Nat /\ C \in Nat /\ L <= l1 BY GrownTidy, FromFacts
<1>2. PICK d : /\ d[0] = w
               /\ \A i \in 1 .. L : d[i] = DeleteLineInner(d[i - 1], (l1 + 1) - i)
               /\ DeleteLines(w, l0, l1) = d[L]
  <2>1. l0 \in Nat OBVIOUS
  <2>2. L \in Nat /\ L = (l1 - l0) + 1 BY <1>1
  <2> HIDE DEF L
  <2>3. \E d : Deletions(d, w, l0, l1, L) BY <2>1, <2>2, DeletesInTurn
  <2> QED BY <2>3 DEF Deletions
<1> DEFINE P(i) == Grows(w, d[i], ev0, l1 - i, i, <<>>)
           Q == {i \in 0 .. L : P(i)}
<1>4. P(0)
  <2>1. l1 \in 0 .. Count(w.ev) /\ l1 - 0 = l1 BY <1>1
  <2>2. Grows(w, w, ev0, l1, 0, <<>>) BY <2>1, GrowsNone
  <2> QED BY <1>2, <2>1, <2>2
<1> HIDE DEF L, C
<1>5. ASSUME NEW i \in 1 .. L, P(i - 1) PROVE P(i)
  <2> DEFINE u == d[i - 1]
             p == l1 - i
             k == (l1 + 1) - i
             o == i - 1
  <2>1. p + 1 = l1 - (i - 1) /\ k - 1 = p /\ o + 1 = i /\ p \in Nat /\ o \in Nat BY <1>1
  <2>2. Grows(w, u, ev0, p + 1, o, <<>>) BY <1>5, <2>1
  <2>3. d[i] = DeleteLineInner(u, k) BY <1>2
  <2> HIDE DEF u
  <2>4. Grown(u, ev0) /\ Count(u.ev) = (C - o) + Len(<<>>) BY <2>2, GrowsFacts DEF C
  <2>5. k \in 1 .. Count(u.ev)
    <3>1. Len(<<>>) = 0 /\ l1 <= C BY DEF C
    <3> QED BY <1>1, <2>1, <2>4, <3>1
  <2> HIDE DEF k, p, o
  <2>6. Grows(u, DeleteLineInner(u, k), ev0, p, 1, <<>>) BY <2>1, <2>4, <2>5, DeletesLine
  <2>7. Grows(w, DeleteLineInner(u, k), ev0, p, o + 1, <<>>)
    BY <2>1, <2>2, <2>6, SwapsUp DEF Grows
  <2> QED BY <2>1, <2>3, <2>7 DEF p
<1>6. P(L)
  <2> HIDE DEF P
  <2>1. 0 \in Q BY <1>1, <1>4
  <2>2. \A i \in 1 .. L : i - 1 \in Q => i \in Q BY <1>1, <1>5
  <2>3. \A i \in 0 .. L : i \in Q
    <3> HIDE DEF Q
    <3> QED BY <1>1, <2>1, <2>2, Climb
  <2> QED BY <1>1, <2>3
<1>7. l1 - L = l0 - 1 BY DEF L
<1> QED BY <1>2, <1>6, <1>7 DEF L

\* The lines an edit names: within the view, or the first of an empty one.
Within(ev, l0, l1) ==
    /\ l0 \in Nat \ {0} /\ l1 \in Nat
    /\ IF Count(ev) = 0 THEN l0 = 1 /\ l1 = 1 ELSE l0 <= l1 /\ l1 <= Count(ev)

\* replace_range_inner
LEMMA RangeReplaces ==
    ASSUME NEW w, NEW ev0, Grown(w, ev0), NEW l0, NEW l1, Within(w.ev, l0, l1),
           NEW parts \in Seq(Text), parts # <<>>
    PROVE  Grows(w, ReplaceRangeInner(w, l0, l1, parts), ev0,
                 l0 - 1, IF Count(w.ev) = 0 THEN 0 ELSE (l1 + 1) - l0, parts)
<1> DEFINE C == Count(w.ev)
<1>1. C \in Nat /\ l0 \in Nat \ {0} /\ l1 \in Nat BY GrownTidy, FromFacts DEF Within
<1>2. CASE C = 0
  <2>1. ReplaceRangeInner(w, l0, l1, parts) = InsertLines(w, 1, parts)
    BY <1>2 DEF ReplaceRangeInner, Count
  <2>2. l0 = 1 BY <1>2 DEF Within
  <2>3. 1 \in 1 .. (Count(w.ev) + 1) BY <1>1
  <2>4. Grows(w, InsertLines(w, 1, parts), ev0, 1 - 1, 0, parts) BY <2>3, LinesInsert
  <2> QED BY <1>2, <2>1, <2>2, <2>4
<1>3. CASE C # 0
  <2> DEFINE t == Head(parts)
             rest == Tail(parts)
             u == ReplaceLineInner(w, l0, t)
             v == DeleteLines(u, l0 + 1, l1)
             x == InsertLines(v, l0 + 1, rest)
  <2>1. l0 <= l1 /\ l1 <= C BY <1>3 DEF Within
  <2>2. t \in Text /\ rest \in Seq(Text) /\ parts = <<t>> \o rest OBVIOUS
  <2>3. ReplaceRangeInner(w, l0, l1, parts) = x BY <1>3 DEF ReplaceRangeInner, Count
  <2> HIDE DEF t, rest
  <2>4. l0 \in 1 .. Count(w.ev) BY <1>1, <2>1
  <2>5. Grows(w, u, ev0, l0 - 1, 1, <<t>>) BY <2>2, <2>4, ReplacesLine
  <2> DEFINE one == <<t>>
  <2>6. one \in Seq(Text) /\ Len(one) = 1 BY <2>2
  <2>18. Grows(w, u, ev0, l0 - 1, 1, one) BY <2>5
  <2> HIDE DEF u, one
  <2>7. Grown(u, ev0) /\ Count(u.ev) = (C - 1) + Len(one) BY <2>18, GrowsFacts
  <2>8. /\ l0 + 1 \in Nat \ {0} /\ l0 + 1 <= l1 + 1 /\ l1 <= Count(u.ev)
        /\ (l0 + 1) - 1 = (l0 - 1) + Len(one)
    BY <1>1, <2>1, <2>6, <2>7
  <2>9. Grows(u, v, ev0, (l0 + 1) - 1, (l1 - (l0 + 1)) + 1, <<>>) BY <1>1, <2>7, <2>8, LinesDelete
  <2> HIDE DEF v
  <2>10. Grown(v, ev0) /\ Count(v.ev) = (Count(u.ev) - ((l1 - (l0 + 1)) + 1)) + Len(<<>>)
    BY <2>7, <2>9, GrowsFacts
  <2>11. l0 + 1 \in 1 .. (Count(v.ev) + 1)
    <3>1. Len(<<>>) = 0 OBVIOUS
    <3> QED BY <1>1, <2>1, <2>6, <2>7, <2>10, <3>1
  <2>12. Grows(v, x, ev0, (l0 + 1) - 1, 0, rest) BY <2>2, <2>10, <2>11, LinesInsert
  <2> HIDE DEF x, one
  <2> DEFINE o == (l1 - (l0 + 1)) + 1
             two == one \o <<>>
  <2>13. Grows(w, v, ev0, l0 - 1, 1 + o, two) BY <2>5, <2>8, <2>9, GrowsThen DEF one
  <2>14. two = one BY <2>6
  <2>15. Grows(w, v, ev0, l0 - 1, 1 + o, one) BY <2>13, <2>14
  <2>16. Grows(w, x, ev0, l0 - 1, (1 + o) + 0, one \o rest) BY <2>8, <2>12, <2>15, GrowsThen
  <2>17. (1 + o) + 0 = (l1 + 1) - l0 BY <1>1
  <2> QED BY <1>3, <2>2, <2>3, <2>16, <2>17 DEF one
<1> QED BY <1>2, <1>3

\* The rows of replace_rect
LEMMA RowsReplace ==
    ASSUME Tidy(events), NEW l0 \in Nat \ {0}, NEW l1 \in Nat, l0 <= l1 + 1,
           l1 <= Count(events), NEW rows \in [l0 .. l1 -> Text]
    PROVE  Grown(ReplaceRows(l0, l1, rows), events)
<1> DEFINE L == (l1 - l0) + 1
           C == Count(events)
<1>1. L \in Nat /\ C \in Nat /\ L <= l1 BY FromFacts
<1>2. PICK d : /\ d[0] = Work(events)
               /\ \A i \in 1 .. L :
                    d[i] = ReplaceLineInner(d[i - 1], (l0 + i) - 1, rows[(l0 + i) - 1])
               /\ ReplaceRows(l0, l1, rows) = d[L]
  BY RowsInTurn
<1> DEFINE P(i) == Grown(d[i], events) /\ Count(d[i].ev) = C
           Q == {i \in 0 .. L : P(i)}
<1>4. P(0)
  <2>1. Work(events).ev = events BY DEF Work
  <2> QED BY <1>2, <2>1, WorkGrown
<1>5. ASSUME NEW i \in 1 .. L, P(i - 1) PROVE P(i)
  <2> DEFINE u == d[i - 1]
             k == (l0 + i) - 1
             t == rows[k]
  <2>1. k \in l0 .. l1 /\ k \in 1 .. C BY <1>1
  <2>2. Grown(u, events) /\ Count(u.ev) = C BY <1>5
  <2>3. d[i] = ReplaceLineInner(u, k, t) /\ t \in Text BY <1>2, <2>1
  <2> HIDE DEF u, k, t, C
  <2>4. Grows(u, ReplaceLineInner(u, k, t), events, k - 1, 1, <<t>>)
    BY <2>1, <2>2, <2>3, ReplacesLine
  <2> DEFINE x == ReplaceLineInner(u, k, t)
  <2> HIDE DEF x
  <2>8. Grown(x, events) /\ Count(x.ev) = (Count(u.ev) - 1) + Len(<<t>>)
    <3> DEFINE one == <<t>>
               p == k - 1
    <3>1. Grows(u, x, events, p, 1, one) BY <2>4 DEF x
    <3> HIDE DEF one, p
    <3>2. Grown(x, events) /\ Count(x.ev) = (Count(u.ev) - 1) + Len(one) BY <2>2, <3>1, GrowsFacts
    <3> QED BY <3>2 DEF one
  <2>5. Grown(d[i], events) /\ Count(d[i].ev) = (Count(u.ev) - 1) + Len(<<t>>)
    BY <2>3, <2>8 DEF x
  <2>6. Len(<<t>>) = 1 OBVIOUS
  <2>7. Count(d[i].ev) = C BY <1>1, <2>2, <2>5, <2>6
  <2> QED BY <2>5, <2>7
<1>6. P(L)
  <2> HIDE DEF P, L
  <2>1. 0 \in Q BY <1>1, <1>4
  <2>2. \A i \in 1 .. L : i - 1 \in Q => i \in Q BY <1>1, <1>5
  <2>3. \A i \in 0 .. L : i \in Q
    <3> HIDE DEF Q
    <3> QED BY <1>1, <2>1, <2>2, Climb
  <2> QED BY <1>1, <2>3
<1> QED BY <1>2, <1>6

\* Over a tidy overlay every edit is a splice.
LEMMA TidySplices ==
    ASSUME Tidy(events)
    PROVE  EditsAreSplices
<1> DEFINE w == Work(events)
           C == Count(events)
           x == View(Base, events)
<1>1. Grown(w, events) /\ w.ev = events BY WorkGrown DEF Work
<1>2. C \in Nat /\ Total = C /\ Now = x BY FromFacts DEF Total, Count, Now, ViewOf
<1>3. \A u : (CHOOSE y \in {View(Base, v.ev) : v \in {u}} : TRUE) = View(Base, u.ev) OBVIOUS
<1> HIDE DEF w, C, x
<1>4. ASSUME NEW u, NEW l0 \in Nat \ {0}, NEW l1 \in Nat, NEW parts,
             Grows(w, u, events, l0 - 1, (l1 + 1) - l0, parts)
      PROVE  View(Base, u.ev) = Spliced(x, l0, l1, parts)
  <2>1. Swaps(x, View(Base, u.ev), l0 - 1, (l1 + 1) - l0, parts) BY <1>1, <1>4 DEF Grows, x
  <2> DEFINE p == l0 - 1
             o == (l1 + 1) - l0
  <2>2. p = l0 - 1 /\ o = (l1 + 1) - l0 /\ Swaps(x, View(Base, u.ev), p, o, parts) BY <2>1
  <2> HIDE DEF p, o
  <2> QED BY <2>2, SwapsIs
<1>5. ASSUME NEW l \in 1 .. (C + 1), NEW t \in Text
      PROVE  View(Base, InsertLineInner(w, l, t).ev) = Spliced(x, l, l - 1, <<t>>)
  <2> DEFINE u == InsertLineInner(w, l, t)
  <2>1. l \in 1 .. (Count(w.ev) + 1) BY <1>1 DEF C
  <2>2. Grows(w, u, events, l - 1, 0, <<t>>) BY <1>1, <2>1, InsertsLine
  <2>3. ((l - 1) + 1) - l = 0 /\ l \in Nat \ {0} /\ l - 1 \in Nat BY <1>2
  <2> HIDE DEF u
  <2> DEFINE k == l - 1
  <2>4. Grows(w, u, events, l - 1, (k + 1) - l, <<t>>) /\ k \in Nat BY <2>2, <2>3
  <2> HIDE DEF k
  <2>5. View(Base, u.ev) = Spliced(x, l, k, <<t>>) BY <1>4, <2>3, <2>4
  <2> QED BY <2>5 DEF u, k
<1>6. ASSUME NEW l \in 1 .. C
      PROVE  View(Base, DeleteLineInner(w, l).ev) = Spliced(x, l, l, <<>>)
  <2> DEFINE u == DeleteLineInner(w, l)
  <2>1. l \in 1 .. Count(w.ev) BY <1>1 DEF C
  <2>2. Grows(w, u, events, l - 1, 1, <<>>) BY <1>1, <2>1, DeletesLine
  <2>3. (l + 1) - l = 1 /\ l \in Nat \ {0} /\ l \in Nat BY <1>2
  <2> HIDE DEF u
  <2>4. Grows(w, u, events, l - 1, (l + 1) - l, <<>>) BY <2>2, <2>3
  <2>5. View(Base, u.ev) = Spliced(x, l, l, <<>>) BY <1>4, <2>3, <2>4
  <2> QED BY <2>5 DEF u
<1>7. ASSUME NEW l \in 1 .. C, NEW t \in Text
      PROVE  View(Base, ReplaceLineInner(w, l, t).ev) = Spliced(x, l, l, <<t>>)
  <2> DEFINE u == ReplaceLineInner(w, l, t)
  <2>1. l \in 1 .. Count(w.ev) BY <1>1 DEF C
  <2>2. Grows(w, u, events, l - 1, 1, <<t>>) BY <1>1, <2>1, ReplacesLine
  <2>3. (l + 1) - l = 1 /\ l \in Nat \ {0} /\ l \in Nat BY <1>2
  <2> HIDE DEF u
  <2>4. Grows(w, u, events, l - 1, (l + 1) - l, <<t>>) BY <2>2, <2>3
  <2>5. View(Base, u.ev) = Spliced(x, l, l, <<t>>) BY <1>4, <2>3, <2>4
  <2> QED BY <2>5 DEF u
<1>8. ASSUME NEW l1 \in 1 .. C, NEW l0 \in 1 .. l1, NEW parts \in Pastes
      PROVE  View(Base, ReplaceRangeInner(w, l0, l1, parts).ev) = Spliced(x, l0, l1, parts)
  <2> DEFINE u == ReplaceRangeInner(w, l0, l1, parts)
  <2>1. parts \in Seq(Text) /\ parts # <<>> BY PastesAssumption
  <2>2. l0 \in Nat \ {0} /\ l1 \in Nat /\ l0 <= l1 /\ l1 <= C /\ C # 0 BY <1>2
  <2>3. Within(w.ev, l0, l1) /\ Count(w.ev) # 0 BY <1>1, <2>2 DEF Within, C
  <2>4. Grows(w, u, events, l0 - 1, (l1 + 1) - l0, parts) BY <1>1, <2>1, <2>3, RangeReplaces
  <2> HIDE DEF u
  <2>5. View(Base, u.ev) = Spliced(x, l0, l1, parts) BY <1>4, <2>2, <2>4
  <2> QED BY <2>5 DEF u
<1> QED BY <1>2, <1>3, <1>5, <1>6, <1>7, <1>8 DEF EditsAreSplices, Of, w

-----------------------------------------------------------------------------
(* The inductive invariant: v[g] is the overlay that the generation g was   *)
(* given for, whatever has been undone and redone since.                    *)

Entries == [ops : Seq(Ops), gen : Nat]

\* From the generation gen the stack leads from overlay to overlay.
Chained(stack, v, gen, limit) ==
    /\ stack \in Seq(Entries) /\ Len(stack) <= HistoryLimit
    /\ \A k \in 1 .. Len(stack) :
          /\ stack[k].gen < limit
          /\ Leads(stack[k].ops, v[IF k = 1 THEN gen ELSE stack[k - 1].gen], v[stack[k].gen])

IInv(v) ==
    /\ content_gen \in Nat /\ next_gen \in Nat /\ saved_gen \in Nat
    /\ content_gen < next_gen /\ saved_gen < next_gen
    /\ \A g \in Nat : Tidy(v[g])
    /\ events = v[content_gen] /\ saved_events = v[saved_gen]
    /\ saving # None => /\ saving.gen \in Nat /\ saving.gen < next_gen
                        /\ saving.ev = v[saving.gen]
    /\ Chained(undo, v, content_gen, next_gen)
    /\ Chained(redo, v, content_gen, next_gen)

\* What a step can do to a session.
Edited(ev, rec) ==
    /\ rec # <<>> /\ Leads(rec, ev, events)
    /\ events' = ev
    /\ undo' = History!Push(undo, [ops |-> rec, gen |-> content_gen]) /\ redo' = <<>>
    /\ content_gen' = next_gen /\ next_gen' = next_gen + 1
    /\ UNCHANGED <<saved_gen, saved_events, saving>>

LEMMA CommitIs ==
    ASSUME NEW w, Grown(w, events), Commit(w)
    PROVE  UNCHANGED vars \/ Edited(w.ev, w.rec)
<1>1. Leads(w.rec, w.ev, events) BY DEF Grown
<1>2. CASE w.rec = <<>>
  <2>1. w.ev = events BY <1>1, <1>2, LeadsEmpty
  <2> QED BY <1>2, <2>1 DEF Commit, vars
<1>3. CASE w.rec # <<>> BY <1>1, <1>3 DEF Commit, Edited
<1> QED BY <1>2, <1>3

LEMMA AcceptsWithin ==
    ASSUME NEW ev, Tidy(ev), NEW l0 \in Lines, NEW l1 \in Lines, Accepts(ev, l0, l1)
    PROVE  Within(ev, l0, l1)
<1>1. l0 \in Nat \ {0} /\ l1 \in Nat BY OverlayBoundsAssumption DEF Lines
<1>2. TotalLines(Base, ev) = Count(ev) BY DEF Count
<1> QED BY <1>1, <1>2 DEF Accepts, Within

LEMMA EditFacts ==
    ASSUME NEW e \in Edits
    PROVE  /\ e.l0 \in Lines /\ e.l1 \in Lines
           /\ e.parts \in Seq(Text) /\ e.parts # <<>>
BY PastesAssumption DEF Edits

\* Every step but undo, redo and those of a save changes nothing or commits
\* what its record takes back.
LEMMA EditsCommit ==
    ASSUME Tidy(events),
           \/ \E l \in Lines, t \in Text : ReplaceLine(l, t) \/ InsertLine(l, t)
           \/ \E l \in Lines : DeleteLine(l)
           \/ \E e \in Edits : ReplaceRange(e.l0, e.l1, e.parts)
           \/ \E upper, lower \in Edits : ReplaceBatch(upper, lower)
           \/ \E l0, l1 \in Lines : \E rows \in [l0..l1 -> Text] : ReplaceRect(l0, l1, rows)
    PROVE  UNCHANGED vars \/ \E ev, rec : Edited(ev, rec)
<1> DEFINE w == Work(events)
<1>1. Grown(w, events) /\ w.ev = events BY WorkGrown DEF Work
<1>2. Count(events) \in Nat /\ Total = Count(events) BY FromFacts DEF Total, Count
<1>3. \A l \in Lines : l \in Nat /\ l >= 1 BY OverlayBoundsAssumption DEF Lines
<1>0. \A u : Grown(u, events) /\ Commit(u) => UNCHANGED vars \/ \E ev, rec : Edited(ev, rec)
  BY CommitIs
<1> HIDE DEF w
<1>4. ASSUME NEW l \in Lines, NEW t \in Text, ReplaceLine(l, t)
      PROVE  UNCHANGED vars \/ \E ev, rec : Edited(ev, rec)
  <2> DEFINE u == ReplaceLineInner(w, l, t)
  <2>1. l \in 1 .. Count(w.ev) BY <1>1, <1>2, <1>3, <1>4 DEF ReplaceLine
  <2>2. Grown(u, events) BY <1>1, <2>1, ReplacesLine DEF Grows
  <2>3. Commit(u) BY <1>4 DEF ReplaceLine, w
  <2> HIDE DEF u
  <2> QED BY <1>0, <2>2, <2>3
<1>5. ASSUME NEW l \in Lines, NEW t \in Text, InsertLine(l, t)
      PROVE  UNCHANGED vars \/ \E ev, rec : Edited(ev, rec)
  <2> DEFINE u == InsertLineInner(w, l, t)
  <2>1. l \in 1 .. (Count(w.ev) + 1) BY <1>1, <1>2, <1>3, <1>5 DEF InsertLine
  <2>2. Grown(u, events) BY <1>1, <2>1, InsertsLine DEF Grows
  <2>3. Commit(u) BY <1>5 DEF InsertLine, w
  <2> HIDE DEF u
  <2> QED BY <1>0, <2>2, <2>3
<1>6. ASSUME NEW l \in Lines, DeleteLine(l)
      PROVE  UNCHANGED vars \/ \E ev, rec : Edited(ev, rec)
  <2> DEFINE u == DeleteLineInner(w, l)
  <2>1. l \in 1 .. Count(w.ev) BY <1>1, <1>2, <1>3, <1>6 DEF DeleteLine
  <2>2. Grown(u, events) BY <1>1, <2>1, DeletesLine DEF Grows
  <2>3. Commit(u) BY <1>6 DEF DeleteLine, w
  <2> HIDE DEF u
  <2> QED BY <1>0, <2>2, <2>3
<1>7. ASSUME NEW e \in Edits, ReplaceRange(e.l0, e.l1, e.parts)
      PROVE  UNCHANGED vars \/ \E ev, rec : Edited(ev, rec)
  <2> DEFINE u == ReplaceRangeInner(w, e.l0, e.l1, e.parts)
  <2>1. e.l0 \in Lines /\ e.l1 \in Lines /\ e.parts \in Seq(Text) /\ e.parts # <<>> BY EditFacts
  <2>2. Within(w.ev, e.l0, e.l1) BY <1>1, <1>7, <2>1, AcceptsWithin DEF ReplaceRange
  <2>3. Grown(u, events) BY <1>1, <2>1, <2>2, RangeReplaces DEF Grows
  <2>4. Commit(u) BY <1>7 DEF ReplaceRange, w
  <2> HIDE DEF u
  <2> QED BY <1>0, <2>3, <2>4
<1>8. ASSUME NEW upper \in Edits, NEW lower \in Edits, ReplaceBatch(upper, lower)
      PROVE  UNCHANGED vars \/ \E ev, rec : Edited(ev, rec)
  <2> DEFINE half == ReplaceRangeInner(w, lower.l0, lower.l1, lower.parts)
             u == ReplaceRangeInner(half, upper.l0, upper.l1, upper.parts)
  <2>1. /\ lower.l0 \in Lines /\ lower.l1 \in Lines /\ lower.parts \in Seq(Text) /\ lower.parts # <<>>
        /\ upper.l0 \in Lines /\ upper.l1 \in Lines /\ upper.parts \in Seq(Text) /\ upper.parts # <<>>
    BY EditFacts
  <2>2. Within(w.ev, lower.l0, lower.l1) BY <1>1, <1>8, <2>1, AcceptsWithin DEF ReplaceBatch
  <2>3. Grown(half, events) BY <1>1, <2>1, <2>2, RangeReplaces DEF Grows
  <2>4. IF Accepts(half.ev, upper.l0, upper.l1) THEN Commit(u)
        ELSE /\ events' = ApplyRecord(half.ev, half.rec).ev
             /\ UNCHANGED <<undo, redo, content_gen, next_gen, saved_gen, saved_events, saving>>
    BY <1>8 DEF ReplaceBatch, w
  <2> HIDE DEF half
  <2>5. CASE Accepts(half.ev, upper.l0, upper.l1)
    <3>1. Within(half.ev, upper.l0, upper.l1) BY <2>1, <2>3, <2>5, AcceptsWithin, GrownTidy
    <3>2. Grown(u, events) BY <2>1, <2>3, <3>1, RangeReplaces DEF Grows
    <3> HIDE DEF u
    <3> QED BY <1>0, <2>4, <2>5, <3>2
  <2>6. CASE ~Accepts(half.ev, upper.l0, upper.l1)
    <3>1. ApplyRecord(half.ev, half.rec).ev = events BY <2>3, LeadsBack DEF Grown
    <3> QED BY <2>4, <2>6, <3>1 DEF vars
  <2> QED BY <2>5, <2>6
<1>9. ASSUME NEW l0 \in Lines, NEW l1 \in Lines, NEW rows \in [l0..l1 -> Text],
             ReplaceRect(l0, l1, rows)
      PROVE  UNCHANGED vars \/ \E ev, rec : Edited(ev, rec)
  <2> DEFINE u == ReplaceRows(l0, l1, rows)
  <2>1. l0 \in Nat \ {0} /\ l1 \in Nat /\ l0 <= l1 + 1 /\ l1 <= Count(events)
    BY <1>2, <1>3, <1>9 DEF ReplaceRect
  <2>2. Grown(u, events) BY <2>1, RowsReplace
  <2>3. Commit(u) BY <1>9 DEF ReplaceRect
  <2> HIDE DEF u
  <2> QED BY <1>0, <2>2, <2>3
<1> QED BY <1>4, <1>5, <1>6, <1>7, <1>8, <1>9

\* push_history and the removal of the top.
LEMMA PushFacts ==
    ASSUME NEW T, NEW stack \in Seq(T), Len(stack) <= HistoryLimit, NEW e \in T
    PROVE  LET n == History!Push(stack, e) IN
           /\ n \in Seq(T) /\ Len(n) <= HistoryLimit /\ Len(n) >= 1
           /\ n[1] = e /\ Len(n) <= Len(stack) + 1
           /\ \A k \in 2 .. Len(n) : n[k] = stack[k - 1] /\ k - 1 \in 1 .. Len(stack)
<1> DEFINE L == IF Len(stack) < HistoryLimit THEN Len(stack) + 1 ELSE Len(stack)
           n == [i \in 1 .. L |-> IF i = 1 THEN e ELSE stack[i - 1]]
<1>1. /\ L \in Nat /\ L >= 1 /\ L <= HistoryLimit /\ L <= Len(stack) + 1 /\ Len(stack) \in Nat
      /\ HistoryLimit \in Nat
  BY OverlayBoundsAssumption
<1>2. \A i \in 2 .. L : i - 1 \in 1 .. Len(stack) BY <1>1
<1> HIDE DEF L
<1>3. \A i \in 1 .. L : n[i] = (IF i = 1 THEN e ELSE stack[i - 1]) /\ n[i] \in T
  <2> TAKE i \in 1 .. L
  <2>1. i = 1 \/ i \in 2 .. L BY <1>1
  <2> QED BY <1>2, <2>1
<1>4. n \in Seq(T) /\ Len(n) = L BY <1>1, <1>3
<1>5. History!Push(stack, e) = n BY DEF History!Push, L
<1> HIDE DEF n
<1>6. n[1] = e /\ \A k \in 2 .. L : n[k] = stack[k - 1] BY <1>1, <1>3
<1> QED BY <1>1, <1>2, <1>4, <1>5, <1>6

LEMMA PopFacts ==
    ASSUME NEW T, NEW stack \in Seq(T), stack # <<>>
    PROVE  LET n == History!Pop(stack) IN
           /\ n \in Seq(T) /\ Len(n) = Len(stack) - 1
           /\ \A k \in 1 .. Len(n) : n[k] = stack[k + 1] /\ k + 1 \in 1 .. Len(stack)
<1> DEFINE n == [i \in 1 .. (Len(stack) - 1) |-> stack[i + 1]]
<1>1. Len(stack) \in Nat \ {0} OBVIOUS
<1>2. History!Pop(stack) = n BY DEF History!Pop
<1>3. \A i \in 1 .. (Len(stack) - 1) : i + 1 \in 1 .. Len(stack) /\ n[i] = stack[i + 1] /\ n[i] \in T
  BY <1>1
<1>4. n \in Seq(T) /\ Len(n) = Len(stack) - 1 BY <1>1, <1>3
<1> HIDE DEF n
<1> QED BY <1>2, <1>3, <1>4

\* The top of a stack, and what is left below it.
LEMMA ChainPush ==
    ASSUME NEW stack, NEW v, NEW gen \in Nat, NEW limit \in Nat, Chained(stack, v, gen, limit),
           NEW u, NEW here \in Nat, NEW top \in Nat, top >= limit, gen < limit,
           NEW rec, Leads(rec, u[here], u[gen]),
           \A g \in Nat : g < limit => u[g] = v[g]
    PROVE  Chained(History!Push(stack, [ops |-> rec, gen |-> gen]), u, here, top)
<1> DEFINE e == [ops |-> rec, gen |-> gen]
           n == History!Push(stack, e)
<1>1. stack \in Seq(Entries) /\ Len(stack) <= HistoryLimit BY DEF Chained
<1>2. e \in Entries /\ e.ops = rec /\ e.gen = gen BY DEF Entries, Leads
<1> HIDE DEF e
<1>3. /\ n \in Seq(Entries) /\ Len(n) <= HistoryLimit /\ n[1] = e
      /\ \A k \in 2 .. Len(n) : n[k] = stack[k - 1] /\ k - 1 \in 1 .. Len(stack)
  BY <1>1, <1>2, PushFacts, ZenonT(60)
<1>7. \A k \in 1 .. Len(stack) :
        /\ stack[k].gen < limit
        /\ Leads(stack[k].ops, v[IF k = 1 THEN gen ELSE stack[k - 1].gen], v[stack[k].gen])
  BY DEF Chained
<1>8. \A k \in 1 .. Len(stack) : stack[k].gen \in Nat
  <2> TAKE k \in 1 .. Len(stack)
  <2>1. stack[k] \in Entries BY <1>1
  <2> QED BY <2>1 DEF Entries
<1>4. \A k \in 1 .. Len(stack) :
        /\ stack[k].gen \in Nat /\ stack[k].gen < limit
        /\ Leads(stack[k].ops, v[IF k = 1 THEN gen ELSE stack[k - 1].gen], v[stack[k].gen])
  BY <1>7, <1>8
<1> HIDE DEF n
<1>5. ASSUME NEW k \in 1 .. Len(n)
      PROVE  /\ n[k].gen < top
             /\ Leads(n[k].ops, u[IF k = 1 THEN here ELSE n[k - 1].gen], u[n[k].gen])
  <2>1. CASE k = 1 BY <1>2, <1>3, <2>1
  <2>2. CASE k # 1
    <3> DEFINE j == k - 1
               from == IF j = 1 THEN gen ELSE stack[j - 1].gen
    <3>1. k \in 2 .. Len(n) /\ j \in 1 .. Len(stack) /\ n[k] = stack[j] BY <1>3, <2>2
    <3>2. stack[j].gen \in Nat /\ stack[j].gen < limit /\ Leads(stack[j].ops, v[from], v[stack[j].gen])
      BY <1>4, <3>1
    <3>3. n[j].gen = from /\ from \in Nat /\ from < limit
      <4>1. CASE j = 1 BY <1>2, <1>3, <4>1
      <4>2. CASE j # 1
        <5>1. j \in 2 .. Len(n) /\ j - 1 \in 1 .. Len(stack) BY <1>3, <3>1, <4>2, SMTT(30)
        <5> QED BY <1>3, <1>4, <4>2, <5>1
      <4> QED BY <4>1, <4>2
    <3> HIDE DEF from
    <3>4. u[from] = v[from] /\ u[stack[j].gen] = v[stack[j].gen] BY <3>2, <3>3
    <3>5. n[k].gen < top BY <3>1, <3>2
    <3> QED BY <2>2, <3>1, <3>2, <3>3, <3>4, <3>5
  <2> QED BY <2>1, <2>2
<1>6. Chained(n, u, here, top) BY <1>3, <1>5 DEF Chained
<1> QED BY <1>6 DEF n, e

LEMMA ChainPop ==
    ASSUME NEW stack, NEW v, NEW gen, NEW limit, Chained(stack, v, gen, limit), stack # <<>>
    PROVE  /\ stack[1] \in Entries /\ stack[1].gen < limit
           /\ Leads(stack[1].ops, v[gen], v[stack[1].gen])
           /\ Chained(History!Pop(stack), v, stack[1].gen, limit)
<1> DEFINE n == History!Pop(stack)
<1>1. stack \in Seq(Entries) /\ Len(stack) <= HistoryLimit BY DEF Chained
<1>2. /\ n \in Seq(Entries) /\ Len(n) = Len(stack) - 1
      /\ \A k \in 1 .. Len(n) : n[k] = stack[k + 1] /\ k + 1 \in 1 .. Len(stack)
  BY <1>1, PopFacts
<1>3. \A k \in 1 .. Len(stack) :
        /\ stack[k].gen < limit
        /\ Leads(stack[k].ops, v[IF k = 1 THEN gen ELSE stack[k - 1].gen], v[stack[k].gen])
  BY DEF Chained
<1>4. 1 \in 1 .. Len(stack) /\ Len(stack) \in Nat BY <1>1
<1> HIDE DEF n
<1>5. stack[1] \in Entries /\ stack[1].gen < limit /\ Leads(stack[1].ops, v[gen], v[stack[1].gen])
  BY <1>1, <1>3, <1>4
<1>6. ASSUME NEW k \in 1 .. Len(n)
      PROVE  /\ n[k].gen < limit
             /\ Leads(n[k].ops, v[IF k = 1 THEN stack[1].gen ELSE n[k - 1].gen], v[n[k].gen])
  <2> DEFINE j == k + 1
  <2>1. j \in 1 .. Len(stack) /\ n[k] = stack[j] /\ j # 1 /\ j - 1 = k BY <1>2
  <2>2. stack[j].gen < limit /\ Leads(stack[j].ops, v[stack[k].gen], v[stack[j].gen]) BY <1>3, <2>1
  <2>3. stack[k].gen = IF k = 1 THEN stack[1].gen ELSE n[k - 1].gen
    <3>1. CASE k = 1 BY <3>1
    <3>2. CASE k # 1
      <4>1. k - 1 \in 1 .. Len(n) /\ (k - 1) + 1 = k BY <1>2, <3>2
      <4> QED BY <1>2, <3>2, <4>1
    <3> QED BY <3>1, <3>2
  <2> QED BY <2>1, <2>2, <2>3
<1>7. Len(n) <= HistoryLimit BY <1>1, <1>2, <1>4, OverlayBoundsAssumption
<1>8. Chained(n, v, stack[1].gen, limit) BY <1>2, <1>6, <1>7 DEF Chained
<1> QED BY <1>5, <1>8 DEF n

LEMMA OvInit == Init => \E v : IInv(v)
<1> SUFFICES ASSUME Init PROVE \E v : IInv(v) OBVIOUS
<1> DEFINE none == <<>>
           v == [g \in Nat |-> none]
<1>1. Tidy(none)
  <2>1. none = [a \in DOMAIN none |-> none[a]] /\ DOMAIN none = {} OBVIOUS
  <2> QED BY <2>1 DEF Tidy
<1>2. \A limit : Chained(<<>>, v, 0, limit)
  <2>1. <<>> \in Seq(Entries) /\ Len(<<>>) = 0 /\ 0 <= HistoryLimit BY OverlayBoundsAssumption
  <2> QED BY <2>1 DEF Chained
<1> HIDE DEF none
<1>3. \A g \in Nat : v[g] = none OBVIOUS
<1>4. events = none /\ saved_events = none BY DEF Init, none
<1> HIDE DEF v
<1>5. IInv(v) BY <1>1, <1>2, <1>3, <1>4 DEF Init, IInv
<1> QED BY <1>5

\* What each kind of step does to the invariant: u tells the overlays after it.
Kept(v, u) == \A g \in Nat : g < next_gen => u[g] = v[g]

LEMMA EditedKeeps ==
    ASSUME NEW v, IInv(v), NEW ev, NEW rec, Edited(ev, rec)
    PROVE  \E u : IInv(u)' /\ Kept(v, u)
<1>1. PICK n : n = next_gen OBVIOUS
<1>2. PICK c : c = content_gen OBVIOUS
<1>3. n \in Nat /\ c \in Nat /\ c < n /\ saved_gen \in Nat /\ saved_gen < n
  BY <1>1, <1>2 DEF IInv
<1>4. Leads(rec, ev, events) /\ events = v[c] BY <1>2 DEF Edited, IInv
<1>5. PICK u : /\ u[n] = ev /\ \A g \in Nat : g < n => u[g] = v[g]
               /\ \A g \in Nat : Tidy(u[g])
  <2>1. PICK e : e = ev OBVIOUS
  <2> DEFINE u == [g \in Nat |-> IF g = n THEN e ELSE v[g]]
  <2>2. Tidy(e) BY <1>4, <2>1, LeadsEnds
  <2>3. \A g \in Nat : Tidy(v[g]) BY DEF IInv
  <2>4. \A g \in Nat : Tidy(u[g]) BY <2>2, <2>3
  <2>5. u[n] = ev /\ \A g \in Nat : g < n => u[g] = v[g] BY <1>3, <2>1
  <2> HIDE DEF u
  <2> QED BY <2>4, <2>5
<1>6. /\ events' = ev /\ redo' = <<>> /\ content_gen' = n /\ next_gen' = n + 1
      /\ undo' = History!Push(undo, [ops |-> rec, gen |-> c])
      /\ saved_gen' = saved_gen /\ saved_events' = saved_events /\ saving' = saving
  BY <1>1, <1>2 DEF Edited
<1>7. Chained(undo, v, c, n) BY <1>1, <1>2 DEF IInv
<1>8. PICK top : top = n + 1 OBVIOUS
<1>9. top \in Nat /\ top >= n /\ n < top /\ saved_gen < top BY <1>3, <1>8
<1>10. Chained(undo', u, n, top)
  <2>1. Leads(rec, u[n], u[c]) BY <1>3, <1>4, <1>5
  <2>2. Chained(History!Push(undo, [ops |-> rec, gen |-> c]), u, n, top)
    BY <1>3, <1>5, <1>7, <1>9, <2>1, ChainPush
  <2> QED BY <1>6, <2>2
<1>11. Chained(redo', u, n, top)
  <2>1. <<>> \in Seq(Entries) /\ Len(<<>>) = 0 /\ 0 <= HistoryLimit BY OverlayBoundsAssumption
  <2> QED BY <1>6, <2>1 DEF Chained
<1>12. events' = u[n] /\ saved_events' = u[saved_gen]
  <2>1. saved_events = v[saved_gen] BY DEF IInv
  <2> QED BY <1>3, <1>5, <1>6, <2>1
<1>13. saving' # None => /\ saving'.gen \in Nat /\ saving'.gen < top
                         /\ saving'.ev = u[saving'.gen]
  <2> HAVE saving' # None
  <2>1. saving.gen \in Nat /\ saving.gen < n /\ saving.ev = v[saving.gen] BY <1>1, <1>6 DEF IInv
  <2>2. u[saving.gen] = v[saving.gen] BY <1>5, <2>1
  <2>3. saving.gen < top BY <1>3, <1>8, <2>1
  <2> QED BY <1>6, <2>1, <2>2, <2>3
<1>14. content_gen' = n /\ next_gen' = top /\ saved_gen' = saved_gen BY <1>6, <1>8
<1>15. IInv(u)'
  BY <1>3, <1>5, <1>9, <1>10, <1>11, <1>12, <1>13, <1>14 DEF IInv
<1>16. Kept(v, u) BY <1>1, <1>5 DEF Kept
<1> QED BY <1>15, <1>16

\* What undo and redo do, without the walk.
LEMMA UndoIs ==
    ASSUME NEW v, IInv(v), Undo
    PROVE  \E rec :
             /\ undo # <<>> /\ undo[1] \in Entries /\ undo[1].gen < next_gen
             /\ events' = v[undo[1].gen] /\ content_gen' = undo[1].gen
             /\ Leads(rec, v[undo[1].gen], v[content_gen])
             /\ redo' = History!Push(redo, [ops |-> rec, gen |-> content_gen])
             /\ undo' = History!Pop(undo)
             /\ UNCHANGED <<next_gen, saved_gen, saved_events, saving>>
<1> DEFINE back == ApplyRecord(events, undo[1].ops)
<1>1. undo # <<>> /\ Chained(undo, v, content_gen, next_gen) /\ events = v[content_gen]
  BY DEF Undo, IInv
<1>2. /\ undo[1] \in Entries /\ undo[1].gen < next_gen
      /\ Leads(undo[1].ops, v[content_gen], v[undo[1].gen])
  BY <1>1, ChainPop
<1>3. back.ev = v[undo[1].gen] /\ Leads(back.rec, v[undo[1].gen], v[content_gen])
  BY <1>1, <1>2, LeadsBack
<1>4. /\ events' = back.ev /\ redo' = History!Push(redo, [ops |-> back.rec, gen |-> content_gen])
      /\ content_gen' = undo[1].gen /\ undo' = History!Pop(undo)
      /\ UNCHANGED <<next_gen, saved_gen, saved_events, saving>>
  BY DEF Undo
<1> HIDE DEF back
<1> QED BY <1>1, <1>2, <1>3, <1>4

LEMMA RedoIs ==
    ASSUME NEW v, IInv(v), Redo
    PROVE  \E rec :
             /\ redo # <<>> /\ redo[1] \in Entries /\ redo[1].gen < next_gen
             /\ events' = v[redo[1].gen] /\ content_gen' = redo[1].gen
             /\ Leads(rec, v[redo[1].gen], v[content_gen])
             /\ undo' = History!Push(undo, [ops |-> rec, gen |-> content_gen])
             /\ redo' = History!Pop(redo)
             /\ UNCHANGED <<next_gen, saved_gen, saved_events, saving>>
<1> DEFINE back == ApplyRecord(events, redo[1].ops)
<1>1. redo # <<>> /\ Chained(redo, v, content_gen, next_gen) /\ events = v[content_gen]
  BY DEF Redo, IInv
<1>2. /\ redo[1] \in Entries /\ redo[1].gen < next_gen
      /\ Leads(redo[1].ops, v[content_gen], v[redo[1].gen])
  BY <1>1, ChainPop
<1>3. back.ev = v[redo[1].gen] /\ Leads(back.rec, v[redo[1].gen], v[content_gen])
  BY <1>1, <1>2, LeadsBack
<1>4. /\ events' = back.ev /\ undo' = History!Push(undo, [ops |-> back.rec, gen |-> content_gen])
      /\ content_gen' = redo[1].gen /\ redo' = History!Pop(redo)
      /\ UNCHANGED <<next_gen, saved_gen, saved_events, saving>>
  BY DEF Redo
<1> HIDE DEF back
<1> QED BY <1>1, <1>2, <1>3, <1>4

LEMMA UndoKeeps ==
    ASSUME NEW v, IInv(v), Undo
    PROVE  IInv(v)'
<1> DEFINE c == content_gen
           n == next_gen
           b == undo[1].gen
<1>1. PICK rec :
             /\ undo # <<>> /\ undo[1] \in Entries /\ b < n
             /\ events' = v[b] /\ content_gen' = b
             /\ Leads(rec, v[b], v[c])
             /\ redo' = History!Push(redo, [ops |-> rec, gen |-> c])
             /\ undo' = History!Pop(undo)
             /\ UNCHANGED <<next_gen, saved_gen, saved_events, saving>>
  BY UndoIs
<1>2. c \in Nat /\ n \in Nat /\ c < n /\ b \in Nat BY <1>1 DEF IInv, Entries
<1>3. Chained(undo, v, c, n) /\ Chained(redo, v, c, n) BY DEF IInv
<1>4. Chained(undo', v, b, n) BY <1>1, <1>3, ChainPop
<1>5. Chained(redo', v, b, n)
  <2>1. n >= n /\ \A g \in Nat : g < n => v[g] = v[g] BY <1>2
  <2> HIDE DEF n, c, b
  <2>2. Chained(History!Push(redo, [ops |-> rec, gen |-> c]), v, b, n)
    BY <1>1, <1>2, <1>3, <2>1, ChainPush
  <2> QED BY <1>1, <2>2
<1>6. next_gen' = n /\ saved_gen' = saved_gen /\ saved_events' = saved_events /\ saving' = saving
  BY <1>1
<1>7. /\ saved_gen \in Nat /\ saved_gen < n /\ saved_events = v[saved_gen]
      /\ \A g \in Nat : Tidy(v[g])
      /\ saving # None => saving.gen \in Nat /\ saving.gen < n /\ saving.ev = v[saving.gen]
  BY DEF IInv
<1> HIDE DEF n, c, b
<1> QED BY <1>1, <1>2, <1>4, <1>5, <1>6, <1>7 DEF IInv

LEMMA RedoKeeps ==
    ASSUME NEW v, IInv(v), Redo
    PROVE  IInv(v)'
<1> DEFINE c == content_gen
           n == next_gen
           b == redo[1].gen
<1>1. PICK rec :
             /\ redo # <<>> /\ redo[1] \in Entries /\ b < n
             /\ events' = v[b] /\ content_gen' = b
             /\ Leads(rec, v[b], v[c])
             /\ undo' = History!Push(undo, [ops |-> rec, gen |-> c])
             /\ redo' = History!Pop(redo)
             /\ UNCHANGED <<next_gen, saved_gen, saved_events, saving>>
  BY RedoIs
<1>2. c \in Nat /\ n \in Nat /\ c < n /\ b \in Nat BY <1>1 DEF IInv, Entries
<1>3. Chained(undo, v, c, n) /\ Chained(redo, v, c, n) BY DEF IInv
<1>4. Chained(redo', v, b, n) BY <1>1, <1>3, ChainPop
<1>5. Chained(undo', v, b, n)
  <2>1. n >= n /\ \A g \in Nat : g < n => v[g] = v[g] BY <1>2
  <2> HIDE DEF n, c, b
  <2>2. Chained(History!Push(undo, [ops |-> rec, gen |-> c]), v, b, n)
    BY <1>1, <1>2, <1>3, <2>1, ChainPush
  <2> QED BY <1>1, <2>2
<1>6. next_gen' = n /\ saved_gen' = saved_gen /\ saved_events' = saved_events /\ saving' = saving
  BY <1>1
<1>7. /\ saved_gen \in Nat /\ saved_gen < n /\ saved_events = v[saved_gen]
      /\ \A g \in Nat : Tidy(v[g])
      /\ saving # None => saving.gen \in Nat /\ saving.gen < n /\ saving.ev = v[saving.gen]
  BY DEF IInv
<1> HIDE DEF n, c, b
<1> QED BY <1>1, <1>2, <1>4, <1>5, <1>6, <1>7 DEF IInv

\* A save takes its snapshot along, whatever is edited meanwhile.
LEMMA SavesKeep ==
    ASSUME NEW v, IInv(v), SaveBegin \/ SaveCommit \/ SaveFails
    PROVE  IInv(v)'
<1>1. CASE SaveBegin
  <2>1. saving' = [ev |-> events, gen |-> content_gen]
        /\ UNCHANGED <<events, undo, redo, content_gen, next_gen, saved_gen, saved_events>>
    BY <1>1 DEF SaveBegin
  <2>2. saving'.gen = content_gen /\ saving'.ev = events BY <2>1
  <2> QED BY <2>1, <2>2 DEF IInv
<1>2. CASE SaveCommit
  <2>1. saving # None /\ saving' = None /\ saved_gen' = saving.gen /\ saved_events' = saving.ev
        /\ UNCHANGED <<events, undo, redo, content_gen, next_gen>>
    BY <1>2 DEF SaveCommit, Saved
  <2> QED BY <2>1 DEF IInv
<1>3. CASE SaveFails
  <2>1. saving' = None
        /\ UNCHANGED <<events, undo, redo, content_gen, next_gen, saved_gen, saved_events>>
    BY <1>3 DEF SaveFails
  <2> QED BY <2>1 DEF IInv
<1> QED BY <1>1, <1>2, <1>3

LEMMA OvStep ==
    ASSUME NEW v, IInv(v), [Next]_vars
    PROVE  \E u : IInv(u)' /\ Kept(v, u)
<1>1. Tidy(events) BY DEF IInv
<1>2. Kept(v, v) BY DEF Kept
<1>3. CASE UNCHANGED vars
  <2>1. /\ events' = events /\ undo' = undo /\ redo' = redo /\ content_gen' = content_gen
        /\ next_gen' = next_gen /\ saved_gen' = saved_gen /\ saved_events' = saved_events
        /\ saving' = saving
    BY <1>3 DEF vars
  <2>2. IInv(v)' BY <2>1 DEF IInv
  <2> QED BY <1>2, <2>2
<1>4. ASSUME NEW ev, NEW rec, Edited(ev, rec) PROVE \E u : IInv(u)' /\ Kept(v, u)
  BY <1>4, EditedKeeps
<1>5. CASE Undo BY <1>2, <1>5, UndoKeeps
<1>6. CASE Redo BY <1>2, <1>6, RedoKeeps
<1>7. CASE SaveBegin \/ SaveCommit \/ SaveFails BY <1>2, <1>7, SavesKeep
<1>8. \/ \E l \in Lines, t \in Text : ReplaceLine(l, t) \/ InsertLine(l, t)
      \/ \E l \in Lines : DeleteLine(l)
      \/ \E e \in Edits : ReplaceRange(e.l0, e.l1, e.parts)
      \/ \E upper, lower \in Edits : ReplaceBatch(upper, lower)
      \/ \E l0, l1 \in Lines : \E rows \in [l0..l1 -> Text] : ReplaceRect(l0, l1, rows)
      => UNCHANGED vars \/ \E ev, rec : Edited(ev, rec)
  BY <1>1, EditsCommit
<1> QED BY <1>3, <1>4, <1>5, <1>6, <1>7, <1>8 DEF Next

-----------------------------------------------------------------------------
(* What holds in every state.                                              *)

Sound == \E v : IInv(v)

\* However edits, undos, redos, refused batches and saves have followed one
\* another, every generation still reachable has one overlay, normal and
\* well typed, and each stack leads from the live one through the others.
THEOREM OvInvariance == Spec => []Sound
<1>1. Init => Sound BY OvInit DEF Sound
<1>2. Sound /\ [Next]_vars => Sound' BY OvStep DEF Sound
<1> QED BY <1>1, <1>2, PTL DEF Spec

LEMMA TidyIsOverlay == \A ev : Tidy(ev) => IsOverlay(ev)
<1> TAKE ev
<1> HAVE Tidy(ev)
<1>1. DOMAIN ev \subseteq 1..(Len(Base) + 1) BY DEF Tidy, Regions
<1>2. ASSUME NEW a \in DOMAIN ev
      PROVE  /\ ev[a] \in Events
             /\ a > Len(Base) => ev[a] = [NoEvent EXCEPT !.inserts = ev[a].inserts]
  BY DEF Tidy, EventsAt
<1> QED BY <1>1, <1>2 DEF IsOverlay

LEMMA SoundFacts ==
    ASSUME Sound
    PROVE  /\ Tidy(events) /\ Tidy(saved_events)
           /\ content_gen = saved_gen => events = saved_events
BY DEF Sound, IInv

\* The overlay is always a set of patches on lines of the document, nothing
\* but insertions at the append anchor, and no stack outgrows HISTORY_LIMIT.
THEOREM OverlayTypeCorrect == Spec => []TypeOK
<1>1. ASSUME Sound PROVE TypeOK
  <2>1. PICK v : IInv(v) BY <1>1 DEF Sound
  <2>2. IsOverlay(events) /\ IsOverlay(saved_events) BY <1>1, SoundFacts, TidyIsOverlay
  <2>3. \A g \in Nat : IsOverlay(v[g]) BY <2>1, TidyIsOverlay DEF IInv
  <2>4. saving # None => IsOverlay(saving.ev) /\ saving.gen \in Nat BY <2>1, <2>3 DEF IInv
  <2>5. /\ undo \in Stacks /\ Len(undo) <= HistoryLimit
        /\ redo \in Stacks /\ Len(redo) <= HistoryLimit
    BY <2>1 DEF IInv, Chained, Entries, Stacks
  <2> QED BY <2>1, <2>2, <2>4, <2>5 DEF IInv, TypeOK
<1> QED BY <1>1, OvInvariance, PTL

\* The count of lines, the search for the region of one line and the walk
\* over all of them, three readings of the same patches (stats, locate,
\* lines), agree after any history of edits.
THEOREM WalksAlwaysAgree == Spec => []WalksAgree
<1>1. ASSUME Sound PROVE WalksAgree
  <2>1. Tidy(events) BY <1>1, SoundFacts
  <2> QED BY <2>1, TidyWalks DEF WalksAgree, Total, Now, ViewOf
<1> QED BY <1>1, OvInvariance, PTL

\* In every reachable overlay, whatever it already holds, inserting,
\* deleting, replacing a line or a range changes the view exactly as it
\* would change a plain list of lines (mutate.rs).
THEOREM EditsSplice == Spec => []EditsAreSplices
<1>1. Sound => EditsAreSplices BY SoundFacts, TidySplices
<1> QED BY <1>1, OvInvariance, PTL

\* No patch is kept that says nothing: an edit typed back, undone or redone
\* leaves the same patches as if it had never been made (clean_anchor).
THEOREM OverlayStaysNormal == Spec => []NormalForm
<1>1. ASSUME Sound PROVE NormalForm
  <2>1. Tidy(events) BY <1>1, SoundFacts
  <2> SUFFICES ASSUME NEW a \in DOMAIN events
               PROVE  /\ events[a] # NoEvent
                      /\ events[a].replacement # None /\ events[a].replacement = Base[a]
                         => Base[a] \in Long
    BY DEF NormalForm
  <2>2. events[a] # NoEvent /\ events[a] \in EventsAt(a) /\ a \in Regions(Base) BY <2>1 DEF Tidy
  <2>3. CASE a > Len(Base)
    <3>1. events[a] = [NoEvent EXCEPT !.inserts = events[a].inserts] BY <2>2, <2>3 DEF EventsAt
    <3>2. events[a].replacement = None BY <3>1 DEF NoEvent
    <3> QED BY <2>2, <3>2
  <2>4. CASE a <= Len(Base) BY <2>2, <2>4 DEF EventsAt
  <2> QED BY <2>2, <2>3, <2>4, BaseFacts
<1> QED BY <1>1, OvInvariance, PTL

\* A session that is not dirty shows what was last saved, even when edits,
\* undos and redos ran while the save was writing (mark_saved_from).
THEOREM CleanShowsTheSaved == Spec => []CleanShowsSaved
<1>1. ASSUME Sound PROVE CleanShowsSaved
  BY <1>1, SoundFacts DEF CleanShowsSaved, IsDirty, Now, ViewOf
<1> QED BY <1>1, OvInvariance, PTL

-----------------------------------------------------------------------------
(* The views a session can still reach, and its steps among them.          *)

\* `Retraced' from any overlay.
RetracedFrom(ev0, stack) ==
    LET ev[i \in 0..Len(stack)] ==
            IF i = 0 THEN ev0 ELSE ApplyRecord(ev[i - 1], stack[i].ops).ev
    IN [i \in 1..Len(stack) |-> [view |-> View(Base, ev[i]), gen |-> stack[i].gen]]

\* What a stack shows of the generations it holds.
Scenes(v, stack) ==
    [i \in 1..Len(stack) |-> [view |-> View(Base, v[stack[i].gen]), gen |-> stack[i].gen]]

LEMMA RetracedIs ==
    ASSUME NEW stack, NEW v, NEW gen, NEW limit, Chained(stack, v, gen, limit)
    PROVE  RetracedFrom(v[gen], stack) = Scenes(v, stack)
<1> DEFINE L == Len(stack)
           g == [i \in 0 .. L |-> IF i = 0 THEN v[gen] ELSE v[stack[i].gen]]
           Walks(f) == f = [i \in 0 .. L |->
                               IF i = 0 THEN v[gen] ELSE ApplyRecord(f[i - 1], stack[i].ops).ev]
           ev == CHOOSE f : Walks(f)
<1>1. L \in Nat BY DEF Chained
<1>2. \A k \in 1 .. L : ApplyRecord(v[IF k = 1 THEN gen ELSE stack[k - 1].gen], stack[k].ops).ev
                        = v[stack[k].gen]
  <2> TAKE k \in 1 .. L
  <2>1. Leads(stack[k].ops, v[IF k = 1 THEN gen ELSE stack[k - 1].gen], v[stack[k].gen])
    BY DEF Chained
  <2> QED BY <2>1, LeadsBack
<1>3. g[0] = v[gen] /\ \A k \in 1 .. L : g[k] = v[stack[k].gen] BY <1>1
<1>4. \A k \in 1 .. L : g[k - 1] = v[IF k = 1 THEN gen ELSE stack[k - 1].gen]
  <2> TAKE k \in 1 .. L
  <2>1. CASE k = 1 BY <1>3, <2>1
  <2>2. CASE k # 1
    <3>1. k - 1 \in 1 .. L BY <2>2
    <3> QED BY <1>3, <2>2, <3>1
  <2> QED BY <2>1, <2>2
<1>5. \A k \in 1 .. L : ApplyRecord(g[k - 1], stack[k].ops).ev = g[k] BY <1>2, <1>3, <1>4
<1>6. g = [i \in 0 .. L |-> g[i]] OBVIOUS
<1> HIDE DEF g
<1>7. Walks(g)
  <2>1. \A i \in 0 .. L : g[i] = IF i = 0 THEN v[gen] ELSE ApplyRecord(g[i - 1], stack[i].ops).ev
    <3> TAKE i \in 0 .. L
    <3>1. CASE i = 0 BY <1>3, <3>1
    <3>2. CASE i # 0
      <4>1. i \in 1 .. L BY <3>2
      <4> QED BY <1>5, <3>2, <4>1
    <3> QED BY <3>1, <3>2
  <2> HIDE DEF L
  <2> QED BY <1>6, <2>1
<1>8. Walks(ev) BY <1>7
<1>9. RetracedFrom(v[gen], stack)
      = [i \in 1 .. L |-> [view |-> View(Base, ev[i]), gen |-> stack[i].gen]]
  BY DEF RetracedFrom
<1> HIDE DEF ev, L
<1>10. ev[0] = v[gen] /\ \A k \in 1 .. L : ev[k] = ApplyRecord(ev[k - 1], stack[k].ops).ev
  <2>1. 0 \in 0 .. L /\ \A k \in 1 .. L : k \in 0 .. L /\ k # 0 BY <1>1
  <2> QED BY <1>8, <2>1
<1>11. \A k \in 0 .. L : ev[k] = g[k]
  <2> DEFINE Q == {k \in 0 .. L : ev[k] = g[k]}
  <2>1. 0 \in Q BY <1>1, <1>3, <1>10
  <2>2. \A k \in 1 .. L : k - 1 \in Q => k \in Q BY <1>1, <1>5, <1>10
  <2>3. \A k \in 0 .. L : k \in Q
    <3> HIDE DEF Q
    <3> QED BY <1>1, <2>1, <2>2, Climb
  <2> QED BY <2>3
<1>12. \A k \in 1 .. L : ev[k] = v[stack[k].gen]
  <2>1. \A k \in 1 .. L : k \in 0 .. L BY <1>1
  <2> QED BY <1>3, <1>11, <2>1
<1> QED BY <1>9, <1>12 DEF Scenes, L

LEMMA ScenesSame ==
    ASSUME NEW stack, NEW v, NEW gen, NEW limit \in Nat, Chained(stack, v, gen, limit),
           NEW u, \A g \in Nat : g < limit => u[g] = v[g]
    PROVE  Scenes(u, stack) = Scenes(v, stack)
<1>1. \A k \in 1 .. Len(stack) : u[stack[k].gen] = v[stack[k].gen]
  <2> TAKE k \in 1 .. Len(stack)
  <2>1. stack[k] \in Entries /\ stack[k].gen < limit BY DEF Chained
  <2>2. stack[k].gen \in Nat BY <2>1 DEF Entries
  <2> QED BY <2>1, <2>2
<1> QED BY <1>1 DEF Scenes

LEMMA ScenesPush ==
    ASSUME NEW stack \in Seq(Entries), NEW v, NEW e \in Entries
    PROVE  Scenes(v, History!Push(stack, e))
           = History!Push(Scenes(v, stack), [view |-> View(Base, v[e.gen]), gen |-> e.gen])
<1> DEFINE S(x) == [view |-> View(Base, v[x.gen]), gen |-> x.gen]
           L == IF Len(stack) < HistoryLimit THEN Len(stack) + 1 ELSE Len(stack)
           p == [i \in 1 .. L |-> IF i = 1 THEN e ELSE stack[i - 1]]
           q == Scenes(v, stack)
<1>1. Len(stack) \in Nat /\ HistoryLimit \in Nat \ {0} BY OverlayBoundsAssumption
<1>2. q = [i \in 1 .. Len(stack) |-> S(stack[i])] BY DEF Scenes
<1> HIDE DEF q
<1>3. Len(q) = Len(stack) /\ \A i \in 1 .. Len(stack) : q[i] = S(stack[i])
  <2> HIDE DEF S
  <2> QED BY <1>1, <1>2
<1>4. L \in Nat BY <1>1
<1>5. \A i \in 2 .. L : i - 1 \in 1 .. Len(stack) BY <1>1
<1>6. History!Push(stack, e) = p BY DEF History!Push
<1>7. History!Push(q, S(e)) = [i \in 1 .. L |-> IF i = 1 THEN S(e) ELSE q[i - 1]]
  BY <1>3 DEF History!Push
<1> HIDE DEF L, S
<1>8. Len(p) = L BY <1>4
<1>9. \A i \in 1 .. L : S(p[i]) = IF i = 1 THEN S(e) ELSE q[i - 1]
  <2> TAKE i \in 1 .. L
  <2>1. i = 1 \/ i \in 2 .. L BY <1>4
  <2> QED BY <1>3, <1>5, <2>1
<1>10. Scenes(v, p) = [i \in 1 .. L |-> S(p[i])]
  <2> HIDE DEF p
  <2> QED BY <1>8 DEF Scenes, S
<1> QED BY <1>6, <1>7, <1>9, <1>10, ZenonT(60) DEF S, q

LEMMA ScenesPop ==
    ASSUME NEW stack \in Seq(Entries), stack # <<>>, NEW v
    PROVE  /\ Scenes(v, History!Pop(stack)) = History!Pop(Scenes(v, stack))
           /\ Scenes(v, stack) # <<>>
           /\ Scenes(v, stack)[1] = [view |-> View(Base, v[stack[1].gen]), gen |-> stack[1].gen]
<1> DEFINE S(x) == [view |-> View(Base, v[x.gen]), gen |-> x.gen]
           L == Len(stack) - 1
           p == [i \in 1 .. L |-> stack[i + 1]]
           q == Scenes(v, stack)
<1>1. Len(stack) \in Nat \ {0} /\ L \in Nat /\ 1 \in 1 .. Len(stack) OBVIOUS
<1>2. q = [i \in 1 .. Len(stack) |-> S(stack[i])] BY DEF Scenes
<1> HIDE DEF q
<1>3. Len(q) = Len(stack) /\ \A i \in 1 .. Len(stack) : q[i] = S(stack[i])
  <2> HIDE DEF S
  <2> QED BY <1>1, <1>2
<1>4. \A i \in 1 .. L : i + 1 \in 1 .. Len(stack) BY <1>1
<1>5. History!Pop(stack) = p BY DEF History!Pop
<1>6. History!Pop(q) = [i \in 1 .. L |-> q[i + 1]] BY <1>3 DEF History!Pop
<1> HIDE DEF L, S
<1>7. Len(p) = L BY <1>1
<1>8. \A i \in 1 .. L : S(p[i]) = q[i + 1] BY <1>3, <1>4
<1>9. Scenes(v, p) = [i \in 1 .. L |-> S(p[i])]
  <2> HIDE DEF p
  <2> QED BY <1>7 DEF Scenes, S
<1>10. q # <<>> /\ q[1] = S(stack[1]) BY <1>1, <1>3
<1> QED BY <1>5, <1>6, <1>8, <1>9, <1>10, ZenonT(60) DEF S, q

SessionOf(ev, c, n, s, un, re) ==
    [view |-> View(Base, ev), content_gen |-> c, next_gen |-> n, saved_gen |-> s,
     undo |-> RetracedFrom(ev, un), redo |-> RetracedFrom(ev, re)]

\* The session over the overlays v.
Pictured(v, c, n, s, un, re) ==
    [view |-> View(Base, v[c]), content_gen |-> c, next_gen |-> n, saved_gen |-> s,
     undo |-> Scenes(v, un), redo |-> Scenes(v, re)]

LEMMA RetracedIsFrom == \A stack : Retraced(stack) = RetracedFrom(events, stack)
<1>1. \A e : (CHOOSE y \in {ViewOf(x) : x \in {e}} : TRUE) = View(Base, e) BY DEF ViewOf
<1> QED BY <1>1 DEF Retraced, RetracedFrom, Of

LEMMA RetracedIsFromNext == \A stack : Retraced(stack)' = RetracedFrom(events', stack')
<1>1. \A e : (CHOOSE y \in {ViewOf(x) : x \in {e}} : TRUE) = View(Base, e) BY DEF ViewOf
<1> QED BY <1>1 DEF Retraced, RetracedFrom, Of

LEMMA SessionIs ==
    Session = SessionOf(events, content_gen, next_gen, saved_gen, undo, redo)
BY RetracedIsFrom DEF Session, SessionOf, Now, ViewOf

LEMMA SessionIsNext ==
    Session' = SessionOf(events', content_gen', next_gen', saved_gen', undo', redo')
<1>1. Retraced(undo)' = RetracedFrom(events', undo') /\ Retraced(redo)' = RetracedFrom(events', redo')
  BY RetracedIsFromNext
<1> QED BY <1>1 DEF Session, SessionOf, Now, ViewOf

LEMMA SessionPictured ==
    ASSUME NEW v, IInv(v)
    PROVE  Session = Pictured(v, content_gen, next_gen, saved_gen, undo, redo)
<1>1. /\ Chained(undo, v, content_gen, next_gen) /\ Chained(redo, v, content_gen, next_gen)
      /\ events = v[content_gen]
  BY DEF IInv
<1>2. RetracedFrom(events, undo) = Scenes(v, undo) /\ RetracedFrom(events, redo) = Scenes(v, redo)
  BY <1>1, RetracedIs
<1> QED BY <1>1, <1>2, SessionIs DEF SessionOf, Pictured

LEMMA SessionPicturedNext ==
    ASSUME NEW v, IInv(v)'
    PROVE  Session' = Pictured(v, content_gen', next_gen', saved_gen', undo', redo')
<1>1. /\ Chained(undo', v, content_gen', next_gen') /\ Chained(redo', v, content_gen', next_gen')
      /\ events' = v[content_gen']
  BY DEF IInv
<1>2. RetracedFrom(events', undo') = Scenes(v, undo') /\ RetracedFrom(events', redo') = Scenes(v, redo')
  BY <1>1, RetracedIs
<1> QED BY <1>1, <1>2, SessionIsNext DEF SessionOf, Pictured

LEMMA PictureChanged ==
    ASSUME NEW v, NEW u, NEW c \in Nat, NEW n \in Nat, c < n, NEW s, NEW un, NEW re,
           NEW rec \in Seq(Ops), Chained(un, v, c, n), \A g \in Nat : g < n => u[g] = v[g]
    PROVE  Pictured(u, n, n + 1, s, History!Push(un, [ops |-> rec, gen |-> c]), <<>>)
           = Promise!Changed(Pictured(v, c, n, s, un, re), View(Base, u[n]))
<1> DEFINE e == [ops |-> rec, gen |-> c]
           here == [view |-> View(Base, v[c]), gen |-> c]
<1>1. un \in Seq(Entries) BY DEF Chained
<1>2. e \in Entries /\ e.gen = c BY DEF Entries
<1> HIDE DEF e
<1>3. Scenes(u, un) = Scenes(v, un) BY ScenesSame
<1>4. Scenes(u, History!Push(un, e)) = History!Push(Scenes(v, un), here)
  BY <1>1, <1>2, <1>3, ScenesPush
<1>5. Scenes(u, <<>>) = <<>> BY DEF Scenes
<1>6. \A q : History!Push(q, here) = Promise!Push(q, here) BY DEF History!Push, Promise!Push
<1> DEFINE pic == Pictured(v, c, n, s, un, re)
<1>7. /\ pic.view = View(Base, v[c]) /\ pic.content_gen = c /\ pic.next_gen = n
      /\ pic.saved_gen = s /\ pic.undo = Scenes(v, un)
  BY DEF Pictured
<1> HIDE DEF pic
<1>8. Promise!Here(pic) = here BY <1>7 DEF Promise!Here
<1> HIDE DEF here
<1> QED BY <1>4, <1>5, <1>6, <1>7, <1>8 DEF Pictured, Promise!Changed, e, pic

LEMMA PictureUndone ==
    ASSUME NEW v, NEW c \in Nat, NEW n, NEW s, NEW un \in Seq(Entries), un # <<>>,
           NEW re \in Seq(Entries), NEW rec \in Seq(Ops)
    PROVE  LET pic == Pictured(v, c, n, s, un, re) IN
           /\ pic.undo # <<>>
           /\ Pictured(v, un[1].gen, n, s, History!Pop(un),
                       History!Push(re, [ops |-> rec, gen |-> c])) = Promise!Undone(pic)
<1> DEFINE e == [ops |-> rec, gen |-> c]
           here == [view |-> View(Base, v[c]), gen |-> c]
           pic == Pictured(v, c, n, s, un, re)
<1>1. e \in Entries /\ e.gen = c BY DEF Entries
<1> HIDE DEF e
<1>2. Scenes(v, History!Push(re, e)) = History!Push(Scenes(v, re), here) BY <1>1, ScenesPush
<1>3. /\ Scenes(v, History!Pop(un)) = History!Pop(Scenes(v, un)) /\ Scenes(v, un) # <<>>
      /\ Scenes(v, un)[1].view = View(Base, v[un[1].gen]) /\ Scenes(v, un)[1].gen = un[1].gen
  <2>1. /\ Scenes(v, History!Pop(un)) = History!Pop(Scenes(v, un)) /\ Scenes(v, un) # <<>>
        /\ Scenes(v, un)[1] = [view |-> View(Base, v[un[1].gen]), gen |-> un[1].gen]
    BY ScenesPop
  <2> QED BY <2>1
<1>4. \A q : History!Push(q, here) = Promise!Push(q, here) BY DEF History!Push, Promise!Push
<1>5. \A q : History!Pop(q) = Promise!Pop(q) BY DEF History!Pop, Promise!Pop
<1>6. /\ pic.view = View(Base, v[c]) /\ pic.content_gen = c /\ pic.next_gen = n
      /\ pic.saved_gen = s /\ pic.undo = Scenes(v, un) /\ pic.redo = Scenes(v, re)
  BY DEF Pictured
<1> HIDE DEF pic
<1>7. Promise!Here(pic) = here BY <1>6 DEF Promise!Here
<1> HIDE DEF here
<1> QED BY <1>2, <1>3, <1>4, <1>5, <1>6, <1>7 DEF Pictured, Promise!Undone, e, pic

LEMMA PictureRedone ==
    ASSUME NEW v, NEW c \in Nat, NEW n, NEW s, NEW re \in Seq(Entries), re # <<>>,
           NEW un \in Seq(Entries), NEW rec \in Seq(Ops)
    PROVE  LET pic == Pictured(v, c, n, s, un, re) IN
           /\ pic.redo # <<>>
           /\ Pictured(v, re[1].gen, n, s, History!Push(un, [ops |-> rec, gen |-> c]),
                       History!Pop(re)) = Promise!Redone(pic)
<1> DEFINE e == [ops |-> rec, gen |-> c]
           here == [view |-> View(Base, v[c]), gen |-> c]
           pic == Pictured(v, c, n, s, un, re)
<1>1. e \in Entries /\ e.gen = c BY DEF Entries
<1> HIDE DEF e
<1>2. Scenes(v, History!Push(un, e)) = History!Push(Scenes(v, un), here) BY <1>1, ScenesPush
<1>3. /\ Scenes(v, History!Pop(re)) = History!Pop(Scenes(v, re)) /\ Scenes(v, re) # <<>>
      /\ Scenes(v, re)[1].view = View(Base, v[re[1].gen]) /\ Scenes(v, re)[1].gen = re[1].gen
  <2>1. /\ Scenes(v, History!Pop(re)) = History!Pop(Scenes(v, re)) /\ Scenes(v, re) # <<>>
        /\ Scenes(v, re)[1] = [view |-> View(Base, v[re[1].gen]), gen |-> re[1].gen]
    BY ScenesPop
  <2> QED BY <2>1
<1>4. \A q : History!Push(q, here) = Promise!Push(q, here) BY DEF History!Push, Promise!Push
<1>5. \A q : History!Pop(q) = Promise!Pop(q) BY DEF History!Pop, Promise!Pop
<1>6. /\ pic.view = View(Base, v[c]) /\ pic.content_gen = c /\ pic.next_gen = n
      /\ pic.saved_gen = s /\ pic.undo = Scenes(v, un) /\ pic.redo = Scenes(v, re)
  BY DEF Pictured
<1> HIDE DEF pic
<1>7. Promise!Here(pic) = here BY <1>6 DEF Promise!Here
<1> HIDE DEF here
<1> QED BY <1>2, <1>3, <1>4, <1>5, <1>6, <1>7 DEF Pictured, Promise!Redone, e, pic

\* The steps of ViewHistory, or none.
Promised == Promise!Next \/ Session' = Session

LEMMA ChangePromised == ASSUME Session' = Promise!Changed(Session, Session'.view) PROVE Promised
BY DEF Promised, Promise!Next, Promise!Change

LEMMA EditPromised ==
    ASSUME NEW v, IInv(v), NEW ev, NEW rec, Edited(ev, rec)
    PROVE  Promised
<1>1. PICK u : IInv(u)' /\ Kept(v, u) BY EditedKeeps
<1>2. PICK n : n = next_gen OBVIOUS
<1>3. PICK c : c = content_gen OBVIOUS
<1>4. n \in Nat /\ c \in Nat /\ c < n /\ Chained(undo, v, c, n) BY <1>2, <1>3 DEF IInv
<1>5. rec \in Seq(Ops) BY DEF Edited, Leads
<1>6. \A g \in Nat : g < n => u[g] = v[g] BY <1>1, <1>2 DEF Kept
<1>7. /\ content_gen' = n /\ next_gen' = n + 1 /\ saved_gen' = saved_gen /\ redo' = <<>>
      /\ undo' = History!Push(undo, [ops |-> rec, gen |-> c])
  BY <1>2, <1>3 DEF Edited
<1>8. Session = Pictured(v, c, n, saved_gen, undo, redo) BY <1>2, <1>3, SessionPictured
<1>9. Session' = Pictured(u, n, n + 1, saved_gen, History!Push(undo, [ops |-> rec, gen |-> c]), <<>>)
  BY <1>1, <1>7, SessionPicturedNext
<1>10. Session'.view = View(Base, u[n]) BY <1>9 DEF Pictured
<1>11. Session' = Promise!Changed(Session, View(Base, u[n]))
  BY <1>4, <1>5, <1>6, <1>8, <1>9, PictureChanged
<1> QED BY <1>10, <1>11, ChangePromised

LEMMA UndoPromised ==
    ASSUME NEW v, IInv(v), Undo
    PROVE  Promised
<1>1. PICK rec :
             /\ undo # <<>> /\ content_gen' = undo[1].gen
             /\ Leads(rec, v[undo[1].gen], v[content_gen])
             /\ redo' = History!Push(redo, [ops |-> rec, gen |-> content_gen])
             /\ undo' = History!Pop(undo)
             /\ UNCHANGED <<next_gen, saved_gen, saved_events, saving>>
  BY UndoIs
<1>2. content_gen \in Nat /\ undo \in Seq(Entries) /\ redo \in Seq(Entries) /\ rec \in Seq(Ops)
  BY <1>1 DEF IInv, Chained, Leads
<1>3. Session = Pictured(v, content_gen, next_gen, saved_gen, undo, redo) BY SessionPictured
<1>4. IInv(v)' BY UndoKeeps
<1>5. Session' = Pictured(v, undo[1].gen, next_gen, saved_gen, History!Pop(undo),
                          History!Push(redo, [ops |-> rec, gen |-> content_gen]))
  BY <1>1, <1>4, SessionPicturedNext
<1>6. Session.undo # <<>> /\ Session' = Promise!Undone(Session)
  BY <1>1, <1>2, <1>3, <1>5, PictureUndone
<1> QED BY <1>6 DEF Promised, Promise!Next, Promise!Undo

LEMMA RedoPromised ==
    ASSUME NEW v, IInv(v), Redo
    PROVE  Promised
<1>1. PICK rec :
             /\ redo # <<>> /\ content_gen' = redo[1].gen
             /\ Leads(rec, v[redo[1].gen], v[content_gen])
             /\ undo' = History!Push(undo, [ops |-> rec, gen |-> content_gen])
             /\ redo' = History!Pop(redo)
             /\ UNCHANGED <<next_gen, saved_gen, saved_events, saving>>
  BY RedoIs
<1>2. content_gen \in Nat /\ undo \in Seq(Entries) /\ redo \in Seq(Entries) /\ rec \in Seq(Ops)
  BY <1>1 DEF IInv, Chained, Leads
<1>3. Session = Pictured(v, content_gen, next_gen, saved_gen, undo, redo) BY SessionPictured
<1>4. IInv(v)' BY RedoKeeps
<1>5. Session' = Pictured(v, redo[1].gen, next_gen, saved_gen,
                          History!Push(undo, [ops |-> rec, gen |-> content_gen]),
                          History!Pop(redo))
  BY <1>1, <1>4, SessionPicturedNext
<1>6. Session.redo # <<>> /\ Session' = Promise!Redone(Session)
  BY <1>1, <1>2, <1>3, <1>5, PictureRedone
<1> QED BY <1>6 DEF Promised, Promise!Next, Promise!Redo

LEMMA SavePromised ==
    ASSUME NEW v, IInv(v), SaveBegin \/ SaveCommit \/ SaveFails
    PROVE  Promised
<1>1. Session = Pictured(v, content_gen, next_gen, saved_gen, undo, redo) BY SessionPictured
<1>2. IInv(v)' BY SavesKeep
<1>3. Session' = Pictured(v, content_gen', next_gen', saved_gen', undo', redo')
  BY <1>2, SessionPicturedNext
<1>4. CASE SaveBegin \/ SaveFails
  <2>1. UNCHANGED <<undo, redo, content_gen, next_gen, saved_gen>>
    BY <1>4 DEF SaveBegin, SaveFails
  <2> QED BY <1>1, <1>3, <2>1 DEF Promised
<1>5. CASE SaveCommit
  <2>1. saving # None /\ saved_gen' = saving.gen /\ UNCHANGED <<undo, redo, content_gen, next_gen>>
    BY <1>5 DEF SaveCommit, Saved
  <2>2. saved_gen' < next_gen BY <2>1 DEF IInv
  <2>3. Session.next_gen = next_gen /\ Session'.saved_gen = saved_gen' BY <1>1, <1>3 DEF Pictured
  <2>4. Session' = [Session EXCEPT !.saved_gen = saved_gen'] BY <1>1, <1>3, <2>1 DEF Pictured
  <2>5. Session' = Promise!MarkedSaved(Session, Session'.saved_gen) BY <2>3, <2>4 DEF Promise!MarkedSaved
  <2> QED BY <2>2, <2>3, <2>5 DEF Promised, Promise!Next, Promise!MarkSaved
<1> QED BY <1>4, <1>5

LEMMA StepPromised ==
    ASSUME NEW v, IInv(v), [Next]_vars
    PROVE  Promised
<1>1. Tidy(events) BY DEF IInv
<1>2. CASE UNCHANGED vars
  <2>1. /\ events' = events /\ undo' = undo /\ redo' = redo /\ content_gen' = content_gen
        /\ next_gen' = next_gen /\ saved_gen' = saved_gen
    BY <1>2 DEF vars
  <2>2. Session' = Session BY <2>1, SessionIs, SessionIsNext
  <2> QED BY <2>2 DEF Promised
<1>3. ASSUME NEW ev, NEW rec, Edited(ev, rec) PROVE Promised
  BY <1>3, EditPromised
<1>4. CASE Undo BY <1>4, UndoPromised
<1>5. CASE Redo BY <1>5, RedoPromised
<1>6. CASE SaveBegin \/ SaveCommit \/ SaveFails BY <1>6, SavePromised
<1>7. \/ \E l \in Lines, t \in Text : ReplaceLine(l, t) \/ InsertLine(l, t)
      \/ \E l \in Lines : DeleteLine(l)
      \/ \E e \in Edits : ReplaceRange(e.l0, e.l1, e.parts)
      \/ \E upper, lower \in Edits : ReplaceBatch(upper, lower)
      \/ \E l0, l1 \in Lines : \E rows \in [l0..l1 -> Text] : ReplaceRect(l0, l1, rows)
      => UNCHANGED vars \/ \E ev, rec : Edited(ev, rec)
  BY <1>1, EditsCommit
<1> QED BY <1>2, <1>3, <1>4, <1>5, <1>6, <1>7 DEF Next

\* Whatever is edited, refused, undone, redone and saved in between, undo and
\* redo lead through exactly the views that were left behind: the inverse
\* steps over sparse patches implement a history of whole views
\* (apply_record, finish_change, replace_batch).
THEOREM HistoryIsRetraced == Spec => HistoryRetraces
<1>1. Init => Promise!Init
  <2> SUFFICES ASSUME Init PROVE Promise!Init OBVIOUS
  <2>1. /\ content_gen = 0 /\ next_gen = 1 /\ saved_gen = 0 /\ undo = <<>> /\ redo = <<>>
    BY DEF Init
  <2>2. RetracedFrom(events, <<>>) = <<>> BY DEF RetracedFrom
  <2>3. Session = [view |-> View(Base, events), content_gen |-> 0, next_gen |-> 1, saved_gen |-> 0,
                   undo |-> <<>>, redo |-> <<>>]
    BY <2>1, <2>2, SessionIs DEF SessionOf
  <2> QED BY <2>3 DEF Promise!Init, Promise!Fresh
<1>2. Sound /\ [Next]_vars => [Promise!Next]_Session BY StepPromised DEF Sound, Promised
<1> QED BY <1>1, <1>2, OvInvariance, PTL DEF Spec, HistoryRetraces, Promise!Spec

-----------------------------------------------------------------------------
(* What a save writes.                                                     *)

\* The last byte of a line tells whether the line is ended, as it does in
\* every encoding but UTF-16.
OneByteNewlines ==
    \A t \in Text, terminated \in BOOLEAN : NewlineByte(t, terminated) = terminated

Chunks == [text : Text, term : BOOLEAN, copied : BOOLEAN]

\* The lines of an anchor in a file.
OwnChunk(ev, a) ==
    IF Alive(Base, ev, a)
    THEN <<Chunk(OwnText(Base, ev, a), HasTerminator(a), At(ev, a).replacement = None)>>
    ELSE <<>>

Part(ev, a) == Terminated(At(ev, a).inserts) \o OwnChunk(ev, a)

Body(ev) == FlattenSeq([a \in 1..Len(Base) |-> Part(ev, a)])

LEMMA TerminatedFacts ==
    ASSUME NEW texts \in Seq(Text)
    PROVE  /\ Terminated(texts) \in Seq(Chunks) /\ Len(Terminated(texts)) = Len(texts)
           /\ \A i \in 1 .. Len(texts) :
                Terminated(texts)[i].text = texts[i] /\ Terminated(texts)[i].term = TRUE
<1> DEFINE c == [i \in 1 .. Len(texts) |-> Chunk(texts[i], TRUE, FALSE)]
<1>1. Len(texts) \in Nat /\ \A i \in 1 .. Len(texts) : texts[i] \in Text OBVIOUS
<1>2. \A i \in 1 .. Len(texts) :
        c[i] \in Chunks /\ c[i].text = texts[i] /\ c[i].term = TRUE
  BY <1>1 DEF Chunk, Chunks
<1>3. Terminated(texts) = c BY DEF Terminated
<1>4. c \in Seq(Chunks) /\ Len(c) = Len(texts)
  <2>1. c = [i \in 1 .. Len(texts) |-> c[i]] OBVIOUS
  <2> HIDE DEF c
  <2> QED BY <1>1, <1>2, <2>1
<1> QED BY <1>2, <1>3, <1>4

LEMMA PartFacts ==
    ASSUME NEW ev, Tidy(ev), NEW a \in 1 .. Len(Base)
    PROVE  /\ Part(ev, a) \in Seq(Chunks) /\ Len(Part(ev, a)) = Size(ev, a)
           /\ \A i \in 1 .. Size(ev, a) :
                /\ Part(ev, a)[i].text = Region(Base, ev, a)[i]
                /\ Part(ev, a)[i].term \/ (a = Len(Base) /\ i = Size(ev, a))
<1> DEFINE ins == At(ev, a).inserts
           A == Terminated(ins)
           t == OwnText(Base, ev, a)
           c == Chunk(t, HasTerminator(a), At(ev, a).replacement = None)
           r == Region(Base, ev, a)
           p == Part(ev, a)
<1>0. a \in Regions(Base) /\ a <= Len(Base) BY BaseFacts DEF Regions
<1>1. /\ ins \in Seq(Text) /\ Len(ins) \in Nat
      /\ At(ev, a).replacement \in Text \cup {None}
      /\ Size(ev, a) = Len(ins) + (IF Alive(Base, ev, a) THEN 1 ELSE 0)
  BY <1>0, SizeFacts
<1>2. /\ A \in Seq(Chunks) /\ Len(A) = Len(ins)
      /\ \A i \in 1 .. Len(ins) : A[i].text = ins[i] /\ A[i].term = TRUE
  BY <1>1, TerminatedFacts
<1>3. /\ \A i \in 1 .. Len(ins) : r[i] = ins[i]
      /\ Alive(Base, ev, a) => r[Len(ins) + 1] = t
  BY <1>0, RegionFacts
<1>4. CASE Alive(Base, ev, a)
  <2>1. t \in Text BY <1>0, <1>1, BaseFacts DEF OwnText
  <2>2. HasTerminator(a) \in BOOLEAN /\ (HasTerminator(a) \/ a = Len(Base))
    BY <1>0, BaseAssumption DEF HasTerminator
  <2>3. c \in Chunks /\ c.text = t /\ (c.term \/ a = Len(Base)) BY <2>1, <2>2 DEF Chunk, Chunks
  <2>4. p = A \o <<c>> /\ Size(ev, a) = Len(ins) + 1 BY <1>1, <1>4 DEF Part, OwnChunk
  <2> HIDE DEF ins, A, t, c, r, p
  <2>5. p \in Seq(Chunks) /\ Len(p) = Len(ins) + 1 BY <1>1, <1>2, <2>3, <2>4
  <2>6. p[Len(ins) + 1] = c /\ \A i \in 1 .. Len(ins) : p[i] = A[i] BY <1>1, <1>2, <2>3, <2>4
  <2>7. \A i \in 1 .. (Len(ins) + 1) : i = Len(ins) + 1 \/ i \in 1 .. Len(ins) BY <1>1
  <2>8. \A i \in 1 .. (Len(ins) + 1) :
          p[i].text = r[i] /\ (p[i].term \/ (a = Len(Base) /\ i = Len(ins) + 1))
    BY <1>2, <1>3, <1>4, <2>3, <2>6, <2>7
  <2> QED BY <2>4, <2>5, <2>8 DEF p, r
<1>5. CASE ~Alive(Base, ev, a)
  <2>1. p = A \o <<>> /\ Size(ev, a) = Len(ins) BY <1>1, <1>5 DEF Part, OwnChunk
  <2> HIDE DEF ins, A, r, p
  <2>2. p = A BY <1>2, <2>1
  <2> QED BY <1>2, <1>3, <2>1, <2>2 DEF p, r
<1> QED BY <1>4, <1>5

\* The lines of the document in the file, before what is appended.
LEMMA BodyFacts ==
    ASSUME NEW ev, Tidy(ev)
    PROVE  LET b == Body(ev) L == From(ev, Len(Base) + 1) - 1 IN
           /\ b \in Seq(Chunks) /\ Len(b) = L /\ L \in Nat
           /\ \A l \in 1 .. L : b[l].text = View(Base, ev)[l] /\ (b[l].term \/ l = L)
<1> DEFINE N == Len(Base)
           L == From(ev, N + 1) - 1
           r == [a \in 1 .. N |-> Part(ev, a)]
           F == [a \in 1 .. N |-> From(ev, a)]
           b == Body(ev)
           x == View(Base, ev)
<1>1. N \in Nat /\ Regions(Base) = 1 .. (N + 1) BY BaseFacts DEF Regions
<1>2. b = FlattenSeq(r) BY DEF Body
<1>3. L \in Nat /\ From(ev, N + 1) = L + 1
  <2>1. N + 1 \in Regions(Base) BY <1>1
  <2>2. From(ev, N + 1) \in Nat \ {0} BY <2>1, FromFacts
  <2> QED BY <2>2
<1>4. CASE N = 0
  <2>1. r = <<>> BY <1>4
  <2> HIDE DEF r
  <2>2. b = <<>> BY <1>2, <2>1 DEF FlattenSeq
  <2>3. L = 0 BY <1>4, FromFacts
  <2> HIDE DEF b, L
  <2>4. b \in Seq(Chunks) /\ Len(b) = L BY <2>2, <2>3
  <2>5. \A l \in 1 .. L : FALSE BY <2>3
  <2> QED BY <1>3, <2>4, <2>5 DEF b, L
<1>5. CASE N # 0
  <2>1. \A a \in 1 .. N : r[a] = Part(ev, a) /\ F[a] = From(ev, a) OBVIOUS
  <2>2. \A a \in 1 .. N : r[a] \in Seq(Chunks) /\ Len(r[a]) = Size(ev, a) BY <2>1, PartFacts
  <2>3. r \in Seq(Seq(Chunks)) /\ Len(r) = N BY <1>1, <2>2
  <2>4. \A a \in 1 .. N : a \in Regions(Base) BY <1>1
  <2> HIDE DEF r, F
  <2>5. F[1] = 1 /\ \A a \in 1 .. N : F[a] \in Nat \ {0}
    <3>1. From(ev, 1) = 1 /\ \A a \in Regions(Base) : From(ev, a) \in Nat \ {0} BY FromFacts
    <3>2. 1 \in 1 .. N BY <1>1, <1>5
    <3> HIDE DEF N
    <3> QED BY <2>1, <2>4, <3>1, <3>2
  <2>6. \A a \in 2 .. N : F[a] = F[a - 1] + Len(r[a - 1])
    <3> TAKE a \in 2 .. N
    <3>1. a \in 1 .. N /\ a - 1 \in 1 .. N /\ (a - 1) + 1 = a BY <1>1
    <3>2. From(ev, (a - 1) + 1) = From(ev, a - 1) + Size(ev, a - 1) BY <3>1, FromFacts
    <3> QED BY <2>1, <2>2, <3>1, <3>2
  <2>7. \A k, c \in 1 .. N : k < c => F[k] + Len(r[k]) <= F[c] BY <2>1, <2>2, <2>4, FromGrows
  <2>8. Lies(Chunks, N, r, F) BY <1>1, <1>5, <2>3, <2>5, <2>6, <2>7 DEF Lies
  <2>9. /\ b \in Seq(Chunks) /\ Len(b) = (F[N] + Len(r[N])) - 1
        /\ \A a \in 1 .. N : \A i \in 1 .. Len(r[a]) : b[(F[a] + i) - 1] = r[a][i]
    <3> HIDE DEF b, N
    <3> QED BY <1>2, <2>8, Joined
  <2>10. N \in 1 .. N BY <1>1, <1>5
  <2>11. From(ev, N + 1) = From(ev, N) + Size(ev, N) BY <2>10, FromFacts
  <2>12. Len(b) = L /\ L = (From(ev, N) + Size(ev, N)) - 1 BY <2>1, <2>2, <2>9, <2>10, <2>11
  <2>13. ASSUME NEW l \in 1 .. L
         PROVE  b[l].text = x[l] /\ (b[l].term \/ l = L)
    <3>1. Count(ev) \in Nat /\ l \in 1 .. Count(ev)
      <4>1. /\ Count(ev) \in Nat /\ From(ev, N + 1) + Size(ev, N + 1) = Count(ev) + 1
            /\ Size(ev, N + 1) \in Nat
        <5>1. N + 1 \in Regions(Base) BY <1>1
        <5>2. Size(ev, N + 1) \in Nat
          <6> DEFINE M == N + 1
          <6>1. M \in Regions(Base) BY <5>1
          <6> HIDE DEF M
          <6>2. Size(ev, M) \in Nat BY <6>1, SizeFacts
          <6> QED BY <6>2 DEF M
        <5> QED BY <5>2, FromFacts
      <4> HIDE DEF L
      <4> QED BY <1>3, <4>1
    <3>2. PICK a \in Regions(Base) : \E i \in 1 .. Size(ev, a) :
             l = (From(ev, a) + i) - 1 /\ Locate(Base, ev, l) = [anchor |-> a, index |-> i]
      BY <3>1, LocateFinds
    <3>3. PICK i \in 1 .. Size(ev, a) : l = (From(ev, a) + i) - 1 BY <3>2
    <3>4. From(ev, a) \in Nat \ {0} /\ Size(ev, a) \in Nat BY FromFacts, SizeFacts
    <3>5. a # N + 1
      <4> SUFFICES ASSUME a = N + 1 PROVE FALSE OBVIOUS
      <4>1. From(ev, a) = L + 1 BY <1>3
      <4>2. i \in Nat /\ i >= 1 BY <3>4
      <4> HIDE DEF L
      <4> QED BY <1>3, <3>3, <4>1, <4>2
    <3>6. a \in 1 .. N BY <1>1, <3>5
    <3>7. b[l] = Part(ev, a)[i] BY <2>1, <2>2, <2>9, <3>3, <3>6
    <3>8. x[l] = Region(Base, ev, a)[i] BY <3>3, ViewFacts
    <3>9. b[l].text = x[l] /\ (b[l].term \/ (a = N /\ i = Size(ev, a))) BY <3>6, <3>7, <3>8, PartFacts
    <3>10. a = N /\ i = Size(ev, a) => l = L BY <2>12, <3>3
    <3> QED BY <3>9, <3>10
  <2> QED BY <1>3, <2>9, <2>12, <2>13
<1> QED BY <1>4, <1>5

\* A file whose lines but the last are ended, and whose last line is seen.
LEMMA ReopensTo ==
    ASSUME NEW chunks \in Seq(Chunks), NEW x \in Seq(Text), Len(chunks) = Len(x),
           \A l \in 1 .. Len(x) : chunks[l].text = x[l] /\ (chunks[l].term \/ l = Len(x)),
           ~Vanishes(chunks)
    PROVE  Reopened(chunks) = x
<1>1. Len(x) \in Nat /\ x = [i \in 1 .. Len(x) |-> x[i]] OBVIOUS
<1>2. ~\E i \in 1 .. (Len(chunks) - 1) : ~chunks[i].term
  <2>1. \A i \in 1 .. (Len(x) - 1) : i \in 1 .. Len(x) /\ i # Len(x) BY <1>1
  <2> QED BY <2>1
<1>3. Reopened(chunks) = [i \in 1 .. (Len(chunks) - 0) |-> chunks[i].text] BY <1>2 DEF Reopened
<1>4. Len(chunks) - 0 = Len(x) BY <1>1
<1> QED BY <1>1, <1>3, <1>4

LEMMA ConvertedReopens ==
    ASSUME NEW ev, Tidy(ev), ~Vanishes(Converted(ev))
    PROVE  Reopened(Converted(ev)) = View(Base, ev)
<1> DEFINE x == View(Base, ev)
           ended(i) == i < Len(x) \/ (Base # <<>> /\ BaseTerminated)
           c == [i \in 1 .. Len(x) |-> Chunk(x[i], ended(i), FALSE)]
<1>1. x \in Seq(Text) BY ViewFacts
<1>2. Converted(ev) = c BY DEF Converted
<1> HIDE DEF x
<1>3. Len(x) \in Nat /\ \A i \in 1 .. Len(x) : x[i] \in Text BY <1>1
<1>4. \A i \in 1 .. Len(x) : ended(i) \in BOOLEAN /\ (ended(i) \/ i = Len(x))
  BY <1>3, BaseAssumption
<1>5. \A i \in 1 .. Len(x) : c[i] = Chunk(x[i], ended(i), FALSE) OBVIOUS
<1> HIDE DEF ended
<1>6. \A i \in 1 .. Len(x) : c[i] \in Chunks /\ c[i].text = x[i] /\ (c[i].term \/ i = Len(x))
  BY <1>3, <1>4, <1>5 DEF Chunk, Chunks
<1>7. c \in Seq(Chunks) /\ Len(c) = Len(x)
  <2>1. c = [i \in 1 .. Len(x) |-> c[i]] OBVIOUS
  <2> HIDE DEF c
  <2> QED BY <1>3, <1>6, <2>1
<1> HIDE DEF c
<1>8. Reopened(c) = x BY <1>1, <1>2, <1>6, <1>7, ReopensTo
<1> QED BY <1>2, <1>8 DEF x

LEMMA WrittenReopens ==
    ASSUME OneByteNewlines, NEW ev, Tidy(ev), ~Vanishes(Written(ev))
    PROVE  Reopened(Written(ev)) = View(Base, ev)
<1> DEFINE N == Len(Base)
           M == N + 1
           L == From(ev, M) - 1
           x == View(Base, ev)
           b == Body(ev)
           app == At(ev, M).inserts
           B == BeforeAppended(b, app)
           A == Terminated(app)
           w == B \o A
<1>1. w = Written(ev) BY DEF Written, Body, Part, OwnChunk
<1>2. /\ b \in Seq(Chunks) /\ Len(b) = L /\ L \in Nat
      /\ \A l \in 1 .. L : b[l].text = x[l] /\ (b[l].term \/ l = L)
  BY BodyFacts
<1>3. M \in Regions(Base) /\ ~(M <= N) BY BaseFacts DEF Regions
<1>4. app \in Seq(Text) /\ Len(app) \in Nat /\ Size(ev, M) = Len(app)
  <2>1. ~Alive(Base, ev, M) BY <1>3 DEF Alive
  <2> HIDE DEF M
  <2>2. /\ app \in Seq(Text) /\ Len(app) \in Nat
        /\ Size(ev, M) = Len(app) + (IF Alive(Base, ev, M) THEN 1 ELSE 0)
    BY <1>3, SizeFacts
  <2> QED BY <2>1, <2>2
<1>5. x \in Seq(Text) /\ Len(x) = L + Len(app)
  <2>1. Count(ev) \in Nat /\ From(ev, M) + Size(ev, M) = Count(ev) + 1 /\ From(ev, M) \in Nat
    BY <1>3, FromFacts
  <2>2. L + Len(app) = Count(ev)
    <3>1. From(ev, M) + Len(app) = Count(ev) + 1 BY <1>4, <2>1
    <3> HIDE DEF app, M
    <3> QED BY <1>4, <2>1, <3>1
  <2> QED BY <2>2, ViewFacts
<1>6. \A i \in 1 .. Len(app) : x[L + i] = app[i]
  <2> TAKE i \in 1 .. Len(app)
  <2>1. i \in 1 .. Size(ev, M) BY <1>4
  <2>2. x[(From(ev, M) + i) - 1] = Region(Base, ev, M)[i] BY <1>3, <2>1, ViewFacts
  <2>3. Region(Base, ev, M)[i] = app[i] BY <1>3, RegionFacts
  <2>4. From(ev, M) \in Nat BY <1>3, FromFacts
  <2>5. (From(ev, M) + i) - 1 = L + i BY <2>4
  <2> QED BY <2>2, <2>3, <2>5
<1>7. /\ A \in Seq(Chunks) /\ Len(A) = Len(app)
      /\ \A i \in 1 .. Len(app) : A[i].text = app[i] /\ A[i].term = TRUE
  BY <1>4, TerminatedFacts
<1> HIDE DEF L, x, b, app, A
<1>8. CASE app = <<>>
  <2>1. B = b BY <1>8 DEF BeforeAppended
  <2>2. Len(app) = 0 /\ A = <<>> BY <1>7, <1>8
  <2> HIDE DEF B
  <2>3. w = b /\ Len(x) = L BY <1>2, <1>5, <2>1, <2>2
  <2> HIDE DEF w
  <2>4. Reopened(b) = x BY <1>1, <1>2, <1>5, <2>3, ReopensTo
  <2> QED BY <1>1, <2>3, <2>4 DEF x
<1>9. CASE app # <<>>
  <2>1. Len(app) >= 1 BY <1>4, <1>9
  <2>2. /\ B \in Seq(Chunks) /\ Len(B) = L
        /\ \A l \in 1 .. L : B[l].text = x[l] /\ B[l].term = TRUE
    <3>1. CASE b = <<>>
      <4>1. B = b /\ L = 0 BY <1>2, <3>1 DEF BeforeAppended
      <4> HIDE DEF B
      <4>2. \A l \in 1 .. L : FALSE BY <4>1
      <4> QED BY <1>2, <4>1, <4>2
    <3>2. CASE b # <<>>
      <4>1. L \in 1 .. L BY <1>2, <3>2
      <4>2. Last(b) = b[L] BY <1>2 DEF Last
      <4>3. b[L] \in Chunks BY <1>2, <4>1
      <4>4. EndedWithTerminator(b[L]) = b[L].term
        BY <4>3 DEF EndedWithTerminator, OneByteNewlines, Chunks
      <4>5. \A l \in 1 .. L : b[l].term \in BOOLEAN /\ b[l] \in Chunks
        <5>1. \A l \in 1 .. L : b[l] \in Chunks BY <1>2
        <5> QED BY <5>1 DEF Chunks
      <4>6. CASE b[L].term
        <5>1. B = b BY <4>2, <4>4, <4>6 DEF BeforeAppended
        <5> HIDE DEF B
        <5> QED BY <1>2, <4>5, <4>6, <5>1
      <4>7. CASE ~b[L].term
        <5> DEFINE e == [b[L] EXCEPT !.term = TRUE]
        <5>1. e \in Chunks /\ e.text = b[L].text /\ e.term = TRUE BY <4>3 DEF Chunks
        <5>2. B = [b EXCEPT ![L] = e]
          <6>1. B = [b EXCEPT ![Len(b)].term = TRUE] BY <1>9, <3>2, <4>2, <4>4, <4>7 DEF BeforeAppended
          <6> QED BY <1>2, <6>1
        <5> HIDE DEF B, e
        <5>3. B \in Seq(Chunks) /\ Len(B) = L BY <1>2, <4>1, <5>1, <5>2
        <5>4. B[L] = e /\ \A l \in 1 .. L : l # L => B[l] = b[l] BY <1>2, <4>1, <5>2
        <5> QED BY <1>2, <4>5, <5>1, <5>3, <5>4
      <4> QED BY <4>6, <4>7
    <3> QED BY <3>1, <3>2
  <2> HIDE DEF B
  <2>3. w \in Seq(Chunks) /\ Len(w) = Len(x)
    <3>1. w \in Seq(Chunks) /\ Len(w) = Len(B) + Len(A) BY <1>7, <2>2, SMTT(30)
    <3> QED BY <1>5, <1>7, <2>2, <3>1
  <2>4. ASSUME NEW l \in 1 .. Len(x)
        PROVE  w[l].text = x[l] /\ w[l].term = TRUE
    <3>1. CASE l <= L
      <4>1. l \in 1 .. Len(B) BY <1>2, <2>2, <3>1
      <4>2. w[l] = B[l] BY <1>7, <2>2, <4>1
      <4> QED BY <2>2, <4>1, <4>2
    <3>2. CASE ~(l <= L)
      <4> DEFINE i == l - L
      <4>1. i \in 1 .. Len(app) /\ L + i = l BY <1>2, <1>4, <1>5, <3>2
      <4>2. l \in 1 .. (Len(B) + Len(A)) /\ ~(l <= Len(B)) /\ l - Len(B) = i
        BY <1>2, <1>4, <1>5, <1>7, <2>2, <3>2
      <4>3. w[l] = A[l - Len(B)] BY <1>7, <2>2, <4>2
      <4>4. w[l] = A[i] BY <4>2, <4>3
      <4> HIDE DEF i
      <4> QED BY <1>6, <1>7, <4>1, <4>4
    <3> QED BY <3>1, <3>2
  <2> HIDE DEF w
  <2>5. Reopened(w) = x BY <1>1, <1>5, <2>3, <2>4, ReopensTo
  <2> QED BY <1>1, <2>5 DEF x
<1> QED BY <1>8, <1>9

\* A file saved from any reachable overlay, as it stands or converted, has
\* the lines of the view when it is opened again, unless its last line is
\* empty and was never ended (write_stream, save_converted): in every
\* encoding whose newline is told by its last byte.
THEOREM SavesReopen == ASSUME OneByteNewlines PROVE Spec => []SavedReopens
<1>1. ASSUME Sound PROVE SavedReopens
  <2>1. Tidy(events) BY <1>1, SoundFacts
  <2> QED BY <2>1, ConvertedReopens, WrittenReopens DEF SavedReopens, Now, ViewOf
<1> QED BY <1>1, OvInvariance, PTL

-----------------------------------------------------------------------------
(* Joining parts one at a time.                                            *)

\* f[k] is the first k parts of r joined.
Joins(f, r) ==
    /\ f[0] = <<>> /\ f[Len(r)] = FlattenSeq(r)
    /\ \A k \in 1 .. Len(r) : f[k] = f[k - 1] \o r[k]
    /\ \A k \in 0 .. Len(r) : f[k] \in Seq(Text)

LEMMA JoinsExist ==
    ASSUME NEW r \in Seq(Seq(Text))
    PROVE  \E f : Joins(f, r)
<1>1. CASE r = <<>>
  <2> DEFINE f == [k \in 0 .. 0 |-> <<>>]
  <2>1. Len(r) = 0 /\ FlattenSeq(r) = <<>> BY <1>1 DEF FlattenSeq
  <2>2. f[0] = <<>> /\ \A k \in 0 .. 0 : k = 0 OBVIOUS
  <2> HIDE DEF f
  <2>3. <<>> \in Seq(Text) OBVIOUS
  <2>5. \A k \in 1 .. Len(r) : FALSE BY <2>1
  <2>6. \A k \in 0 .. Len(r) : k = 0 BY <2>1
  <2>4. Joins(f, r) BY <2>1, <2>2, <2>3, <2>5, <2>6 DEF Joins
  <2> QED BY <2>4
<1>2. CASE r # <<>>
  <2>1. PICK g : /\ g[1] = r[1]
                 /\ \A k \in 2 .. Len(r) : g[k] = g[k - 1] \o r[k]
                 /\ FlattenSeq(r) = g[Len(r)]
    BY <1>2, FlattenSteps
  <2>2. Len(r) \in Nat \ {0} /\ \A k \in 1 .. Len(r) : r[k] \in Seq(Text) BY <1>2
  <2> DEFINE L == Len(r)
             f == [k \in 0 .. L |-> IF k = 0 THEN <<>> ELSE g[k]]
  <2>3. f[0] = <<>> /\ \A k \in 1 .. L : f[k] = g[k] BY <2>2
  <2> HIDE DEF f
  <2>4. ASSUME NEW k \in 1 .. L PROVE f[k] = f[k - 1] \o r[k]
    <3>1. CASE k = 1
      <4>1. <<>> \o r[1] = r[1]
        <5>1. r[1] \in Seq(Text) BY <2>2
        <5> QED BY <5>1, ConcatEmptySeq
      <4>2. f[1] = r[1] /\ f[1 - 1] = <<>> BY <2>1, <2>2, <2>3
      <4> QED BY <3>1, <4>1, <4>2
    <3>2. CASE k # 1
      <4>1. k \in 2 .. L /\ k - 1 \in 1 .. L BY <2>2, <3>2
      <4> QED BY <2>1, <2>3, <4>1
    <3> QED BY <3>1, <3>2
  <2>5. \A k \in 0 .. L : f[k] \in Seq(Text)
    <3> DEFINE Q == {k \in 0 .. L : f[k] \in Seq(Text)}
    <3>0. 0 \in 0 .. L /\ f[0] \in Seq(Text)
      <4>1. <<>> \in Seq(Text) OBVIOUS
      <4>2. 0 \in 0 .. L BY <2>2
      <4> HIDE DEF L
      <4> QED BY <2>3, <4>1, <4>2
    <3>1. 0 \in Q BY <3>0
    <3>2. \A k \in 1 .. L : k - 1 \in Q => k \in Q
      <4> TAKE k \in 1 .. L
      <4> HAVE k - 1 \in Q
      <4>1. f[k - 1] \in Seq(Text) /\ r[k] \in Seq(Text) BY <2>2
      <4>2. f[k - 1] \o r[k] \in Seq(Text) BY <4>1, ConcatProperties
      <4>3. f[k] \in Seq(Text) BY <2>4, <4>2
      <4>4. k \in 0 .. L BY <2>2
      <4> QED BY <4>3, <4>4
    <3>3. L \in Nat BY <2>2
    <3> HIDE DEF Q, L
    <3>4. \A k \in 0 .. L : k \in Q BY <3>1, <3>2, <3>3, Climb
    <3> QED BY <3>4 DEF Q
  <2>6. f[L] = FlattenSeq(r) BY <2>1, <2>2, <2>3
  <2>7. Joins(f, r) BY <2>3, <2>4, <2>5, <2>6 DEF Joins
  <2> QED BY <2>7
<1> QED BY <1>1, <1>2

Joint(r) == CHOOSE f : Joins(f, r)

LEMMA JointJoins ==
    ASSUME NEW r \in Seq(Seq(Text))
    PROVE  Joins(Joint(r), r)
<1>1. \E f : Joins(f, r) BY JoinsExist
<1> HIDE DEF Joins
<1> QED BY <1>1 DEF Joint

\* Empty parts add nothing.
LEMMA JoinsQuiet ==
    ASSUME NEW r, NEW f, Joins(f, r), Len(r) \in Nat,
           NEW b \in 0 .. Len(r), NEW c \in b .. Len(r),
           \A k \in (b + 1) .. c : r[k] = <<>>
    PROVE  f[c] = f[b]
<1> DEFINE L == c - b
           Q == {k \in 0 .. L : f[b + k] = f[b]}
<1>1. L \in Nat /\ b \in Nat /\ c \in Nat /\ b + L = c OBVIOUS
<1>2. 0 \in Q BY <1>1
<1>3. \A k \in 1 .. L : k - 1 \in Q => k \in Q
  <2> TAKE k \in 1 .. L
  <2> HAVE k - 1 \in Q
  <2>1. b + k \in 1 .. Len(r) /\ b + k \in (b + 1) .. c /\ (b + k) - 1 = b + (k - 1)
        /\ b + (k - 1) \in 0 .. Len(r)
    BY <1>1
  <2>2. f[b + (k - 1)] = f[b] OBVIOUS
  <2>3. f[b + k] = f[b + (k - 1)] \o r[b + k] BY <2>1 DEF Joins
  <2>4. r[b + k] = <<>> BY <2>1
  <2>5. f[b + (k - 1)] \in Seq(Text) BY <2>1 DEF Joins
  <2>6. f[b + k] = f[b + (k - 1)] BY <2>3, <2>4, <2>5, ConcatEmptySeq
  <2> QED BY <2>2, <2>6
<1>4. \A k \in 0 .. L : k \in Q
  <2> HIDE DEF Q, L
  <2> QED BY <1>1, <1>2, <1>3, Climb
<1>5. L \in Q BY <1>1, <1>4
<1> QED BY <1>1, <1>5

LEMMA Regroup ==
    \A x, y, z : x \in Seq(Text) /\ y \in Seq(Text) /\ z \in Seq(Text)
                 => (x \o y) \o z = x \o (y \o z)
BY ConcatAssociative

-----------------------------------------------------------------------------
(* Re-anchoring: s is the overlay a save wrote, t the live one.            *)

\* The overlay s changed no line that a view cuts short.
ShortChanged(s) ==
    \A a \in DOMAIN s :
        a <= Len(Base) /\ Base[a] \in Long => ~s[a].deleted /\ s[a].replacement = None

\* The line of its own at anchor a, as a part of a view.
Own(base, ev, a) == IF Alive(base, ev, a) THEN <<OwnText(base, ev, a)>> ELSE <<>>

\* The insertions of t at a past those of s.
More(s, t, a) ==
    SubSeq(At(t, a).inserts, Len(At(s, a).inserts) + 1, Len(At(t, a).inserts))

LEMMA ShortAt ==
    ASSUME NEW s, ShortChanged(s), NEW a, a <= Len(Base), Base[a] \in Long
    PROVE  ~At(s, a).deleted /\ At(s, a).replacement = None
BY DEF ShortChanged, At, NoEvent

LEMMA OwnFacts ==
    ASSUME NEW ev, Tidy(ev), NEW a \in Regions(Base)
    PROVE  /\ Own(Base, ev, a) \in Seq(Text)
           /\ Region(Base, ev, a) = At(ev, a).inserts \o Own(Base, ev, a)
<1>1. Own(Base, ev, a) \in Seq(Text)
  <2>1. CASE Alive(Base, ev, a)
    <3>1. a \in 1 .. Len(Base) BY <2>1, BaseFacts DEF Alive
    <3>2. At(ev, a).replacement \in Text \cup {None} BY SizeFacts
    <3>3. OwnText(Base, ev, a) \in Text BY <3>1, <3>2, BaseFacts DEF OwnText
    <3> QED BY <2>1, <3>3 DEF Own
  <2>2. CASE ~Alive(Base, ev, a)
    <3>1. <<>> \in Seq(Text) OBVIOUS
    <3> QED BY <2>2, <3>1 DEF Own
  <2> QED BY <2>1, <2>2
<1> QED BY <1>1 DEF Region, Own

LEMMA SurplusIs ==
    ASSUME NEW s, Tidy(s), NEW t, Tidy(t), ShortChanged(s), NEW a \in Regions(Base)
    PROVE  /\ More(s, t, a) \in Seq(Text) /\ Surplus(s, t, a) \in Seq(Text)
           /\ Alive(Base, s, a) => Surplus(s, t, a) = More(s, t, a)
           /\ ~Alive(Base, s, a) => Surplus(s, t, a) = More(s, t, a) \o Own(Base, t, a)
<1> DEFINE m == More(s, t, a)
           w == Own(Base, t, a)
<1>1. /\ At(t, a).inserts \in Seq(Text) /\ Len(At(t, a).inserts) \in Nat
      /\ Len(At(s, a).inserts) \in Nat
  BY SizeFacts
<1>2. m \in Seq(Text)
  <2> DEFINE x == At(t, a).inserts
             i == Len(At(s, a).inserts) + 1
             j == Len(x)
  <2>1. x \in Seq(Text) /\ i \in Int /\ j \in Int /\ \A k \in i .. j : x[k] \in Text BY <1>1
  <2>2. m = SubSeq(x, i, j) BY DEF More
  <2> HIDE DEF x, i, j, m
  <2> QED BY <2>1, <2>2, SubSeqProperties
<1>3. w \in Seq(Text) BY OwnFacts
<1>4. CASE Alive(Base, s, a)
  <2>1. Surplus(s, t, a) = m \o <<>> BY <1>4 DEF Surplus, More
  <2> HIDE DEF m
  <2>2. Surplus(s, t, a) = m BY <1>2, <2>1, ConcatEmptySeq
  <2> QED BY <1>2, <1>4, <2>2 DEF m
<1>5. CASE ~Alive(Base, s, a)
  <2>1. Surplus(s, t, a) = m \o w
    <3>1. CASE ~Alive(Base, t, a) BY <1>5, <3>1 DEF Surplus, More, Own
    <3>2. CASE Alive(Base, t, a)
      <4>1. a <= Len(Base) BY <3>2 DEF Alive
      <4>2. Base[a] \notin Long BY <1>5, <4>1, ShortAt DEF Alive
      <4>3. Original(a) = Base[a] BY <4>2 DEF Original, Shown
      <4>4. OwnText(Base, t, a) = IF At(t, a).replacement # None
                                  THEN At(t, a).replacement ELSE Original(a)
        BY <4>3 DEF OwnText
      <4> QED BY <1>5, <3>2, <4>4 DEF Surplus, More, Own
    <3> QED BY <3>1, <3>2
  <2> HIDE DEF m, w
  <2>2. m \o w \in Seq(Text) BY <1>2, <1>3, ConcatProperties
  <2> QED BY <1>2, <1>5, <2>1, <2>2 DEF m, w
<1> QED BY <1>4, <1>5

LEMMA RebasedAt ==
    ASSUME NEW s, NEW t, NEW q \in 1 .. (TotalLines(Base, s) + 1)
    PROVE  At(Rebased(s, t), q) = RebasedEvent(s, t, q)
BY DEF At, Rebased

\* The line of the saved file that s had inserted at a, i-th.
LEMMA RebasedInsert ==
    ASSUME NEW s, Tidy(s), NEW t, Tidy(t), NEW a \in Regions(Base),
           NEW i \in 1 .. Len(At(s, a).inserts)
    PROVE  LET q == (From(s, a) + i) - 1 IN
           Own(View(Base, s), Rebased(s, t), q) =
               IF i <= Len(At(t, a).inserts) THEN <<At(t, a).inserts[i]>> ELSE <<>>
<1> DEFINE q == (From(s, a) + i) - 1
           S == View(Base, s)
           ev == Rebased(s, t)
           x == At(t, a).inserts
           y == At(s, a).inserts
           ref == Locate(Base, s, q)
<1>1. Len(y) \in Nat /\ Len(x) \in Nat /\ x \in Seq(Text) /\ y \in Seq(Text) /\ i \in 1 .. Size(s, a)
  <2>1. /\ Len(y) \in Nat /\ Len(x) \in Nat /\ x \in Seq(Text) /\ y \in Seq(Text)
        /\ Size(s, a) \in Nat /\ Size(s, a) = Len(y) + (IF Alive(Base, s, a) THEN 1 ELSE 0)
    BY SizeFacts
  <2>2. i \in 1 .. Size(s, a)
    <3> DEFINE n == Len(y)
    <3>1. i \in 1 .. n /\ n \in Nat /\ (Size(s, a) = n + 1 \/ Size(s, a) = n + 0) BY <2>1
    <3> HIDE DEF n
    <3> QED BY <3>1
  <2> QED BY <2>1, <2>2
<1>2. q \in 1 .. Count(s) /\ ref = [anchor |-> a, index |-> i] BY <1>1, LocateIs
<1>3. Count(s) \in Nat /\ Len(S) = Count(s) /\ S[q] = Region(Base, s, a)[i] BY <1>1, FromFacts, ViewFacts
<1>4. S[q] = y[i] BY <1>3, RegionFacts
<1>5. IsInsert(s, ref) BY <1>2 DEF IsInsert
<1>6. GoneNow(s, t, ref) <=> i > Len(x) BY <1>2, <1>5 DEF GoneNow
<1>7. ReplacementNow(s, t, ref) = IF x[i] = y[i] THEN None ELSE x[i] BY <1>2, <1>5 DEF ReplacementNow
<1> DEFINE e == RebasedEvent(s, t, q)
<1>8. At(ev, q) = e
  <2>1. q \in 1 .. (TotalLines(Base, s) + 1) BY <1>2, <1>3 DEF Count
  <2> HIDE DEF q
  <2> QED BY <2>1, RebasedAt
<1>9. q <= TotalLines(Base, s) /\ q <= Len(S) BY <1>2, <1>3 DEF Count
<1> HIDE DEF q, S
<1>10. e.deleted = (i > Len(x)) /\ e.replacement = IF i > Len(x) THEN None ELSE ReplacementNow(s, t, ref)
  <2>1. /\ e.deleted = (q <= TotalLines(Base, s) /\ ~(q <= TotalLines(Base, s) /\ ~GoneNow(s, t, ref)))
        /\ e.replacement = IF q <= TotalLines(Base, s) /\ ~GoneNow(s, t, ref)
                            THEN ReplacementNow(s, t, ref) ELSE None
    BY DEF RebasedEvent
  <2> HIDE DEF e, ref, x
  <2>2. CASE i > Len(x) BY <1>6, <1>9, <2>1, <2>2
  <2>3. CASE ~(i > Len(x)) BY <1>6, <1>9, <2>1, <2>3
  <2> QED BY <2>2, <2>3
<1> HIDE DEF e, ev, ref, x, y
<1>11. CASE i <= Len(x)
  <2>1. ~(i > Len(x)) /\ x[i] \in Text BY <1>1, <1>11
  <2>2. Alive(S, ev, q) BY <1>8, <1>9, <1>10, <2>1 DEF Alive
  <2>3. OwnText(S, ev, q) = x[i]
    BY <1>4, <1>7, <1>8, <1>10, <2>1, BaseFacts DEF OwnText
  <2> QED BY <1>11, <2>2, <2>3 DEF Own, S, q, ev, x
<1>12. CASE ~(i <= Len(x))
  <2>1. i > Len(x) BY <1>1, <1>12
  <2>2. ~Alive(S, ev, q) BY <1>8, <1>10, <2>1 DEF Alive
  <2> QED BY <1>12, <2>2 DEF Own, S, q, ev, x
<1> QED BY <1>11, <1>12

\* The line of the saved file that a line of the document became.
LEMMA RebasedOwn ==
    ASSUME NEW s, Tidy(s), NEW t, Tidy(t), ShortChanged(s), NEW a \in Regions(Base),
           Alive(Base, s, a)
    PROVE  Own(View(Base, s), Rebased(s, t), From(s, a) + Len(At(s, a).inserts))
               = Own(Base, t, a)
<1> DEFINE y == At(s, a).inserts
           n == Len(y)
           i == n + 1
           q == From(s, a) + n
           S == View(Base, s)
           ev == Rebased(s, t)
           ref == Locate(Base, s, q)
           e == RebasedEvent(s, t, q)
           f == At(t, a)
           g == At(s, a)
<1>1. /\ n \in Nat /\ Size(s, a) = n + 1 /\ From(s, a) \in Nat
      /\ f.deleted \in BOOLEAN /\ f.replacement \in Text \cup {None}
      /\ g.replacement \in Text \cup {None}
  BY SizeFacts, FromFacts
<1>2. i \in 1 .. Size(s, a) /\ (From(s, a) + i) - 1 = q
  <2> HIDE DEF n
  <2> QED BY <1>1
<1>3. q \in 1 .. Count(s) /\ ref = [anchor |-> a, index |-> i]
  <2> HIDE DEF i, q
  <2>1. (From(s, a) + i) - 1 \in 1 .. Count(s)
        /\ Locate(Base, s, (From(s, a) + i) - 1) = [anchor |-> a, index |-> i]
    BY <1>2, LocateIs
  <2> QED BY <1>2, <2>1
<1>4. Count(s) \in Nat /\ Len(S) = Count(s) /\ S[q] = Region(Base, s, a)[i]
  <2> HIDE DEF i, q
  <2>1. S[(From(s, a) + i) - 1] = Region(Base, s, a)[i] BY <1>2, ViewFacts
  <2> QED BY <1>2, <2>1, FromFacts, ViewFacts
<1>5. S[q] = OwnText(Base, s, a) BY <1>4, RegionFacts
<1>6. ~IsInsert(s, ref) BY <1>1, <1>3 DEF IsInsert
<1>7. GoneNow(s, t, ref) = f.deleted BY <1>3, <1>6 DEF GoneNow
<1>8. ReplacementNow(s, t, ref) =
        IF f.replacement = g.replacement THEN None
        ELSE IF f.replacement # None THEN f.replacement ELSE Original(a)
  BY <1>3, <1>6 DEF ReplacementNow
<1>9. At(ev, q) = e /\ q <= TotalLines(Base, s) /\ q <= Len(S)
  <2>1. q \in 1 .. (TotalLines(Base, s) + 1) /\ q <= TotalLines(Base, s) /\ q <= Len(S)
    BY <1>3, <1>4 DEF Count
  <2> HIDE DEF q, S
  <2> QED BY <2>1, RebasedAt
<1>10. e.deleted = f.deleted
       /\ e.replacement = IF f.deleted THEN None ELSE ReplacementNow(s, t, ref)
  <2>1. /\ e.deleted = (q <= TotalLines(Base, s) /\ ~(q <= TotalLines(Base, s) /\ ~GoneNow(s, t, ref)))
        /\ e.replacement = IF q <= TotalLines(Base, s) /\ ~GoneNow(s, t, ref)
                           THEN ReplacementNow(s, t, ref) ELSE None
    BY DEF RebasedEvent
  <2> HIDE DEF e, ref, f, q
  <2>2. CASE f.deleted = TRUE BY <1>7, <1>9, <2>1, <2>2
  <2>3. CASE f.deleted = FALSE BY <1>7, <1>9, <2>1, <2>3
  <2> QED BY <1>1, <2>2, <2>3
<1>11. a <= Len(Base) BY DEF Alive
<1>12. Alive(S, ev, q) = Alive(Base, t, a)
  <2> HIDE DEF S, ev, q, e
  <2> QED BY <1>1, <1>9, <1>10, <1>11 DEF Alive
<1>13. ASSUME Alive(Base, t, a) PROVE OwnText(S, ev, q) = OwnText(Base, t, a)
  <2>1. f.deleted = FALSE BY <1>1, <1>13 DEF Alive
  <2>2. e.replacement = IF f.replacement = g.replacement THEN None
                        ELSE IF f.replacement # None THEN f.replacement ELSE Original(a)
    BY <1>8, <1>10, <2>1
  <2>3. a \in 1 .. Len(Base) BY <1>11, BaseFacts
  <2>4. Base[a] \in Text /\ None \notin Text BY <2>3, BaseFacts
  <2>5. OwnText(S, ev, q) = IF e.replacement = None THEN S[q] ELSE e.replacement
    BY <1>9 DEF OwnText
  <2>6. S[q] = IF g.replacement = None THEN Base[a] ELSE g.replacement BY <1>5 DEF OwnText
  <2>7. OwnText(Base, t, a) = IF f.replacement = None THEN Base[a] ELSE f.replacement
    BY DEF OwnText
  <2>8. Base[a] \in Long => g.replacement = None BY <1>11, ShortAt
  <2>9. Base[a] \notin Long => Original(a) = Base[a] BY DEF Original, Shown
  <2> HIDE DEF S, ev, q, e, f, g
  <2>10. CASE f.replacement = g.replacement BY <2>2, <2>5, <2>6, <2>7, <2>10
  <2>11. CASE f.replacement # g.replacement /\ f.replacement # None
    BY <2>2, <2>5, <2>6, <2>7, <2>11
  <2>12. CASE f.replacement # g.replacement /\ f.replacement = None
    <3>1. e.replacement = Base[a] BY <2>2, <2>8, <2>9, <2>12
    <3> QED BY <2>4, <2>5, <2>7, <2>12, <3>1
  <2> QED BY <2>10, <2>11, <2>12
<1> HIDE DEF S, ev, q
<1>14. Own(S, ev, q) = Own(Base, t, a) BY <1>12, <1>13 DEF Own
<1> QED BY <1>14 DEF S, ev, q

\* The surplus that goes before line q of the saved file, anchor by anchor.
Rows(s, t, q) ==
    [a \in Regions(Base) |-> IF AfterInserts(s, a) = q THEN Surplus(s, t, a) ELSE <<>>]

LEMMA RowsFacts ==
    ASSUME NEW s, Tidy(s), NEW t, Tidy(t), ShortChanged(s), NEW q
    PROVE  /\ Rows(s, t, q) \in Seq(Seq(Text)) /\ Len(Rows(s, t, q)) = Len(Base) + 1
           /\ \A a \in Regions(Base) :
                Rows(s, t, q)[a] = IF AfterInserts(s, a) = q THEN Surplus(s, t, a) ELSE <<>>
           /\ Joins(Joint(Rows(s, t, q)), Rows(s, t, q))
<1> DEFINE r == Rows(s, t, q)
           M == Len(Base) + 1
<1>1. \A a \in Regions(Base) : r[a] = IF AfterInserts(s, a) = q THEN Surplus(s, t, a) ELSE <<>>
  BY DEF Rows
<1>2. M \in Nat /\ Regions(Base) = 1 .. M BY BaseFacts DEF Regions
<1>3. r = [a \in 1 .. M |-> r[a]] BY <1>2 DEF Rows
<1>4. \A a \in 1 .. M : r[a] \in Seq(Text)
  <2> TAKE a \in 1 .. M
  <2>1. a \in Regions(Base) BY <1>2
  <2>2. <<>> \in Seq(Text) OBVIOUS
  <2> QED BY <1>1, <2>1, <2>2, SurplusIs
<1>5. r \in Seq(Seq(Text)) /\ Len(r) = M
  <2> HIDE DEF r, M
  <2> QED BY <1>2, <1>3, <1>4
<1> HIDE DEF r
<1>6. Joins(Joint(r), r) BY <1>5, JointJoins
<1> QED BY <1>1, <1>5, <1>6 DEF r

LEMMA RowsJoin ==
    ASSUME NEW s, Tidy(s), NEW t, Tidy(t), ShortChanged(s), NEW q
    PROVE  LET h == Joint(Rows(s, t, q)) IN
           /\ h[0] = <<>>
           /\ \A k \in 1 .. (Len(Base) + 1) : h[k] = h[k - 1] \o Rows(s, t, q)[k]
           /\ \A k \in 0 .. (Len(Base) + 1) : h[k] \in Seq(Text)
<1> DEFINE r == Rows(s, t, q)
           h == Joint(r)
           M == Len(Base) + 1
<1>1. Joins(h, r) /\ Len(r) = M BY RowsFacts
<1> HIDE DEF h, r, M
<1>2. /\ h[0] = <<>> /\ \A k \in 1 .. M : h[k] = h[k - 1] \o r[k]
      /\ \A k \in 0 .. M : h[k] \in Seq(Text)
  BY <1>1 DEF Joins
<1> QED BY <1>2 DEF h, r, M

\* Region q of the saved file under the re-anchored overlay.
LEMMA RebasedRegion ==
    ASSUME NEW s, NEW t, NEW q \in 1 .. (TotalLines(Base, s) + 1)
    PROVE  Region(View(Base, s), Rebased(s, t), q)
               = FlattenSeq(Rows(s, t, q)) \o Own(View(Base, s), Rebased(s, t), q)
<1>1. At(Rebased(s, t), q) = RebasedEvent(s, t, q) BY RebasedAt
<1>2. RebasedEvent(s, t, q).inserts = FlattenSeq(Rows(s, t, q)) BY DEF RebasedEvent, Rows
<1> QED BY <1>1, <1>2 DEF Region, Own

\* The first i of x, or all of it.
Upto(x, i) == SubSeq(x, 1, IF i <= Len(x) THEN i ELSE Len(x))

LEMMA UptoFacts ==
    ASSUME NEW x \in Seq(Text), NEW n \in Nat
    PROVE  /\ Upto(x, 0) = <<>>
           /\ \A i \in 0 .. n : Upto(x, i) \in Seq(Text)
           /\ \A i \in 1 .. n :
                Upto(x, i) = Upto(x, i - 1) \o (IF i <= Len(x) THEN <<x[i]>> ELSE <<>>)
           /\ Upto(x, n) \o SubSeq(x, n + 1, Len(x)) = x
<1> DEFINE L == Len(x)
<1>1. L \in Nat OBVIOUS
<1>2. Upto(x, 0) = <<>>
  <2>1. Upto(x, 0) = SubSeq(x, 1, 0) BY <1>1 DEF Upto
  <2> QED BY <2>1, SubSeqEmpty
<1>3. ASSUME NEW i \in 0 .. n PROVE Upto(x, i) \in Seq(Text)
  <2> DEFINE j == IF i <= L THEN i ELSE L
  <2>1. j \in Int /\ 1 \in Int /\ \A k \in 1 .. j : x[k] \in Text BY <1>1
  <2> HIDE DEF j
  <2>2. SubSeq(x, 1, j) \in Seq(Text) BY <2>1, SubSeqProperties
  <2> QED BY <2>2 DEF Upto, j
<1>4. ASSUME NEW i \in 1 .. n
      PROVE  Upto(x, i) = Upto(x, i - 1) \o (IF i <= L THEN <<x[i]>> ELSE <<>>)
  <2>1. CASE i <= L
    <3>1. 1 \in 1 .. Len(x) /\ i \in 1 .. Len(x) /\ i - 1 <= Len(x) BY <1>1, <2>1
    <3>2. SubSeq(x, 1, i) = SubSeq(x, 1, i - 1) \o <<x[i]>> BY <3>1, SubSeqRecursiveSecond
    <3> QED BY <2>1, <3>1, <3>2 DEF Upto
  <2>2. CASE ~(i <= L)
    <3>1. Upto(x, i) = SubSeq(x, 1, L) /\ Upto(x, i - 1) = SubSeq(x, 1, L)
      <4>1. i - 1 <= L => i - 1 = L BY <1>1, <2>2
      <4> QED BY <2>2, <4>1 DEF Upto
    <3>2. SubSeq(x, 1, L) = x BY SubSeqFull
    <3>3. x \o <<>> = x BY ConcatEmptySeq
    <3> QED BY <2>2, <3>1, <3>2, <3>3
  <2> QED BY <2>1, <2>2
<1>5. Upto(x, n) \o SubSeq(x, n + 1, L) = x
  <2>1. CASE n <= L
    <3>1. 1 \in 1 .. (Len(x) + 1) /\ n \in (1 - 1) .. Len(x) /\ L \in n .. Len(x) BY <1>1, <2>1
    <3>2. SubSeq(x, 1, n) \o SubSeq(x, n + 1, L) = SubSeq(x, 1, L)
      <4> HIDE DEF L
      <4> QED BY <3>1, ConcatAdjacentSubSeq
    <3>3. SubSeq(x, 1, L) = x BY SubSeqFull
    <3> QED BY <2>1, <3>2, <3>3 DEF Upto
  <2>2. CASE ~(n <= L)
    <3>1. Upto(x, n) = SubSeq(x, 1, L) BY <2>2 DEF Upto
    <3>2. SubSeq(x, n + 1, L) = <<>>
      <4> DEFINE m == n + 1
      <4>1. m \in Int /\ L \in Int /\ L < m BY <1>1, <2>2
      <4> HIDE DEF m, L
      <4>2. SubSeq(x, m, L) = <<>> BY <4>1, SubSeqEmpty
      <4> QED BY <4>2 DEF m
    <3>3. SubSeq(x, 1, L) = x BY SubSeqFull
    <3>4. x \o <<>> = x BY ConcatEmptySeq
    <3> QED BY <3>1, <3>2, <3>3, <3>4
  <2> QED BY <2>1, <2>2
<1> QED BY <1>2, <1>3, <1>4, <1>5

LEMMA AfterFacts ==
    ASSUME NEW s, Tidy(s), NEW a \in Regions(Base)
    PROVE  LET n == Len(At(s, a).inserts) IN
           /\ n \in Nat /\ From(s, a) \in Nat \ {0} /\ Size(s, a) \in Nat
           /\ AfterInserts(s, a) = From(s, a) + n
           /\ Alive(Base, s, a) => Size(s, a) = n + 1
           /\ ~Alive(Base, s, a) => Size(s, a) = n
           /\ From(s, a) + Size(s, a) <= Count(s) + 1
           /\ \A b \in Regions(Base) :
                /\ AfterInserts(s, b) \in Nat
                /\ b < a => AfterInserts(s, b) <= From(s, a)
                /\ b > a => AfterInserts(s, b) >= From(s, a) + Size(s, a)
<1> DEFINE n(c) == Len(At(s, c).inserts)
<1>1. \A c \in Regions(Base) :
        /\ n(c) \in Nat /\ From(s, c) \in Nat \ {0} /\ Size(s, c) \in Nat
        /\ Size(s, c) = n(c) + (IF Alive(Base, s, c) THEN 1 ELSE 0)
  BY SizeFacts, FromFacts
<1>2. \A c \in Regions(Base) : AfterInserts(s, c) = From(s, c) + n(c) BY DEF AfterInserts, From
<1> HIDE DEF n
<1>3. \A c \in Regions(Base) : n(c) <= Size(s, c) BY <1>1
<1>4. ASSUME NEW b \in Regions(Base)
      PROVE  /\ AfterInserts(s, b) \in Nat
             /\ b < a => AfterInserts(s, b) <= From(s, a)
             /\ b > a => AfterInserts(s, b) >= From(s, a) + Size(s, a)
  <2>1. /\ n(b) \in Nat /\ From(s, b) \in Nat /\ Size(s, b) \in Nat /\ n(b) <= Size(s, b)
        /\ From(s, a) \in Nat /\ Size(s, a) \in Nat /\ AfterInserts(s, b) = From(s, b) + n(b)
    BY <1>1, <1>2, <1>3
  <2>2. b < a => From(s, b) + Size(s, b) <= From(s, a) BY FromGrows
  <2>3. a < b => From(s, a) + Size(s, a) <= From(s, b) BY FromGrows
  <2>4. a \in Nat /\ b \in Nat BY BaseFacts
  <2> QED BY <2>1, <2>2, <2>3, <2>4
<1>5. Size(s, a) = n(a) + 0 => Size(s, a) = n(a) BY <1>1
<1>6. From(s, a) + Size(s, a) <= Count(s) + 1 BY FromEnds
<1> QED BY <1>1, <1>2, <1>4, <1>5, <1>6 DEF n

\* The rows of line q up to anchor c, when none past b belongs to it.
LEMMA RowsQuiet ==
    ASSUME NEW s, Tidy(s), NEW t, Tidy(t), ShortChanged(s), NEW q,
           NEW b \in 0 .. (Len(Base) + 1), NEW c \in b .. (Len(Base) + 1),
           \A a \in Regions(Base) : b < a /\ a <= c => AfterInserts(s, a) # q
    PROVE  Joint(Rows(s, t, q))[c] = Joint(Rows(s, t, q))[b]
<1> DEFINE r == Rows(s, t, q)
           f == Joint(r)
<1>1. Joins(f, r) /\ Len(r) = Len(Base) + 1 /\ Len(Base) \in Nat BY RowsFacts, BaseFacts
<1>2. \A k \in (b + 1) .. c : r[k] = <<>>
  <2> TAKE k \in (b + 1) .. c
  <2>1. k \in Regions(Base) /\ b < k /\ k <= c BY BaseFacts DEF Regions
  <2>2. AfterInserts(s, k) # q BY <2>1
  <2> QED BY <2>1, <2>2, RowsFacts
<1>3. Len(r) \in Nat /\ b \in 0 .. Len(r) /\ c \in b .. Len(r) BY <1>1
<1> HIDE DEF f, r
<1>4. f[c] = f[b] BY <1>1, <1>2, <1>3, JoinsQuiet
<1> QED BY <1>4 DEF f, r

\* The saved file's view under the re-anchored overlay, line by line.
LEMMA RebasedJoins ==
    ASSUME NEW s, Tidy(s), NEW t, Tidy(t), ShortChanged(s)
    PROVE  \E f : /\ f[0] = <<>> /\ \A q \in 0 .. (Count(s) + 1) : f[q] \in Seq(Text)
                  /\ \A q \in 1 .. (Count(s) + 1) :
                       /\ f[q] = f[q - 1] \o (Joint(Rows(s, t, q))[Len(Base) + 1]
                                               \o Own(View(Base, s), Rebased(s, t), q))
                       /\ Own(View(Base, s), Rebased(s, t), q) \in Seq(Text)
                  /\ Own(View(Base, s), Rebased(s, t), Count(s) + 1) = <<>>
                  /\ View(View(Base, s), Rebased(s, t)) = f[Count(s) + 1]
<1> DEFINE S == View(Base, s)
           ev == Rebased(s, t)
           C == Count(s)
           E == C + 1
           r == [q \in 1 .. E |-> Region(S, ev, q)]
<1>1. C \in Nat /\ Len(S) = C BY FromFacts, ViewFacts
<1>2. View(S, ev) = FlattenSeq(r) BY <1>1 DEF View, Regions
<1>3. Own(S, ev, E) = <<>>
  <2>1. ~(E <= Len(S)) BY <1>1
  <2> HIDE DEF E, S, ev
  <2> QED BY <2>1 DEF Own, Alive
<1>4. ASSUME NEW q \in 1 .. E PROVE Own(S, ev, q) \in Seq(Text)
  <2>1. <<>> \in Seq(Text) OBVIOUS
  <2>2. CASE q = E BY <1>3, <2>1, <2>2
  <2>3. CASE q # E
    <3>1. q \in 1 .. Count(s) BY <1>1, <2>3
    <3>2. PICK a \in Regions(Base) : \E i \in 1 .. Size(s, a) : q = (From(s, a) + i) - 1
      BY <3>1, LocateFinds
    <3>3. PICK i \in 1 .. Size(s, a) : q = (From(s, a) + i) - 1 BY <3>2
    <3> DEFINE n == Len(At(s, a).inserts)
               x == At(t, a).inserts
    <3>4. /\ n \in Nat /\ From(s, a) \in Nat /\ x \in Seq(Text)
          /\ Alive(Base, s, a) => Size(s, a) = n + 1
          /\ ~Alive(Base, s, a) => Size(s, a) = n
      BY AfterFacts, SizeFacts
    <3>5. CASE i <= n
      <4>1. i \in 1 .. n BY <3>4, <3>5
      <4>2. Own(S, ev, q) = IF i <= Len(x) THEN <<x[i]>> ELSE <<>> BY <3>3, <4>1, RebasedInsert
      <4> HIDE DEF x
      <4>3. i <= Len(x) => x[i] \in Text BY <3>4, <4>1
      <4> HIDE DEF S, ev
      <4> QED BY <2>1, <4>2, <4>3
    <3>6. CASE ~(i <= n)
      <4> DEFINE z == From(s, a)
                 k == Size(s, a)
      <4>1. Alive(Base, s, a) /\ q = z + n
        <5>1. i \in 1 .. k /\ q = (z + i) - 1 /\ z \in Nat /\ n \in Nat BY <3>3, <3>4
        <5>2. (Alive(Base, s, a) => k = n + 1) /\ (~Alive(Base, s, a) => k = n) BY <3>4
        <5> HIDE DEF z, k, n
        <5> QED BY <3>6, <5>1, <5>2
      <4>2. Own(S, ev, q) = Own(Base, t, a) BY <4>1, RebasedOwn
      <4> QED BY <4>2, OwnFacts
    <3> QED BY <3>5, <3>6
  <2> QED BY <2>2, <2>3
<1> DEFINE h(q) == Joint(Rows(s, t, q))[Len(Base) + 1]
           o(q) == Own(S, ev, q)
<1>5. ASSUME NEW q \in 1 .. E
      PROVE  r[q] = h(q) \o o(q) /\ h(q) \o o(q) \in Seq(Text)
  <2>1. q \in 1 .. (TotalLines(Base, s) + 1) BY DEF Count
  <2>2. Region(S, ev, q) = FlattenSeq(Rows(s, t, q)) \o o(q) BY <2>1, RebasedRegion
  <2>3. Joins(Joint(Rows(s, t, q)), Rows(s, t, q)) /\ Len(Rows(s, t, q)) = Len(Base) + 1
    BY RowsFacts
  <2>4. h(q) = FlattenSeq(Rows(s, t, q)) /\ h(q) \in Seq(Text)
    <3>1. Len(Base) + 1 \in 0 .. (Len(Base) + 1) BY BaseFacts
    <3> QED BY <2>3, <3>1 DEF Joins
  <2>5. o(q) \in Seq(Text) BY <1>4
  <2>6. r[q] = Region(S, ev, q) OBVIOUS
  <2> HIDE DEF h, o, r
  <2>7. h(q) \o o(q) \in Seq(Text) BY <2>4, <2>5, ConcatProperties
  <2> QED BY <2>2, <2>4, <2>6, <2>7
<1>6. r = [q \in 1 .. E |-> r[q]] OBVIOUS
<1> HIDE DEF r, h, o
<1>7. r \in Seq(Seq(Text)) /\ Len(r) = E
  <2>1. E \in Nat BY <1>1
  <2>2. \A q \in 1 .. E : r[q] \in Seq(Text)
    <3> TAKE q \in 1 .. E
    <3>1. r[q] = h(q) \o o(q) /\ h(q) \o o(q) \in Seq(Text) BY <1>5
    <3> QED BY <3>1
  <2> HIDE DEF E
  <2> QED BY <1>6, <2>1, <2>2
<1>8. Joins(Joint(r), r) BY <1>7, JointJoins
<1> DEFINE f == Joint(r)
<1> HIDE DEF f
<1>9. /\ f[0] = <<>> /\ f[E] = FlattenSeq(r) /\ \A q \in 1 .. E : f[q] = f[q - 1] \o r[q]
      /\ \A q \in 0 .. E : f[q] \in Seq(Text)
  BY <1>7, <1>8 DEF Joins, f
<1>10. \A q \in 1 .. E : f[q] = f[q - 1] \o (h(q) \o o(q)) /\ o(q) \in Seq(Text)
  <2> TAKE q \in 1 .. E
  <2>1. o(q) \in Seq(Text) BY <1>4 DEF o
  <2> QED BY <1>5, <1>9, <2>1
<1>11. View(S, ev) = f[E] BY <1>2, <1>9
<1> HIDE DEF S, ev
<1> QED BY <1>3, <1>9, <1>10, <1>11 DEF h, o, S, ev

\* f carries what the live overlay shows up to anchor k over to line q.
Carries(s, t, f, q, k, v) == f[q - 1] \o Joint(Rows(s, t, q))[k] = v

\* One anchor of the live overlay, carried over the lines of its region.
LEMMA RegionCarries ==
    ASSUME NEW s, Tidy(s), NEW t, Tidy(t), ShortChanged(s), NEW a \in Regions(Base),
           NEW f, NEW v \in Seq(Text),
           \A q \in 0 .. (Count(s) + 1) : f[q] \in Seq(Text),
           \A q \in 1 .. (Count(s) + 1) :
                /\ f[q] = f[q - 1] \o (Joint(Rows(s, t, q))[Len(Base) + 1]
                                        \o Own(View(Base, s), Rebased(s, t), q))
                /\ Own(View(Base, s), Rebased(s, t), q) \in Seq(Text),
           Carries(s, t, f, From(s, a), a - 1, v)
    PROVE  Carries(s, t, f, From(s, a) + Size(s, a), a, v \o Region(Base, t, a))
<1> DEFINE M == Len(Base) + 1
           C == Count(s)
           p == From(s, a)
           z == Size(s, a)
           n == Len(At(s, a).inserts)
           x == At(t, a).inserts
           h(q) == Joint(Rows(s, t, q))
           o(q) == Own(View(Base, s), Rebased(s, t), q)
           after(b) == AfterInserts(s, b)
<1>1. /\ n \in Nat /\ p \in Nat \ {0} /\ z \in Nat /\ after(a) = p + n
      /\ (Alive(Base, s, a) => z = n + 1) /\ (~Alive(Base, s, a) => z = n) /\ p + z <= C + 1
      /\ \A b \in Regions(Base) :
            /\ after(b) \in Nat
            /\ b < a => after(b) <= p
            /\ b > a => after(b) >= p + z
  BY AfterFacts
<1>2. C \in Nat /\ M \in Nat /\ Regions(Base) = 1 .. M /\ a \in 1 .. M
  BY FromFacts, BaseFacts DEF Regions
<1>3. x \in Seq(Text) /\ Region(Base, t, a) = x \o Own(Base, t, a) /\ Own(Base, t, a) \in Seq(Text)
  BY SizeFacts, OwnFacts
<1>4. /\ More(s, t, a) \in Seq(Text) /\ Surplus(s, t, a) \in Seq(Text)
      /\ Alive(Base, s, a) => Surplus(s, t, a) = More(s, t, a)
      /\ ~Alive(Base, s, a) => Surplus(s, t, a) = More(s, t, a) \o Own(Base, t, a)
  BY SurplusIs
<1>5. \A i \in 1 .. n : o((p + i) - 1) = IF i <= Len(x) THEN <<x[i]>> ELSE <<>>
  BY RebasedInsert
<1>6. Alive(Base, s, a) => o(p + n) = Own(Base, t, a) BY RebasedOwn
<1>7. \A q : \A b \in 0 .. M : \A c \in b .. M :
        (\A d \in Regions(Base) : b < d /\ d <= c => after(d) # q) => h(q)[c] = h(q)[b]
  BY RowsQuiet
<1>8. \A q : /\ h(q)[0] = <<>> /\ \A k \in 1 .. M : h(q)[k] = h(q)[k - 1] \o Rows(s, t, q)[k]
             /\ \A k \in 0 .. M : h(q)[k] \in Seq(Text)
  BY RowsJoin, ZenonT(60)
<1>9. \A q : \A k \in Regions(Base) :
        Rows(s, t, q)[k] = IF after(k) = q THEN Surplus(s, t, k) ELSE <<>>
  BY RowsFacts
<1>10. \A q \in 1 .. (C + 1) : f[q] = f[q - 1] \o (h(q)[M] \o o(q)) /\ o(q) \in Seq(Text)
  OBVIOUS
<1>11. /\ Upto(x, 0) = <<>>
       /\ \A i \in 0 .. n : Upto(x, i) \in Seq(Text)
       /\ \A i \in 1 .. n :
            Upto(x, i) = Upto(x, i - 1) \o (IF i <= Len(x) THEN <<x[i]>> ELSE <<>>)
       /\ Upto(x, n) \o More(s, t, a) = x
  <2>1. More(s, t, a) = SubSeq(x, n + 1, Len(x)) BY DEF More
  <2> HIDE DEF x, n
  <2>2. x \in Seq(Text) /\ n \in Nat BY <1>1, <1>3
  <2>3. Upto(x, n) \o SubSeq(x, n + 1, Len(x)) = x BY <2>2, UptoFacts
  <2>4. \A i \in 1 .. n :
          Upto(x, i) = Upto(x, i - 1) \o (IF i <= Len(x) THEN <<x[i]>> ELSE <<>>)
    BY <2>2, UptoFacts
  <2>5. Upto(x, 0) = <<>> /\ \A i \in 0 .. n : Upto(x, i) \in Seq(Text) BY <2>2, UptoFacts
  <2> QED BY <2>1, <2>3, <2>4, <2>5
<1>12. f[p - 1] \o h(p)[a - 1] = v BY DEF Carries
<1>13. \A q \in 0 .. (C + 1) : f[q] \in Seq(Text) OBVIOUS
<1> HIDE DEF M, C, p, z, n, x, h, o, after
<1> DEFINE Q == {i \in 0 .. n : f[(p + i) - 1] \o h(p + i)[a - 1] = v \o Upto(x, i)}
<1>14. 0 \in Q
  <2>1. 0 \in 0 .. n /\ p + 0 = p BY <1>1
  <2>2. v \o Upto(x, 0) = v BY <1>11, ConcatEmptySeq
  <2> QED BY <1>12, <2>1, <2>2
<1>15. ASSUME NEW i \in 1 .. n, i - 1 \in Q PROVE i \in Q
  <2> DEFINE q == (p + i) - 1
  <2>1. /\ q \in 1 .. (C + 1) /\ q - 1 \in 0 .. (C + 1) /\ p + (i - 1) = q /\ p + i = q + 1
        /\ q \in Nat /\ q < p + n /\ q + 1 > p /\ (p + (i - 1)) - 1 = q - 1 /\ (p + i) - 1 = q
    BY <1>1, <1>2
  <2>2. f[q - 1] \o h(q)[a - 1] = v \o Upto(x, i - 1)
    <3>1. f[(p + (i - 1)) - 1] \o h(p + (i - 1))[a - 1] = v \o Upto(x, i - 1) BY <1>15
    <3> HIDE DEF q
    <3> QED BY <2>1, <3>1
  <2>3. o(q) = IF i <= Len(x) THEN <<x[i]>> ELSE <<>> BY <1>5
  <2> HIDE DEF q, Q
  <2>4. a - 1 \in 0 .. M /\ M \in (a - 1) .. M /\ 0 \in 0 .. M /\ a - 1 \in 0 .. M BY <1>2
  <2>5. h(q)[M] = h(q)[a - 1]
    <3>1. ASSUME NEW d \in Regions(Base), a - 1 < d, d <= M PROVE after(d) # q
      <4>1. d = a \/ d > a BY <1>2, <3>1
      <4>2. n <= z BY <1>1
      <4> QED BY <1>1, <2>1, <4>1, <4>2
    <3> QED BY <1>7, <2>4, <3>1
  <2>6. h(q + 1)[a - 1] = <<>>
    <3>1. ASSUME NEW d \in Regions(Base), 0 < d, d <= a - 1 PROVE after(d) # q + 1
      <4>1. d < a BY <1>2, <3>1
      <4> QED BY <1>1, <2>1, <4>1
    <3>2. h(q + 1)[a - 1] = h(q + 1)[0] BY <1>7, <2>4, <3>1
    <3> QED BY <1>8, <3>2
  <2>7. f[q] = f[q - 1] \o (h(q)[a - 1] \o o(q)) BY <1>10, <2>1, <2>5
  <2>8. /\ f[q - 1] \in Seq(Text) /\ h(q)[a - 1] \in Seq(Text) /\ o(q) \in Seq(Text)
        /\ Upto(x, i - 1) \in Seq(Text)
    <3>1. f[q - 1] \in Seq(Text) BY <1>13, <2>1
    <3>2. h(q)[a - 1] \in Seq(Text) BY <1>8, <2>4
    <3>3. o(q) \in Seq(Text) BY <1>10, <2>1
    <3>4. Upto(x, i - 1) \in Seq(Text)
      <4>1. i - 1 \in 0 .. n BY <1>1
      <4> QED BY <1>11, <4>1
    <3> QED BY <3>1, <3>2, <3>3, <3>4
  <2>9. f[q] = (f[q - 1] \o h(q)[a - 1]) \o o(q)
    <3> DEFINE A == f[q - 1]
               B == h(q)[a - 1]
               D == o(q)
    <3>1. A \in Seq(Text) /\ B \in Seq(Text) /\ D \in Seq(Text) BY <2>8
    <3> HIDE DEF A, B, D
    <3>2. (A \o B) \o D = A \o (B \o D) BY <3>1, Regroup, SMTT(30)
    <3> QED BY <2>7, <3>2 DEF A, B, D
  <2>10. f[q] = v \o (Upto(x, i - 1) \o o(q)) BY <2>2, <2>8, <2>9, Regroup, SMTT(30)
  <2>11. f[q] = v \o Upto(x, i) BY <1>11, <2>3, <2>10
  <2>12. f[q] \o <<>> = f[q]
    <3>1. f[q] \in Seq(Text) BY <1>13, <2>1
    <3> QED BY <3>1, ConcatEmptySeq
  <2>13. f[(p + i) - 1] \o h(p + i)[a - 1] = v \o Upto(x, i) BY <2>1, <2>6, <2>11, <2>12
  <2>14. i \in 0 .. n BY <1>1
  <2> QED BY <2>13, <2>14 DEF Q
<1> DEFINE e == p + n
<1>16. f[e - 1] \o h(e)[a - 1] = v \o Upto(x, n)
  <2> HIDE DEF Q, e
  <2>1. \A i \in 0 .. n : i \in Q BY <1>1, <1>14, <1>15, Climb
  <2>2. n \in Q BY <1>1, <2>1
  <2> QED BY <2>2 DEF Q, e
<1> HIDE DEF Q
<1>17. /\ e \in Nat \ {0} /\ e - 1 \in 0 .. (C + 1) /\ after(a) = e /\ e + 1 \in Nat
       /\ a - 1 \in 0 .. M /\ a \in 0 .. M /\ a \in 1 .. M
  BY <1>1, <1>2
<1> HIDE DEF e
<1>18. h(e)[a] = h(e)[a - 1] \o Surplus(s, t, a)
  <2>1. h(e)[a] = h(e)[a - 1] \o Rows(s, t, e)[a] BY <1>8, <1>17
  <2>2. Rows(s, t, e)[a] = Surplus(s, t, a) BY <1>9, <1>17
  <2> QED BY <2>1, <2>2
<1>19. /\ f[e - 1] \in Seq(Text) /\ h(e)[a - 1] \in Seq(Text) /\ Upto(x, n) \in Seq(Text)
       /\ h(e)[a] \in Seq(Text)
  <2>1. n \in 0 .. n BY <1>1
  <2>2. f[e - 1] \in Seq(Text) BY <1>13, <1>17
  <2>3. h(e)[a - 1] \in Seq(Text) /\ h(e)[a] \in Seq(Text) BY <1>8, <1>17
  <2>4. Upto(x, n) \in Seq(Text) BY <1>11, <2>1
  <2> QED BY <2>2, <2>3, <2>4
<1>20. f[e - 1] \o h(e)[a] = v \o (Upto(x, n) \o Surplus(s, t, a))
  <2>1. f[e - 1] \o h(e)[a] = (f[e - 1] \o h(e)[a - 1]) \o Surplus(s, t, a)
    <3> DEFINE A == f[e - 1]
               B == h(e)[a - 1]
               D == Surplus(s, t, a)
    <3>1. A \in Seq(Text) /\ B \in Seq(Text) /\ D \in Seq(Text) BY <1>4, <1>19
    <3> HIDE DEF A, B, D
    <3>2. (A \o B) \o D = A \o (B \o D) BY <3>1, Regroup
    <3> QED BY <1>18, <3>2 DEF A, B, D
  <2> QED BY <1>4, <1>16, <1>19, <2>1, Regroup, SMTT(30)
<1>21. CASE ~Alive(Base, s, a)
  <2>1. p + z = e BY <1>1, <1>21 DEF e
  <2>2. Upto(x, n) \o Surplus(s, t, a) = (Upto(x, n) \o More(s, t, a)) \o Own(Base, t, a)
    <3> DEFINE A == Upto(x, n)
               B == More(s, t, a)
               D == Own(Base, t, a)
    <3>1. A \in Seq(Text) /\ B \in Seq(Text) /\ D \in Seq(Text) BY <1>3, <1>4, <1>19
    <3> HIDE DEF A, B, D
    <3>2. (A \o B) \o D = A \o (B \o D) BY <3>1, Regroup
    <3> QED BY <1>4, <1>21, <3>2 DEF A, B, D
  <2>3. Upto(x, n) \o Surplus(s, t, a) = Region(Base, t, a) BY <1>3, <1>11, <2>2
  <2>4. f[(p + z) - 1] \o h(p + z)[a] = v \o Region(Base, t, a) BY <1>20, <2>1, <2>3
  <2> QED BY <2>4 DEF Carries, p, z, h
<1>22. CASE Alive(Base, s, a)
  <2>1. p + z = e + 1 /\ e \in 1 .. (C + 1) /\ (p + z) - 1 = e BY <1>1, <1>2, <1>17, <1>22 DEF e
  <2>2. h(e)[M] = h(e)[a]
    <3>1. ASSUME NEW d \in Regions(Base), a < d, d <= M PROVE after(d) # e
      <4>1. d > a BY <1>2, <3>1
      <4>2. after(d) >= e + 1 /\ after(d) \in Nat BY <1>1, <2>1, <4>1
      <4> QED BY <1>17, <4>2
    <3>2. M \in a .. M BY <1>2
    <3> QED BY <1>7, <1>17, <3>1, <3>2
  <2>3. h(e + 1)[a] = <<>>
    <3>1. ASSUME NEW d \in Regions(Base), 0 < d, d <= a PROVE after(d) # e + 1
      <4>1. CASE d = a BY <1>17, <4>1
      <4>2. CASE d # a
        <5>1. d < a BY <1>2, <3>1, <4>2
        <5>2. after(d) <= p /\ after(d) \in Nat BY <1>1, <5>1
        <5>3. p < e + 1 BY <1>1 DEF e
        <5> QED BY <1>1, <1>17, <5>2, <5>3
      <4> QED BY <4>1, <4>2
    <3>2. 0 \in 0 .. M /\ a \in 0 .. M BY <1>2
    <3>3. h(e + 1)[a] = h(e + 1)[0] BY <1>7, <3>1, <3>2
    <3> QED BY <1>8, <3>3
  <2>4. f[e] = f[e - 1] \o (h(e)[a] \o o(e)) /\ o(e) \in Seq(Text) BY <1>10, <2>1, <2>2
  <2>5. o(e) = Own(Base, t, a) BY <1>6, <1>22 DEF e
  <2>6. Surplus(s, t, a) = More(s, t, a) BY <1>4, <1>22
  <2>7. f[e] = (v \o x) \o Own(Base, t, a)
    <3>1. f[e] = (f[e - 1] \o h(e)[a]) \o o(e)
      <4> DEFINE A == f[e - 1]
                 B == h(e)[a]
                 D == o(e)
      <4>1. A \in Seq(Text) /\ B \in Seq(Text) /\ D \in Seq(Text) BY <1>19, <2>4
      <4> HIDE DEF A, B, D
      <4>2. (A \o B) \o D = A \o (B \o D) BY <4>1, Regroup
      <4> QED BY <2>4, <4>2 DEF A, B, D
    <3>2. f[e - 1] \o h(e)[a] = v \o x BY <1>11, <1>20, <2>6
    <3> QED BY <2>5, <3>1, <3>2
  <2>8. f[e] = v \o Region(Base, t, a) BY <1>3, <2>7, Regroup, SMTT(30)
  <2>9. f[e] \o <<>> = f[e]
    <3>1. f[e] \in Seq(Text) BY <1>13, <2>1
    <3> QED BY <3>1, ConcatEmptySeq
  <2>10. f[(p + z) - 1] \o h(p + z)[a] = v \o Region(Base, t, a) BY <2>1, <2>3, <2>8, <2>9
  <2> QED BY <2>10 DEF Carries, p, z, h
<1> QED BY <1>21, <1>22

\* An overlay re-anchored on the saved file shows over its lines what it
\* shows over the document.
LEMMA RebasedShows ==
    ASSUME NEW s, Tidy(s), NEW t, Tidy(t), ShortChanged(s)
    PROVE  View(View(Base, s), Rebased(s, t)) = View(Base, t)
<1> DEFINE M == Len(Base) + 1
           C == Count(s)
           h(q) == Joint(Rows(s, t, q))
           o(q) == Own(View(Base, s), Rebased(s, t), q)
           r == [a \in Regions(Base) |-> Region(Base, t, a)]
           to(k) == IF k = 0 THEN 1 ELSE From(s, k) + Size(s, k)
<1>1. PICK f : /\ f[0] = <<>> /\ \A q \in 0 .. (C + 1) : f[q] \in Seq(Text)
               /\ \A q \in 1 .. (C + 1) : f[q] = f[q - 1] \o (h(q)[M] \o o(q)) /\ o(q) \in Seq(Text)
               /\ o(C + 1) = <<>>
               /\ View(View(Base, s), Rebased(s, t)) = f[C + 1]
  BY RebasedJoins
<1>2. C \in Nat /\ M \in Nat \ {0} /\ Regions(Base) = 1 .. M BY FromFacts, BaseFacts DEF Regions
<1>3. View(Base, t) = FlattenSeq(r) BY DEF View
<1>4. \A a \in 1 .. M : r[a] = Region(Base, t, a) /\ r[a] \in Seq(Text) BY <1>2, RegionFacts
<1>5. r \in Seq(Seq(Text)) /\ Len(r) = M
  <2>1. r = [a \in 1 .. M |-> r[a]] BY <1>2
  <2> HIDE DEF r, M
  <2> QED BY <1>2, <1>4, <2>1
<1> HIDE DEF r
<1>6. PICK g : Joins(g, r) BY <1>5, JoinsExist
<1>7. /\ g[0] = <<>> /\ g[M] = View(Base, t) /\ \A k \in 1 .. M : g[k] = g[k - 1] \o r[k]
      /\ \A k \in 0 .. M : g[k] \in Seq(Text)
  BY <1>3, <1>5, <1>6 DEF Joins
<1>8. \A q : /\ h(q)[0] = <<>> /\ \A k \in 0 .. M : h(q)[k] \in Seq(Text)
  BY RowsJoin
<1> DEFINE Q == {k \in 0 .. M : Carries(s, t, f, to(k), k, g[k])}
<1>9. 0 \in Q
  <2>1. f[1 - 1] \o h(1)[0] = <<>> BY <1>1, <1>8, ConcatEmptySeq
  <2>2. Carries(s, t, f, 1, 0, g[0]) BY <1>7, <2>1 DEF Carries
  <2> QED BY <1>2, <2>2
<1>10. ASSUME NEW k \in 1 .. M, k - 1 \in Q PROVE k \in Q
  <2>1. k \in Regions(Base) /\ k - 1 \in 0 .. M /\ k \in 0 .. M /\ k # 0 BY <1>2
  <2>2. to(k - 1) = From(s, k)
    <3>1. CASE k = 1 BY <3>1, FromFacts
    <3>2. CASE k # 1
      <4>1. k - 1 \in 1 .. Len(Base) /\ (k - 1) + 1 = k /\ k - 1 # 0 BY <1>2, <3>2, BaseFacts
      <4>2. From(s, (k - 1) + 1) = From(s, k - 1) + Size(s, k - 1) BY <4>1, FromFacts
      <4> QED BY <4>1, <4>2
    <3> QED BY <3>1, <3>2
  <2>3. Carries(s, t, f, From(s, k), k - 1, g[k - 1]) BY <1>10, <2>2
  <2>4. g[k - 1] \in Seq(Text) BY <1>7, <2>1
  <2> DEFINE v == g[k - 1]
  <2> HIDE DEF v
  <2>5. Carries(s, t, f, From(s, k) + Size(s, k), k, v \o Region(Base, t, k))
    <3>1. v \in Seq(Text) /\ Carries(s, t, f, From(s, k), k - 1, v) BY <2>3, <2>4 DEF v
    <3> QED BY <1>1, <2>1, <3>1, RegionCarries
  <2>6. g[k] = v \o Region(Base, t, k) BY <1>4, <1>7 DEF v
  <2> QED BY <2>1, <2>5, <2>6
<1>11. Carries(s, t, f, to(M), M, g[M])
  <2> HIDE DEF Q
  <2>1. M \in Nat BY <1>2
  <2>2. \A k \in 0 .. M : k \in Q
    <3> HIDE DEF M
    <3> QED BY <1>9, <1>10, <2>1, Climb
  <2>3. M \in Q BY <1>2, <2>2
  <2> QED BY <2>3 DEF Q
<1>12. to(M) = C + 1 BY <1>2, FromFacts
<1> HIDE DEF Q, to, M, C, h, o
<1>13. f[(C + 1) - 1] \o h(C + 1)[M] = View(Base, t)
  BY <1>7, <1>11, <1>12 DEF Carries, h
<1>14. C + 1 \in 1 .. (C + 1) /\ (C + 1) - 1 \in 0 .. (C + 1) /\ M \in 0 .. M BY <1>2
<1>15. f[C + 1] = f[(C + 1) - 1] \o (h(C + 1)[M] \o <<>>) BY <1>1, <1>14
<1>16. h(C + 1)[M] \o <<>> = h(C + 1)[M]
  <2>1. h(C + 1)[M] \in Seq(Text) BY <1>8, <1>14
  <2> QED BY <2>1, ConcatEmptySeq
<1> QED BY <1>1, <1>13, <1>15, <1>16

\* After a save, the live overlay re-anchored on the saved file for its log
\* (RebaseSource::rebase) shows over the reopened file exactly what the
\* session shows, however edits, undos and redos went on during the save;
\* unless the save changed a line too long to be read back, or the last
\* line of the file cannot be seen.
THEOREM RebasesFaithfully == ASSUME OneByteNewlines PROVE Spec => []RebaseFaithful
<1>1. ASSUME Sound PROVE RebaseFaithful
  <2> SUFFICES ASSUME SavedShortLines, ~Vanishes(Written(saved_events))
               PROVE  Of(LAMBDA ev : View(Reopened(Written(saved_events)), ev),
                         Rebased(saved_events, events)) = Now
    BY DEF RebaseFaithful
  <2>1. Tidy(events) /\ Tidy(saved_events) BY <1>1, SoundFacts
  <2>2. ShortChanged(saved_events) BY DEF SavedShortLines, ShortChanged
  <2>3. Reopened(Written(saved_events)) = View(Base, saved_events) BY <2>1, WrittenReopens
  <2>4. View(View(Base, saved_events), Rebased(saved_events, events)) = View(Base, events)
    BY <2>1, <2>2, RebasedShows
  <2> QED BY <2>3, <2>4 DEF Of, Now, ViewOf
<1> QED BY <1>1, OvInvariance, PTL

-----------------------------------------------------------------------------
(* What the marks of two lists of inserted lines tell apart.               *)

LEMMA Greatest ==
    ASSUME NEW L \in Nat, NEW Q, Q \subseteq 0 .. L, Q # {}
    PROVE  \E n \in Q : \A m \in Q : m <= n
<1> DEFINE R == {L - n : n \in Q}
<1>5. \A n \in Q : n \in Nat /\ n <= L OBVIOUS
<1>6. \A n \in Q : L - n \in Nat /\ L - n \in R BY <1>5
<1>1. R \subseteq Nat /\ R # {} BY <1>6
<1>2. PICK k \in R : \A m \in R : k <= m
  <2> HIDE DEF R
  <2> QED BY <1>1, Least
<1>3. PICK n \in Q : k = L - n OBVIOUS
<1> HIDE DEF R
<1>4. \A m \in Q : m <= n
  <2> TAKE m \in Q
  <2>1. L - n <= L - m /\ m \in Nat /\ n \in Nat BY <1>2, <1>3, <1>5, <1>6
  <2> QED BY <2>1
<1> QED BY <1>4

\* The length of the longest beginning that two lists share.
PreOf(x, y) == Len(LongestCommonPrefix({x, y}))

LEMMA PreFacts ==
    ASSUME NEW x \in Seq(Text), NEW y \in Seq(Text)
    PROVE  /\ PreOf(x, y) \in Nat /\ PreOf(x, y) <= Len(x) /\ PreOf(x, y) <= Len(y)
           /\ \A i \in 1 .. PreOf(x, y) : x[i] = y[i]
           /\ x = y => PreOf(x, y) = Len(x)
<1> DEFINE C == CommonPrefixes({x, y})
           lens == {Len(c) : c \in C}
<1>1. ASSUME NEW c \in C
      PROVE  /\ c \in Seq(Text) /\ Len(c) \in 0 .. Len(x) /\ Len(c) <= Len(y)
             /\ \A i \in 1 .. Len(c) : x[i] = c[i] /\ y[i] = c[i]
  <2>1. PICK s \in {x, y} : c \in Prefixes(s) BY DEF CommonPrefixes
  <2>2. PICK l \in 0 .. Len(s) : c = SubSeq(s, 1, l) BY <2>1 DEF Prefixes
  <2>3. s \in Seq(Text) OBVIOUS
  <2>4. c \in Seq(Text) BY <2>2, <2>3
  <2>5. IsPrefix(c, x) /\ IsPrefix(c, y) BY DEF CommonPrefixes
  <2>6. Len(c) <= Len(x) /\ Len(c) <= Len(y) /\ Len(c) \in Nat BY <2>4, <2>5 DEF IsPrefix
  <2>7. ASSUME NEW z \in Seq(Text), IsPrefix(c, z), NEW i \in 1 .. Len(c) PROVE z[i] = c[i]
    <3>1. Len(c) <= Len(z) /\ SubSeq(c, 1, Len(c)) = SubSeq(z, 1, Len(c)) BY <2>7 DEF IsPrefix
    <3>2. SubSeq(c, 1, Len(c))[i] = c[i] BY <2>4
    <3>3. SubSeq(z, 1, Len(c))[i] = z[i] BY <2>4, <3>1
    <3> QED BY <3>1, <3>2, <3>3
  <2> QED BY <2>4, <2>5, <2>6, <2>7
<1>2. ASSUME NEW n \in 0 .. Len(x), n <= Len(y), SubSeq(x, 1, n) = SubSeq(y, 1, n)
      PROVE  SubSeq(x, 1, n) \in C
  <2> DEFINE c == SubSeq(x, 1, n)
  <2>1. c \in Prefixes(x) BY DEF Prefixes
  <2>2. c \in Seq(Text) /\ Len(c) = n OBVIOUS
  <2>3. SubSeq(c, 1, Len(c)) = c BY <2>2
  <2>4. IsPrefix(c, x) /\ IsPrefix(c, y) BY <1>2, <2>2, <2>3 DEF IsPrefix
  <2> QED BY <2>1, <2>4 DEF CommonPrefixes
<1>3. Len(x) \in Nat /\ Len(y) \in Nat OBVIOUS
<1>4. lens # {}
  <2>1. SubSeq(x, 1, 0) = <<>> /\ SubSeq(y, 1, 0) = <<>> OBVIOUS
  <2> DEFINE o == 0
  <2>3. o \in 0 .. Len(x) /\ o <= Len(y) BY <1>3
  <2>4. SubSeq(x, 1, o) = SubSeq(y, 1, o) BY <2>1
  <2> HIDE DEF o, C
  <2>2. SubSeq(x, 1, o) \in C BY <1>2, <2>3, <2>4
  <2> QED BY <2>2
<1> DEFINE long == LongestCommonPrefix({x, y})
<1>5. long \in C /\ \A c \in C : Len(c) <= Len(long)
  <2>1. PICK n \in lens : \A m \in lens : m <= n
    <3>1. lens \subseteq 0 .. Len(x) BY <1>1
    <3> HIDE DEF lens
    <3> QED BY <1>3, <1>4, <3>1, Greatest
  <2>2. PICK c \in C : n = Len(c) OBVIOUS
  <2>3. \A d \in C : Len(d) <= Len(c) BY <2>1, <2>2
  <2> QED BY <2>3 DEF LongestCommonPrefix
<1>6. x = y => SubSeq(x, 1, Len(x)) \in C /\ Len(SubSeq(x, 1, Len(x))) = Len(x)
  <2> HAVE x = y
  <2> DEFINE o == Len(x)
  <2>1. o \in 0 .. Len(x) /\ o <= Len(y) /\ SubSeq(x, 1, o) = SubSeq(y, 1, o) BY <1>3
  <2>2. Len(SubSeq(x, 1, o)) = o BY <1>3
  <2> HIDE DEF o, C
  <2>3. SubSeq(x, 1, o) \in C BY <1>2, <2>1
  <2> QED BY <2>2, <2>3 DEF o
<1>7. PreOf(x, y) = Len(long) BY DEF PreOf
<1> HIDE DEF C, lens, long
<1>8. x = y => Len(x) <= Len(long) BY <1>5, <1>6
<1>9. /\ Len(long) \in Nat /\ Len(long) <= Len(x) /\ Len(long) <= Len(y)
      /\ \A i \in 1 .. Len(long) : x[i] = y[i]
  BY <1>1, <1>3, <1>5
<1> QED BY <1>3, <1>7, <1>8, <1>9

\* The ends that two lists share, beyond their shared beginning.
SharedEnds(x, y) ==
    LET rest == Min({Len(x), Len(y)}) - PreOf(x, y) IN
    {n \in 0..rest : \A i \in 0..(n - 1) : x[Len(x) - i] = y[Len(y) - i]}

SufOf(x, y) == Max(SharedEnds(x, y))

LEMMA MinOfTwo ==
    ASSUME NEW a \in Nat, NEW b \in Nat
    PROVE  Min({a, b}) = IF a <= b THEN a ELSE b
<1> DEFINE m == IF a <= b THEN a ELSE b
<1>1. m \in {a, b} /\ \A k \in {a, b} : m <= k OBVIOUS
<1>2. \A n \in {a, b} : (\A k \in {a, b} : n <= k) => n = m OBVIOUS
<1> HIDE DEF m
<1> QED BY <1>1, <1>2 DEF Min, m

LEMMA SufFacts ==
    ASSUME NEW x \in Seq(Text), NEW y \in Seq(Text)
    PROVE  /\ SufOf(x, y) \in Nat
           /\ PreOf(x, y) + SufOf(x, y) <= Len(x) /\ PreOf(x, y) + SufOf(x, y) <= Len(y)
           /\ \A i \in 0 .. (SufOf(x, y) - 1) : x[Len(x) - i] = y[Len(y) - i]
<1> DEFINE S == SharedEnds(x, y)
           p == PreOf(x, y)
           m == Len(x)
           n == Len(y)
           rest == (IF m <= n THEN m ELSE n) - p
<1>1. m \in Nat /\ n \in Nat /\ p \in Nat /\ p <= m /\ p <= n BY PreFacts
<1>2. S = {k \in 0 .. rest : \A i \in 0 .. (k - 1) : x[m - i] = y[n - i]}
  <2>1. Min({m, n}) = IF m <= n THEN m ELSE n BY <1>1, MinOfTwo
  <2> QED BY <2>1 DEF SharedEnds
<1> HIDE DEF p, m, n
<1>3. rest \in Nat BY <1>1
<1>4. \A k \in 0 .. rest : k \in Nat /\ p + k <= m /\ p + k <= n BY <1>1
<1> HIDE DEF rest, S
<1>5. 0 \in S
  <2>1. \A i \in 0 .. (0 - 1) : FALSE OBVIOUS
  <2> QED BY <1>2, <1>3, <2>1
<1>6. S \subseteq 0 .. rest BY <1>2
<1>7. PICK k \in S : \A j \in S : j <= k BY <1>3, <1>5, <1>6, Greatest
<1>8. \A j \in S : k >= j BY <1>3, <1>6, <1>7
<1>9. SufOf(x, y) \in S BY <1>8 DEF SufOf, Max, S
<1> DEFINE s == SufOf(x, y)
<1>10. s \in 0 .. rest /\ \A i \in 0 .. (s - 1) : x[m - i] = y[n - i] BY <1>2, <1>9
<1>11. s \in Nat /\ p + s <= m /\ p + s <= n BY <1>4, <1>10
<1> QED BY <1>10, <1>11 DEF p, m, n

\* Whether line i of the list x is taken for a saved one, of the list y, and
\* for which.
Keeps(x, y, i) ==
    \/ i <= PreOf(x, y) \/ i > Len(x) - SufOf(x, y)
    \/ i <= Len(y) - SufOf(x, y) /\ x[i] = y[i]

Place(x, y, i) == IF i > Len(x) - SufOf(x, y) THEN (i - Len(x)) + Len(y) ELSE i

LEMMA PlaceFacts ==
    ASSUME NEW x \in Seq(Text), NEW y \in Seq(Text)
    PROVE  /\ \A i \in 1 .. Len(x) : Keeps(x, y, i) =>
                 Place(x, y, i) \in 1 .. Len(y) /\ y[Place(x, y, i)] = x[i]
           /\ Place(x, y, Len(x) + 1) = Len(y) + 1
           /\ \A i \in 1 .. Len(x), j \in 1 .. (Len(x) + 1) : Keeps(x, y, i) /\ i < j =>
                 Place(x, y, i) < Place(x, y, j)
<1> DEFINE m == Len(x)
           n == Len(y)
           pre == PreOf(x, y)
           suf == SufOf(x, y)
<1>1. /\ m \in Nat /\ n \in Nat /\ pre \in Nat /\ suf \in Nat
      /\ pre + suf <= m /\ pre + suf <= n
  BY PreFacts, SufFacts
<1>2. /\ \A i \in 1 .. pre : x[i] = y[i]
      /\ \A i \in 0 .. (suf - 1) : x[m - i] = y[n - i]
  BY PreFacts, SufFacts
<1>3. ASSUME NEW i \in Int
      PROVE  /\ Keeps(x, y, i) <=> \/ i <= pre \/ i > m - suf
                                   \/ i <= n - suf /\ x[i] = y[i]
             /\ Place(x, y, i) = IF i > m - suf THEN (i - m) + n ELSE i
  BY DEF Keeps, Place
<1> HIDE DEF m, n, pre, suf
<1>4. ASSUME NEW i \in 1 .. m, Keeps(x, y, i)
      PROVE  Place(x, y, i) \in 1 .. n /\ y[Place(x, y, i)] = x[i]
  <2>1. CASE i > m - suf
    <3>1. Place(x, y, i) = (i - m) + n BY <1>3, <2>1
    <3>2. (i - m) + n \in 1 .. n BY <1>1, <2>1
    <3>3. m - i \in 0 .. (suf - 1) /\ m - (m - i) = i /\ n - (m - i) = (i - m) + n BY <1>1, <2>1
    <3>4. x[m - (m - i)] = y[n - (m - i)] BY <1>2, <3>3
    <3> QED BY <3>1, <3>2, <3>3, <3>4
  <2>2. CASE ~(i > m - suf)
    <3>1. Place(x, y, i) = i BY <1>3, <2>2
    <3>2. i <= pre \/ (i <= n - suf /\ x[i] = y[i]) BY <1>3, <1>4, <2>2
    <3>3. i \in 1 .. n BY <1>1, <3>2
    <3>4. x[i] = y[i]
      <4>1. i <= pre => i \in 1 .. pre BY <1>1
      <4> QED BY <1>2, <3>2, <4>1
    <3> QED BY <3>1, <3>3, <3>4
  <2> QED BY <2>1, <2>2
<1>5. Place(x, y, m + 1) = n + 1
  <2> DEFINE k == m + 1
  <2>1. k \in Int /\ k > m - suf /\ (k - m) + n = n + 1 BY <1>1
  <2> HIDE DEF k
  <2>2. Place(x, y, k) = n + 1 BY <1>3, <2>1
  <2> QED BY <2>2 DEF k
<1>6. ASSUME NEW i \in 1 .. m, NEW j \in 1 .. (m + 1), Keeps(x, y, i), i < j
      PROVE  Place(x, y, i) < Place(x, y, j)
  <2>1. /\ Place(x, y, i) = IF i > m - suf THEN (i - m) + n ELSE i
        /\ Place(x, y, j) = IF j > m - suf THEN (j - m) + n ELSE j
        /\ i <= pre \/ i > m - suf \/ i <= n - suf
    BY <1>1, <1>3, <1>6
  <2>2. i \in Nat /\ j \in Nat BY <1>1
  <2> QED BY <1>1, <1>6, <2>1, <2>2
<1> QED BY <1>4, <1>5, <1>6 DEF m, n

LEMMA InsertMarksAre ==
    \A p, x, y :
        InsertMarks(p, x, y) =
            {<<IF Keeps(x, y, i) THEN "saved" ELSE "unsaved", p + i - 1>> : i \in 1..Len(x)}
              \cup (IF Len(y) > Len(x)
                    THEN {<<"unsaved", p + (Len(x) - SufOf(x, y))>>,
                          <<"deleted", p + (Len(x) - SufOf(x, y))>>}
                    ELSE {})
BY DEF InsertMarks, Keeps, SufOf, SharedEnds, PreOf

LEMMA InsertMarkFacts ==
    ASSUME NEW p \in Nat, NEW x \in Seq(Text), NEW y \in Seq(Text)
    PROVE  LET marks == InsertMarks(p, x, y) IN
           /\ \A m \in marks : m[2] \in p .. (p + Len(x))
           /\ \A m \in marks : m[1] = "deleted" => <<"unsaved", m[2]>> \in marks
           /\ \A i \in 1 .. Len(x) : Keeps(x, y, i) \/ <<"unsaved", (p + i) - 1>> \in marks
           /\ (\A m \in marks : m[1] # "unsaved") => x = y
           /\ x = y => \A m \in marks : m[1] # "unsaved"
<1> DEFINE marks == InsertMarks(p, x, y)
           m == Len(x)
           n == Len(y)
           end == m - SufOf(x, y)
           row == {<<IF Keeps(x, y, i) THEN "saved" ELSE "unsaved", p + i - 1>> : i \in 1..m}
           gap == IF n > m THEN {<<"unsaved", p + end>>, <<"deleted", p + end>>} ELSE {}
<1>1. /\ m \in Nat /\ n \in Nat /\ PreOf(x, y) \in Nat /\ SufOf(x, y) \in Nat
      /\ PreOf(x, y) + SufOf(x, y) <= m /\ PreOf(x, y) + SufOf(x, y) <= n
      /\ x = y => PreOf(x, y) = m
  BY PreFacts, SufFacts
<1>2. marks = row \cup gap BY InsertMarksAre
<1>3. end \in 0 .. m BY <1>1
<1>4. \A i \in 1 .. m : p + i - 1 = (p + i) - 1 /\ (p + i) - 1 \in p .. (p + m) /\ i \in Int BY <1>1
<1>5. p + end \in p .. (p + m) BY <1>1, <1>3
<1>6. \A k \in row : k[1] \in {"saved", "unsaved"} /\ k[2] \in p .. (p + m) BY <1>4
<1>7. \A k \in gap : /\ k[2] \in p .. (p + m) /\ <<"unsaved", k[2]>> \in gap /\ n > m BY <1>5
<1>8. \A i \in 1 .. m : Keeps(x, y, i) \/ <<"unsaved", (p + i) - 1>> \in row BY <1>4
<1>9. \A k \in row : k[1] = "unsaved" => \E i \in 1 .. m : ~Keeps(x, y, i) OBVIOUS
<1>10. n > m => <<"unsaved", p + end>> \in gap OBVIOUS
<1>11. ASSUME NEW i \in Int
       PROVE  Keeps(x, y, i) <=> \/ i <= PreOf(x, y) \/ i > end
                                 \/ i <= n - SufOf(x, y) /\ x[i] = y[i]
  BY DEF Keeps
<1>12. ASSUME \A k \in marks : k[1] # "unsaved" PROVE x = y
  <2> HIDE DEF marks, row, gap
  <2>1. /\ \A k \in row : k[1] # "unsaved"
        /\ \A k \in gap : k[1] # "unsaved"
    BY <1>2, <1>12
  <2>2. \A i \in 1 .. m : Keeps(x, y, i)
    <3> TAKE i \in 1 .. m
    <3>1. <<"unsaved", (p + i) - 1>>[1] = "unsaved" OBVIOUS
    <3> QED BY <1>8, <2>1, <3>1
  <2>3. n <= m
    <3>1. <<"unsaved", p + end>>[1] = "unsaved" OBVIOUS
    <3>2. ~(n > m) BY <1>10, <2>1, <3>1
    <3> QED BY <1>1, <3>2
  <2>4. n = m
    <3> SUFFICES ASSUME n < m PROVE FALSE BY <1>1, <2>3
    <3>1. end \in 1 .. m /\ end \in Int /\ ~(end <= PreOf(x, y)) /\ ~(end > end)
          /\ ~(end <= n - SufOf(x, y))
      BY <1>1
    <3> HIDE DEF end
    <3> QED BY <1>11, <2>2, <3>1
  <2>5. \A i \in 1 .. m : x[i] = y[i]
    <3> TAKE i \in 1 .. m
    <3>1. Keeps(x, y, i) BY <2>2
    <3>2. y[Place(x, y, i)] = x[i] BY <3>1, PlaceFacts
    <3>3. Place(x, y, i) = i
      <4>1. Place(x, y, i) = IF i > m - SufOf(x, y) THEN (i - m) + n ELSE i BY DEF Place
      <4> HIDE DEF m, n
      <4> QED BY <1>1, <2>4, <4>1
    <3> QED BY <3>2, <3>3
  <2> QED BY <2>4, <2>5
<1>13. ASSUME x = y, NEW k \in marks PROVE k[1] # "unsaved"
  <2>1. \A i \in 1 .. m : i <= PreOf(x, y) /\ i \in Int BY <1>1, <1>13
  <2> HIDE DEF marks, row, gap, end, m, n
  <2>2. ASSUME NEW i \in 1 .. m PROVE Keeps(x, y, i)
    <3>1. i <= PreOf(x, y) BY <2>1
    <3> QED BY <3>1 DEF Keeps
  <2>3. ~(n > m) BY <1>1, <1>13 DEF m, n
  <2>4. k \in row BY <1>2, <1>7, <2>3
  <2> QED BY <1>9, <2>2, <2>4
<1> HIDE DEF row, gap, marks, end
<1>14. \A k \in marks : k[2] \in p .. (p + Len(x)) BY <1>2, <1>6, <1>7
<1>15. ASSUME NEW k \in marks, k[1] = "deleted" PROVE <<"unsaved", k[2]>> \in marks
  <2>1. k \in gap BY <1>2, <1>6, <1>15
  <2> QED BY <1>2, <1>7, <2>1
<1>16. \A i \in 1 .. Len(x) : Keeps(x, y, i) \/ <<"unsaved", (p + i) - 1>> \in marks
  BY <1>2, <1>8
<1> QED BY <1>12, <1>13, <1>14, <1>15, <1>16 DEF marks

-----------------------------------------------------------------------------
(* The marks of one anchor, and of them all.                               *)

RegionMarks(s, t, a) ==
    InsertMarks(From(t, a), At(t, a).inserts, At(s, a).inserts)
      \cup (IF a > Len(Base) THEN {}
            ELSE LineMarks(From(t, a) + Len(At(t, a).inserts), At(t, a), At(s, a)))

LEMMA MarksAre ==
    \A s, t : Marks(t, s) = UNION {RegionMarks(s, t, a) : a \in DOMAIN t \cup DOMAIN s}
BY DEF Marks, RegionMarks, From

LEMMA LineMarkFacts ==
    ASSUME NEW l, NEW now \in Events, NEW saved \in Events
    PROVE  LET marks == LineMarks(l, now, saved) IN
           /\ \A m \in marks : m[2] = l
           /\ \A m \in marks : m[1] = "deleted" =>
                <<"saved", m[2]>> \in marks \/ <<"unsaved", m[2]>> \in marks
           /\ <<"unsaved", l>> \notin marks =>
                now.deleted = saved.deleted /\ (~now.deleted => now.replacement = saved.replacement)
           /\ now = saved => \A m \in marks : m[1] # "unsaved"
<1>1. now.deleted \in BOOLEAN /\ saved.deleted \in BOOLEAN BY DEF Events
<1> DEFINE marks == LineMarks(l, now, saved)
<1>2. CASE now.deleted
  <2>1. marks = {<<IF saved.deleted THEN "saved" ELSE "unsaved", l>>, <<"deleted", l>>}
    BY <1>2 DEF LineMarks
  <2> HIDE DEF marks
  <2>2. CASE saved.deleted
    <3>1. marks = {<<"saved", l>>, <<"deleted", l>>} BY <2>1, <2>2
    <3> QED BY <1>1, <1>2, <2>2, <3>1 DEF marks
  <2>3. CASE ~saved.deleted
    <3>1. marks = {<<"unsaved", l>>, <<"deleted", l>>} BY <2>1, <2>3
    <3> QED BY <1>1, <1>2, <2>3, <3>1 DEF marks
  <2> QED BY <2>2, <2>3
<1>3. CASE ~now.deleted /\ (saved.deleted \/ now.replacement # saved.replacement)
  <2>1. marks = {<<"unsaved", l>>} BY <1>3 DEF LineMarks
  <2> HIDE DEF marks
  <2> QED BY <1>1, <1>3, <2>1 DEF marks
<1>4. CASE ~now.deleted /\ ~saved.deleted /\ now.replacement = saved.replacement
  <2>1. marks = {<<"saved", l>>} \/ marks = {} BY <1>4 DEF LineMarks
  <2>2. now.deleted = saved.deleted BY <1>1, <1>4
  <2> HIDE DEF marks
  <2>3. \A m \in marks : m = <<"saved", l>> BY <2>1
  <2> QED BY <1>4, <2>2, <2>3 DEF marks
<1> QED BY <1>2, <1>3, <1>4

LEMMA RegionMarkFacts ==
    ASSUME NEW s, Tidy(s), NEW t, Tidy(t), NEW a \in Regions(Base)
    PROVE  LET marks == RegionMarks(s, t, a) IN
           /\ \A m \in marks : m[2] \in 1 .. (Count(t) + 1)
           /\ \A m \in marks : m[1] = "deleted" =>
                <<"saved", m[2]>> \in marks \/ <<"unsaved", m[2]>> \in marks
           /\ (\A m \in marks : m[1] # "unsaved") => Region(Base, t, a) = Region(Base, s, a)
           /\ At(t, a) = At(s, a) => \A m \in marks : m[1] # "unsaved"
<1> DEFINE x == At(t, a).inserts
           y == At(s, a).inserts
           p == From(t, a)
           n == Len(x)
           ins == InsertMarks(p, x, y)
           own == IF a > Len(Base) THEN {} ELSE LineMarks(p + n, At(t, a), At(s, a))
           marks == RegionMarks(s, t, a)
<1>1. /\ x \in Seq(Text) /\ y \in Seq(Text) /\ n \in Nat
      /\ Size(t, a) \in Nat /\ n <= Size(t, a)
  <2>1. /\ x \in Seq(Text) /\ y \in Seq(Text) /\ n \in Nat
        /\ Size(t, a) = n + (IF Alive(Base, t, a) THEN 1 ELSE 0) BY SizeFacts
  <2> HIDE DEF n
  <2> QED BY <2>1
<1>2. p \in Nat \ {0} /\ Count(t) \in Nat /\ p + Size(t, a) <= Count(t) + 1
  BY FromFacts, FromEnds
<1>3. At(t, a) \in Events /\ At(s, a) \in Events BY AtFacts DEF EventsAt
<1>4. marks = ins \cup own BY DEF RegionMarks
<1>5. /\ \A m \in ins : m[2] \in p .. (p + n)
      /\ \A m \in ins : m[1] = "deleted" => <<"unsaved", m[2]>> \in ins
      /\ (\A m \in ins : m[1] # "unsaved") => x = y
      /\ x = y => \A m \in ins : m[1] # "unsaved"
  <2> HIDE DEF x, y, p
  <2> QED BY <1>1, <1>2, InsertMarkFacts DEF ins, n
<1>6. a > Len(Base) => own = {} OBVIOUS
<1>7. ~(a > Len(Base)) =>
         /\ \A m \in own : m[2] = p + n
         /\ \A m \in own : m[1] = "deleted" =>
                <<"saved", m[2]>> \in own \/ <<"unsaved", m[2]>> \in own
         /\ <<"unsaved", p + n>> \notin own =>
                /\ At(t, a).deleted = At(s, a).deleted
                /\ ~At(t, a).deleted => At(t, a).replacement = At(s, a).replacement
         /\ At(t, a) = At(s, a) => \A m \in own : m[1] # "unsaved"
  <2> HAVE ~(a > Len(Base))
  <2>1. own = LineMarks(p + n, At(t, a), At(s, a)) OBVIOUS
  <2> DEFINE l == p + n
  <2> HIDE DEF own, l
  <2>2. own = LineMarks(l, At(t, a), At(s, a)) BY <2>1 DEF l
  <2>3. /\ \A m \in own : m[2] = l
        /\ \A m \in own : m[1] = "deleted" =>
               <<"saved", m[2]>> \in own \/ <<"unsaved", m[2]>> \in own
        /\ <<"unsaved", l>> \notin own =>
               /\ At(t, a).deleted = At(s, a).deleted
               /\ ~At(t, a).deleted => At(t, a).replacement = At(s, a).replacement
        /\ At(t, a) = At(s, a) => \A m \in own : m[1] # "unsaved"
    BY <1>3, <2>2, LineMarkFacts
  <2> QED BY <2>3 DEF l
<1> HIDE DEF ins, own, marks, p, n
<1>8. \A m \in marks : m[2] \in 1 .. (Count(t) + 1)
  <2>1. \A k \in p .. (p + n) : k \in 1 .. (Count(t) + 1) BY <1>1, <1>2
  <2>2. p + n \in p .. (p + n) BY <1>1, <1>2
  <2> QED BY <1>4, <1>5, <1>6, <1>7, <2>1, <2>2
<1>9. \A m \in marks : m[1] = "deleted" =>
         <<"saved", m[2]>> \in marks \/ <<"unsaved", m[2]>> \in marks
  BY <1>4, <1>5, <1>6, <1>7
<1>10. ASSUME \A m \in marks : m[1] # "unsaved" PROVE Region(Base, t, a) = Region(Base, s, a)
  <2>1. x = y BY <1>4, <1>5, <1>10
  <2>2. CASE a > Len(Base)
    <3>1. ~Alive(Base, t, a) /\ ~Alive(Base, s, a) BY <2>2, BaseFacts DEF Alive
    <3> QED BY <2>1, <3>1 DEF Region
  <2>3. CASE ~(a > Len(Base))
    <3>1. <<"unsaved", p + n>> \notin own
      <4>1. <<"unsaved", p + n>>[1] = "unsaved" OBVIOUS
      <4> QED BY <1>4, <1>10, <4>1
    <3>2. /\ At(t, a).deleted = At(s, a).deleted
          /\ ~At(t, a).deleted => At(t, a).replacement = At(s, a).replacement
      BY <1>7, <2>3, <3>1
    <3>3. Alive(Base, t, a) = Alive(Base, s, a) BY <3>2 DEF Alive
    <3>4. Alive(Base, t, a) => OwnText(Base, t, a) = OwnText(Base, s, a)
      BY <3>2 DEF Alive, OwnText
    <3> QED BY <2>1, <3>3, <3>4 DEF Region
  <2> QED BY <2>2, <2>3
<1>11. At(t, a) = At(s, a) => \A m \in marks : m[1] # "unsaved"
  BY <1>4, <1>5, <1>6, <1>7
<1> QED BY <1>8, <1>9, <1>10, <1>11 DEF marks

\* A line of a region that is not marked unsaved is a saved one.
LEMMA UnmarkedFacts ==
    ASSUME NEW s, Tidy(s), NEW t, Tidy(t), NEW a \in Regions(Base),
           NEW i \in 1 .. Size(t, a),
           <<"unsaved", (From(t, a) + i) - 1>> \notin RegionMarks(s, t, a)
    PROVE  LET to(k) == Place(At(t, a).inserts, At(s, a).inserts, k) IN
           /\ to(i) \in 1 .. Size(s, a)
           /\ Region(Base, s, a)[to(i)] = Region(Base, t, a)[i]
           /\ \A j \in 1 .. Size(t, a) : i < j => to(i) < to(j)
<1> DEFINE x == At(t, a).inserts
           y == At(s, a).inserts
           p == From(t, a)
           m == Len(x)
           n == Len(y)
           to(k) == Place(x, y, k)
           live(ev) == Alive(Base, ev, a)
<1>1. /\ x \in Seq(Text) /\ y \in Seq(Text) /\ m \in Nat /\ n \in Nat
      /\ Size(t, a) = m + (IF live(t) THEN 1 ELSE 0)
      /\ Size(s, a) = n + (IF live(s) THEN 1 ELSE 0)
      /\ live(t) \in BOOLEAN /\ live(s) \in BOOLEAN
  BY SizeFacts
<1>2. /\ \A k \in 1 .. m : Region(Base, t, a)[k] = x[k]
      /\ \A k \in 1 .. n : Region(Base, s, a)[k] = y[k]
      /\ live(t) => Region(Base, t, a)[m + 1] = OwnText(Base, t, a)
      /\ live(s) => Region(Base, s, a)[n + 1] = OwnText(Base, s, a)
  BY RegionFacts
<1>3. p \in Nat \ {0} BY FromFacts
<1>4. At(t, a) \in Events /\ At(s, a) \in Events BY AtFacts DEF EventsAt
<1>5. /\ \A k \in 1 .. m : Keeps(x, y, k) => to(k) \in 1 .. n /\ y[to(k)] = x[k]
      /\ to(m + 1) = n + 1
      /\ \A k \in 1 .. m, j \in 1 .. (m + 1) : Keeps(x, y, k) /\ k < j => to(k) < to(j)
  <2> HIDE DEF x, y
  <2> QED BY <1>1, PlaceFacts
<1>6. \A k \in 1 .. m : Keeps(x, y, k) \/ <<"unsaved", (p + k) - 1>> \in InsertMarks(p, x, y)
  <2> HIDE DEF x, y, p
  <2> QED BY <1>1, <1>3, InsertMarkFacts
<1>7. /\ \A k : k \in InsertMarks(p, x, y) => k \in RegionMarks(s, t, a)
      /\ ~(a > Len(Base)) => LineMarks(p + m, At(t, a), At(s, a)) \subseteq RegionMarks(s, t, a)
  BY DEF RegionMarks
<1>8. CASE i <= m
  <2> HIDE DEF x, y, p, m, n, to, live
  <2>1. i \in 1 .. m /\ i \in Nat BY <1>1, <1>8
  <2>2. <<"unsaved", (p + i) - 1>> \notin InsertMarks(p, x, y) BY <1>7 DEF p
  <2>3. Keeps(x, y, i) BY <1>6, <2>1, <2>2
  <2>4. to(i) \in 1 .. n /\ y[to(i)] = x[i] BY <1>5, <2>1, <2>3
  <2>5. to(i) \in 1 .. Size(s, a) BY <1>1, <2>4
  <2>6. Region(Base, s, a)[to(i)] = Region(Base, t, a)[i] BY <1>2, <2>1, <2>4
  <2>7. \A j \in 1 .. Size(t, a) : j \in 1 .. (m + 1) BY <1>1
  <2>8. \A j \in 1 .. Size(t, a) : i < j => to(i) < to(j) BY <1>5, <2>1, <2>3, <2>7
  <2> QED BY <2>5, <2>6, <2>8 DEF to, x, y
<1>9. CASE ~(i <= m)
  <2>1. live(t) /\ i = m + 1
    <3> HIDE DEF m, live
    <3> QED BY <1>1, <1>9
  <2>2. ~(a > Len(Base)) /\ ~At(t, a).deleted BY <2>1, BaseFacts DEF Alive
  <2>3. (p + i) - 1 = p + m
    <3> HIDE DEF m, p
    <3> QED BY <1>1, <1>3, <2>1
  <2>4. <<"unsaved", p + m>> \notin LineMarks(p + m, At(t, a), At(s, a)) BY <1>7, <2>2, <2>3
  <2>5. At(t, a).deleted = At(s, a).deleted /\ At(t, a).replacement = At(s, a).replacement
    <3> DEFINE l == p + m
    <3> HIDE DEF l
    <3>1. <<"unsaved", l>> \notin LineMarks(l, At(t, a), At(s, a)) BY <2>4 DEF l
    <3> QED BY <1>4, <2>2, <3>1, LineMarkFacts
  <2>6. live(s) /\ OwnText(Base, s, a) = OwnText(Base, t, a) BY <2>1, <2>2, <2>5 DEF Alive, OwnText
  <2> HIDE DEF x, y, p, m, n, to, live
  <2>7. to(i) = n + 1 /\ to(i) \in 1 .. Size(s, a) BY <1>1, <1>5, <2>1, <2>6
  <2>8. Region(Base, s, a)[to(i)] = Region(Base, t, a)[i] BY <1>2, <2>1, <2>6, <2>7
  <2>9. \A j \in 1 .. Size(t, a) : ~(i < j) BY <1>1, <2>1
  <2> QED BY <2>7, <2>8, <2>9 DEF to, x, y
<1> QED BY <1>8, <1>9

LEMMA MarksFacts ==
    ASSUME NEW s, Tidy(s), NEW t, Tidy(t)
    PROVE  /\ \A m \in Marks(t, s) : \E a \in Regions(Base) : m \in RegionMarks(s, t, a)
           /\ \A a \in Regions(Base) : \A m \in RegionMarks(s, t, a) :
                 m[1] = "unsaved" => m \in Marks(t, s)
<1>1. DOMAIN t \subseteq Regions(Base) /\ DOMAIN s \subseteq Regions(Base) BY DEF Tidy
<1>2. Marks(t, s) = UNION {RegionMarks(s, t, a) : a \in DOMAIN t \cup DOMAIN s} BY MarksAre
<1>3. ASSUME NEW a \in Regions(Base), NEW m \in RegionMarks(s, t, a), m[1] = "unsaved"
      PROVE  m \in Marks(t, s)
  <2>1. At(t, a) # At(s, a) BY <1>3, RegionMarkFacts
  <2>2. a \in DOMAIN t \cup DOMAIN s BY <2>1 DEF At
  <2> QED BY <1>2, <2>2
<1> QED BY <1>1, <1>2, <1>3

\* The saved line that line l is.
SavedLineOf(s, t, l) ==
    LET ref == Locate(Base, t, l) a == ref.anchor IN
    (From(s, a) + Place(At(t, a).inserts, At(s, a).inserts, ref.index)) - 1

LEMMA UnmarkedLine ==
    ASSUME NEW s, Tidy(s), NEW t, Tidy(t), NEW l \in 1 .. Count(t),
           <<"unsaved", l>> \notin Marks(t, s)
    PROVE  \E a \in Regions(Base) : \E i \in 1 .. Size(t, a) :
              LET q == Place(At(t, a).inserts, At(s, a).inserts, i) IN
              /\ l = (From(t, a) + i) - 1 /\ SavedLineOf(s, t, l) = (From(s, a) + q) - 1
              /\ q \in 1 .. Size(s, a) /\ Region(Base, s, a)[q] = Region(Base, t, a)[i]
              /\ \A j \in 1 .. Size(t, a) :
                    i < j => q < Place(At(t, a).inserts, At(s, a).inserts, j)
<1>1. PICK a \in Regions(Base) : \E i \in 1 .. Size(t, a) :
          l = (From(t, a) + i) - 1 /\ Locate(Base, t, l) = [anchor |-> a, index |-> i]
  BY LocateFinds
<1>2. PICK i \in 1 .. Size(t, a) :
          l = (From(t, a) + i) - 1 /\ Locate(Base, t, l) = [anchor |-> a, index |-> i]
  BY <1>1
<1>3. <<"unsaved", (From(t, a) + i) - 1>> \notin RegionMarks(s, t, a)
  <2>1. <<"unsaved", l>>[1] = "unsaved" OBVIOUS
  <2>2. <<"unsaved", l>> \notin RegionMarks(s, t, a) BY <2>1, MarksFacts
  <2> QED BY <1>2, <2>2
<1> DEFINE to(k) == Place(At(t, a).inserts, At(s, a).inserts, k)
<1>4. /\ to(i) \in 1 .. Size(s, a)
      /\ Region(Base, s, a)[to(i)] = Region(Base, t, a)[i]
      /\ \A j \in 1 .. Size(t, a) : i < j => to(i) < to(j)
  BY <1>3, UnmarkedFacts
<1>5. SavedLineOf(s, t, l) = (From(s, a) + to(i)) - 1 BY <1>2 DEF SavedLineOf
<1> QED BY <1>2, <1>4, <1>5

LEMMA UnmarkedLineText ==
    ASSUME NEW s, Tidy(s), NEW t, Tidy(t), NEW l \in 1 .. Count(t),
           <<"unsaved", l>> \notin Marks(t, s)
    PROVE  /\ SavedLineOf(s, t, l) \in 1 .. Len(View(Base, s))
           /\ View(Base, s)[SavedLineOf(s, t, l)] = View(Base, t)[l]
<1>1. PICK a \in Regions(Base) : \E i \in 1 .. Size(t, a) :
              LET q == Place(At(t, a).inserts, At(s, a).inserts, i) IN
              /\ l = (From(t, a) + i) - 1 /\ SavedLineOf(s, t, l) = (From(s, a) + q) - 1
              /\ q \in 1 .. Size(s, a) /\ Region(Base, s, a)[q] = Region(Base, t, a)[i]
  BY UnmarkedLine
<1>2. PICK i \in 1 .. Size(t, a) :
              LET q == Place(At(t, a).inserts, At(s, a).inserts, i) IN
              /\ l = (From(t, a) + i) - 1 /\ SavedLineOf(s, t, l) = (From(s, a) + q) - 1
              /\ q \in 1 .. Size(s, a) /\ Region(Base, s, a)[q] = Region(Base, t, a)[i]
  BY <1>1
<1> DEFINE q == Place(At(t, a).inserts, At(s, a).inserts, i)
<1>3. /\ l = (From(t, a) + i) - 1 /\ SavedLineOf(s, t, l) = (From(s, a) + q) - 1
      /\ q \in 1 .. Size(s, a) /\ Region(Base, s, a)[q] = Region(Base, t, a)[i]
  BY <1>2
<1> HIDE DEF q
<1>4. (From(s, a) + q) - 1 \in 1 .. Count(s) BY <1>3, LocateIs
<1>5. View(Base, s)[(From(s, a) + q) - 1] = Region(Base, s, a)[q] /\ Len(View(Base, s)) = Count(s)
  BY <1>3, ViewFacts
<1>6. View(Base, t)[(From(t, a) + i) - 1] = Region(Base, t, a)[i] BY ViewFacts
<1> QED BY <1>3, <1>4, <1>5, <1>6

LEMMA UnmarkedLinesInOrder ==
    ASSUME NEW s, Tidy(s), NEW t, Tidy(t), NEW k \in 1 .. Count(t), NEW l \in 1 .. Count(t),
           <<"unsaved", k>> \notin Marks(t, s), <<"unsaved", l>> \notin Marks(t, s), k < l
    PROVE  SavedLineOf(s, t, k) < SavedLineOf(s, t, l)
<1> DEFINE Is(n, a, i) ==
              LET q == Place(At(t, a).inserts, At(s, a).inserts, i) IN
              /\ n = (From(t, a) + i) - 1 /\ SavedLineOf(s, t, n) = (From(s, a) + q) - 1
              /\ q \in 1 .. Size(s, a)
              /\ \A j \in 1 .. Size(t, a) :
                    i < j => q < Place(At(t, a).inserts, At(s, a).inserts, j)
<1>1. PICK a \in Regions(Base) : \E i \in 1 .. Size(t, a) : Is(k, a, i) BY UnmarkedLine
<1>2. PICK i \in 1 .. Size(t, a) : Is(k, a, i) BY <1>1
<1>3. PICK b \in Regions(Base) : \E j \in 1 .. Size(t, b) : Is(l, b, j) BY UnmarkedLine
<1>4. PICK j \in 1 .. Size(t, b) : Is(l, b, j) BY <1>3
<1> DEFINE q == Place(At(t, a).inserts, At(s, a).inserts, i)
           r == Place(At(t, b).inserts, At(s, b).inserts, j)
<1>5. /\ k = (From(t, a) + i) - 1 /\ SavedLineOf(s, t, k) = (From(s, a) + q) - 1
      /\ q \in 1 .. Size(s, a)
      /\ \A n \in 1 .. Size(t, a) :
            i < n => q < Place(At(t, a).inserts, At(s, a).inserts, n)
  BY <1>2
<1>6. /\ l = (From(t, b) + j) - 1 /\ SavedLineOf(s, t, l) = (From(s, b) + r) - 1
      /\ r \in 1 .. Size(s, b)
  BY <1>4
<1>7. a = b /\ i < j => q < r BY <1>5
<1> HIDE DEF Is, q, r
<1>8. /\ From(t, a) \in Nat /\ From(t, b) \in Nat /\ Size(t, a) \in Nat /\ Size(t, b) \in Nat
      /\ From(s, a) \in Nat /\ From(s, b) \in Nat /\ Size(s, a) \in Nat /\ Size(s, b) \in Nat
  BY FromFacts, SizeFacts
<1>13. i \in Nat /\ j \in Nat /\ q \in Nat /\ r \in Nat BY <1>5, <1>6, <1>8
<1>9. a \in Nat /\ b \in Nat BY BaseFacts
<1>10. CASE a = b
  <2>1. i < j BY <1>5, <1>6, <1>8, <1>10, <1>13
  <2> QED BY <1>5, <1>6, <1>7, <1>8, <1>10, <1>13, <2>1
<1>11. CASE a < b
  <2>1. From(s, a) + Size(s, a) <= From(s, b) BY <1>11, FromGrows
  <2> QED BY <1>5, <1>6, <1>8, <1>13, <2>1
<1>12. CASE b < a
  <2>1. From(t, b) + Size(t, b) <= From(t, a) BY <1>12, FromGrows
  <2> QED BY <1>5, <1>6, <1>8, <1>13, <2>1
<1> QED BY <1>9, <1>10, <1>11, <1>12

\* Whatever edits, undos, redos and saves have followed one another, the
\* change markers (change_history) lie within the view or on its end row;
\* the lines not marked unsaved are saved lines in their order; a view
\* without an unsaved mark is the saved one, and a clean session has none.
THEOREM MarksFaithful == Spec => []MarkersFaithful
<1>1. ASSUME Sound PROVE MarkersFaithful
  <2> DEFINE s == saved_events
             t == events
             saved == View(Base, s)
             unsaved == MarkedLines("unsaved")
  <2>1. Tidy(t) /\ Tidy(s) BY <1>1, SoundFacts
  <2>2. Total = Count(t) /\ Count(t) \in Nat BY <2>1, FromFacts DEF Total, Count
  <2>3. \A kind, l : l \in MarkedLines(kind) <=>
            \E m \in Marks(t, s) : m[1] = kind /\ m[2] = l
    BY DEF MarkedLines
  <2>4. Now = View(Base, t) BY DEF Now, ViewOf
  <2>5. ASSUME NEW l, l \notin unsaved PROVE <<"unsaved", l>> \notin Marks(t, s)
    <3>1. <<"unsaved", l>>[1] = "unsaved" /\ <<"unsaved", l>>[2] = l OBVIOUS
    <3> QED BY <2>3, <2>5, <3>1
  <2> HIDE DEF s, t, unsaved, saved
  <2>6. \A m \in Marks(t, s) : m[2] \in 1..(Total + 1) BY <2>1, <2>2, MarksFacts, RegionMarkFacts
  <2>7. MarkedLines("deleted") \subseteq MarkedLines("saved") \cup MarkedLines("unsaved")
    <3> SUFFICES ASSUME NEW l, l \in MarkedLines("deleted")
                 PROVE  l \in MarkedLines("saved") \cup MarkedLines("unsaved")
      OBVIOUS
    <3>1. PICK m \in Marks(t, s) : m[1] = "deleted" /\ m[2] = l BY <2>3
    <3>2. PICK a \in DOMAIN t \cup DOMAIN s : m \in RegionMarks(s, t, a) BY <3>1, MarksAre
    <3>3. a \in Regions(Base) BY <2>1 DEF Tidy
    <3>4. <<"saved", l>> \in RegionMarks(s, t, a) \/ <<"unsaved", l>> \in RegionMarks(s, t, a)
      BY <2>1, <3>1, <3>2, <3>3, RegionMarkFacts
    <3>5. <<"saved", l>> \in Marks(t, s) \/ <<"unsaved", l>> \in Marks(t, s)
      BY <3>2, <3>4, MarksAre
    <3>6. /\ <<"saved", l>>[1] = "saved" /\ <<"saved", l>>[2] = l
          /\ <<"unsaved", l>>[1] = "unsaved" /\ <<"unsaved", l>>[2] = l
      OBVIOUS
    <3> QED BY <2>3, <3>5, <3>6
  <2>8. \E at \in [Unmarked -> 1..Len(saved)] :
           /\ \A k, l \in Unmarked : k < l => at[k] < at[l]
           /\ \A l \in Unmarked : saved[at[l]] = Now[l]
    <3> DEFINE at == [l \in Unmarked |-> SavedLineOf(s, t, l)]
    <3>1. \A l \in Unmarked : l \in 1 .. Count(t) /\ <<"unsaved", l>> \notin Marks(t, s)
      BY <2>2, <2>5 DEF Unmarked, unsaved
    <3>2. \A l \in Unmarked : at[l] = SavedLineOf(s, t, l) OBVIOUS
    <3>3. \A l \in Unmarked : at[l] \in 1 .. Len(saved) /\ saved[at[l]] = Now[l]
      <4> TAKE l \in Unmarked
      <4>1. l \in 1 .. Count(t) /\ <<"unsaved", l>> \notin Marks(t, s) BY <3>1
      <4>2. /\ SavedLineOf(s, t, l) \in 1 .. Len(View(Base, s))
            /\ View(Base, s)[SavedLineOf(s, t, l)] = View(Base, t)[l]
        BY <2>1, <4>1, UnmarkedLineText
      <4> QED BY <2>4, <3>2, <4>2 DEF saved
    <3>4. at \in [Unmarked -> 1..Len(saved)] BY <3>3
    <3>5. \A k, l \in Unmarked : k < l => at[k] < at[l]
      BY <2>1, <3>1, <3>2, UnmarkedLinesInOrder
    <3> QED BY <3>3, <3>4, <3>5
  <2>9. ASSUME unsaved = {} PROVE Now = saved
    <3>1. \A m \in Marks(t, s) : m[1] # "unsaved" BY <2>3, <2>9 DEF unsaved
    <3>2. \A a \in Regions(Base) : Region(Base, t, a) = Region(Base, s, a)
      BY <2>1, <3>1, MarksFacts, RegionMarkFacts
    <3>3. [a \in Regions(Base) |-> Region(Base, t, a)] = [a \in Regions(Base) |-> Region(Base, s, a)]
      BY <3>2
    <3> QED BY <2>4, <3>3 DEF View, saved
  <2>10. ASSUME ~IsDirty PROVE unsaved = {}
    <3>1. t = s BY <1>1, <2>10, SoundFacts DEF IsDirty, s, t
    <3>2. \A m \in Marks(t, s) : m[1] # "unsaved" BY <2>1, <3>1, MarksFacts, RegionMarkFacts
    <3> QED BY <2>3, <3>2 DEF unsaved
  <2> QED BY <2>6, <2>7, <2>8, <2>9, <2>10 DEF MarkersFaithful, s, t, saved, unsaved
<1> QED BY <1>1, OvInvariance, PTL

=============================================================================
